---------------------------- MODULE ZapretManager ----------------------------
(***************************************************************************)
(* The Zapret manager (src/internal/platform/openwrt/zapret.go): how       *)
(* RouteFlux borrows the files of zapret-openwrt, and gives them back.     *)
(* Apply copies the user's files aside, writes its own, leaves a marker    *)
(* and starts the service; Disable stops the service, puts the copies back *)
(* and removes copies and marker.  Every file operation may fail and the   *)
(* process may die between any two of them, so what the files hold is all  *)
(* that the next operation knows.                                          *)
(*                                                                         *)
(* A file is abstracted to whose text it holds.  A managed config is the   *)
(* user's text followed by RouteFlux's block, which can be cut out again   *)
(* (stripManagedZapretConfig); a managed list holds nothing of the user's. *)
(***************************************************************************)
EXTENDS Naturals

CONSTANT Faults   \* subset of {"file", "service", "status", "crash"}

Files == {"hostlist", "iplist", "config"}
Lists == {"hostlist", "iplist"}
Texts == {"absent", "user", "managed"}

VARIABLES
  live,      \* the files zapret reads
  backup,    \* the copies of the user's files
  marker,    \* zapret-managed.json exists
  service,   \* "absent" (not installed), "stopped", "running"
  pc,        \* the next step of the operation in progress
  cidrs,     \* the operation in progress was given IP selectors
  done,      \* what the last operation achieved, while nothing happened since
  orig,      \* the user's files before RouteFlux first touched them
  lapsed     \* the files a cut-short operation left in a misleading state

files == <<live, backup, marker>>
vars  == <<live, backup, marker, service, pc, cidrs, done, orig, lapsed>>

Idle == <<"idle", "all">>

(* The order of the steps: the file operations of Apply and of Disable.    *)
AfterBackup  == [hostlist |-> <<"backup", "iplist">>,
                 iplist   |-> <<"backup", "config">>,
                 config   |-> <<"write", "config">>]
AfterWrite   == [config   |-> <<"write", "hostlist">>,
                 hostlist |-> <<"write", "iplist">>,
                 iplist   |-> <<"mark", "all">>]

\* Mutant: the copies are dropped without saying which first.
AfterRestoreLost == [hostlist |-> <<"restore", "iplist">>,
                     iplist   |-> <<"restore", "config">>,
                     config   |-> <<"drop", "all">>]

AfterRestore == [hostlist |-> <<"restore", "iplist">>,
                 iplist   |-> <<"restore", "config">>,
                 config   |-> <<"drop", "hostlist">>]
AfterDrop    == [hostlist |-> <<"drop", "iplist">>,
                 iplist   |-> <<"drop", "config">>,
                 config   |-> <<"unmark", "all">>]

Steps == ({"backup", "write", "restore", "drop"} \X Files)
         \cup ({"idle", "mark", "start", "verify", "stop", "unmark"} \X {"all"})

Init ==
  /\ orig \in [Files -> {"absent", "user"}]
  /\ live = orig
  /\ backup = [f \in Files |-> "absent"]
  /\ marker = FALSE
  /\ service \in {"absent", "stopped", "running"}
  /\ pc = Idle /\ cidrs = FALSE /\ done = "none" /\ lapsed = {}

-----------------------------------------------------------------------------
(* How an operation goes on, succeeds, or stops.                           *)

(* The next operation trusts the marker and the copies.  It is misled      *)
(* about a file whose copy is gone while the marker stays (the user's file *)
(* passes for RouteFlux's), and about one RouteFlux wrote without leaving  *)
(* a copy or a marker (RouteFlux's list passes for the user's).            *)
Misleading(f) ==
  /\ backup[f] = "absent"
  /\ IF marker THEN live[f] = "user" ELSE live[f] = "managed"

Go(next) == pc' = next /\ UNCHANGED <<cidrs, done, orig, lapsed>>

Succeed(what) == /\ pc' = Idle /\ done' = what
                 /\ UNCHANGED <<cidrs, orig, lapsed>>

Stop == /\ pc' = Idle /\ done' = "none"
        /\ lapsed' = lapsed \cup {f \in Files : Misleading(f)}
        /\ UNCHANGED <<live, backup, marker, cidrs, orig>>

Fails(fault) == fault \in Faults /\ Stop /\ UNCHANGED service

-----------------------------------------------------------------------------
(* Apply                                                                   *)

StartApply ==
  /\ pc = Idle
  /\ \E withCIDRs \in BOOLEAN :
       \/ /\ service # "absent"
          /\ pc' = <<"backup", "hostlist">> /\ cidrs' = withCIDRs /\ done' = "none"
          /\ UNCHANGED <<orig, lapsed>>
       \/ \* not installed, no selectors, or the status cannot be read
          /\ service = "absent" \/ "status" \in Faults
          /\ pc' = Idle /\ done' = "none" /\ UNCHANGED <<cidrs, orig, lapsed>>
  /\ UNCHANGED <<files, service>>

\* Mutant: whatever is live is copied, over an earlier copy too.
BackupAnew(f) ==
  /\ pc = <<"backup", f>>
  /\ \/ /\ backup' = [backup EXCEPT ![f] = live[f]]
        /\ Go(AfterBackup[f]) /\ UNCHANGED <<live, marker, service>>
     \/ Fails("file")

BackupOriginalFile(f) ==
  /\ pc = <<"backup", f>>
  /\ \/ /\ backup' = IF marker \/ backup[f] # "absent" THEN backup
                     ELSE [backup EXCEPT ![f] = live[f]]
        /\ Go(AfterBackup[f]) /\ UNCHANGED <<live, marker, service>>
     \/ Fails("file")

(* A config is built from the copy, or from the live one when there is no  *)
(* copy; without either the operation stops.                               *)
ConfigExists == backup["config"] # "absent" \/ live["config"] # "absent"

WriteFile(f) ==
  /\ pc = <<"write", f>>
  /\ \/ /\ f = "config" => ConfigExists
        /\ live' = [live EXCEPT ![f] = IF f = "config" /\ ~cidrs THEN "user"
                                       ELSE "managed"]
        /\ Go(AfterWrite[f]) /\ UNCHANGED <<backup, marker, service>>
     \/ /\ f = "config" /\ ~ConfigExists
        /\ Stop /\ UNCHANGED service
     \/ Fails("file")

WriteMarker ==
  /\ pc = <<"mark", "all">>
  /\ \/ /\ marker' = TRUE
        /\ Go(<<"start", "all">>) /\ UNCHANGED <<live, backup, service>>
     \/ Fails("file")

(* start, or restart when it ran before; a script may report success and   *)
(* the service die at once.                                                *)
StartService ==
  /\ pc = <<"start", "all">>
  /\ \/ /\ service # "absent"
        /\ service' \in IF "service" \in Faults THEN {"running", "stopped"}
                        ELSE {"running"}
        /\ Go(<<"verify", "all">>) /\ UNCHANGED files
     \/ /\ service = "absent" \/ "service" \in Faults
        /\ service' \in {service, IF service = "absent" THEN "absent" ELSE "stopped"}
        /\ Stop

VerifyService ==
  /\ pc = <<"verify", "all">>
  /\ \/ service = "running" /\ Succeed("applied") /\ UNCHANGED <<files, service>>
     \/ service # "running" /\ Stop /\ UNCHANGED service
     \/ Fails("status")

-----------------------------------------------------------------------------
(* Disable                                                                 *)

StartDisable ==
  /\ pc = Idle
  /\ \/ ~marker /\ Succeed("none")
     \/ marker /\ pc' = <<"stop", "all">> /\ done' = "none"
        /\ UNCHANGED <<cidrs, orig, lapsed>>
  /\ UNCHANGED <<files, service>>

StopService ==
  /\ pc = <<"stop", "all">>
  /\ \/ /\ service' = IF service = "absent" THEN "absent" ELSE "stopped"
        /\ Go(<<"restore", "hostlist">>) /\ UNCHANGED files
     \/ service # "absent" /\ Fails("service")

\* Mutant: a file without a copy is left as it is.
RestoreCopiesOnly(f) ==
  /\ pc = <<"restore", f>>
  /\ \/ /\ live' = [live EXCEPT ![f] = IF backup[f] # "absent" THEN backup[f] ELSE @]
        /\ Go(AfterRestore[f]) /\ UNCHANGED <<backup, marker, service>>
     \/ Fails("file")

RestoreFile(f) ==
  /\ pc = <<"restore", f>>
  /\ \/ /\ live' = [live EXCEPT ![f] =
              IF backup[f] # "absent" THEN backup[f]
              ELSE IF f = "config" THEN @ ELSE "absent"]
        /\ Go(AfterRestore[f]) /\ UNCHANGED <<backup, marker, service>>
     \/ Fails("file")

DropBackup(f) ==
  /\ pc = <<"drop", f>>
  /\ \/ /\ backup' = [backup EXCEPT ![f] = "absent"]
        /\ Go(AfterDrop[f]) /\ UNCHANGED <<live, marker, service>>
     \/ Fails("file")

RemoveMarker ==
  /\ pc = <<"unmark", "all">>
  /\ \/ /\ marker' = FALSE
        /\ Succeed("disabled") /\ UNCHANGED <<live, backup, service>>
     \/ Fails("file")

-----------------------------------------------------------------------------
(* What happens around the manager.                                        *)

(* The process dies, or the router reboots and init starts the service.    *)
Crash ==
  /\ "crash" \in Faults /\ pc # Idle
  /\ Stop
  /\ service' \in {service, IF service = "absent" THEN "absent" ELSE "running"}

(* The user starts, stops, installs or removes zapret.                     *)
UserControlsService ==
  /\ service' \in {"absent", "stopped", "running"} \ {service}
  /\ done' = "none"
  /\ UNCHANGED <<files, pc, cidrs, orig, lapsed>>

Next ==
  \/ StartApply \/ WriteMarker \/ StartService \/ VerifyService
  \/ StartDisable \/ StopService \/ RemoveMarker
  \/ \E f \in Files : \/ BackupOriginalFile(f) \/ WriteFile(f)
                      \/ RestoreFile(f) \/ DropBackup(f)
  \/ Crash \/ UserControlsService

Spec == Init /\ [][Next]_vars

-----------------------------------------------------------------------------
(* Properties                                                              *)

TypeOK ==
  /\ live \in [Files -> Texts] /\ backup \in [Files -> Texts]
  /\ marker \in BOOLEAN /\ cidrs \in BOOLEAN
  /\ service \in {"absent", "stopped", "running"}
  /\ pc \in Steps
  /\ done \in {"none", "applied", "disabled"}
  /\ orig \in [Files -> {"absent", "user"}]
  /\ lapsed \subseteq Files

(* A file the user had is always there, in its place or as a copy, through *)
(* every sequence of failing and repeated Apply and Disable.  The one      *)
(* exception is a file whose copy was already removed when a Disable was   *)
(* cut short: the marker still claims it, and the next operation           *)
(* overwrites or deletes it (zapret.go:136, 152-161, 196).                 *)
UserFilesKept ==
  \A f \in Files \ lapsed :
     orig[f] = "user" => live[f] = "user" \/ backup[f] = "user"

(* When Disable undoes an Apply, every file is as the user left it, those  *)
(* that did not exist are gone again, and no copy remains; but a list a    *)
(* failed Apply left without a copy comes back as if it were the user's    *)
(* (zapret.go:195-208).                                                    *)
DisableRestores ==
  done = "disabled" =>
    \A f \in Files \ lapsed : live[f] = orig[f] /\ backup[f] = "absent"

=============================================================================
