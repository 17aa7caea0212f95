----------------------------- MODULE XrayBackend -----------------------------
(***************************************************************************)
(* RuntimeBackend (internal/backend/xray/writer.go): a switch of the Xray  *)
(* config is a sequence of file writes and service reloads, each of which  *)
(* may fail, and the process may die between any two.                      *)
(***************************************************************************)
EXTENDS XrayOutcomes

CONSTANTS
    Configs,    \* rendered configs
    Faults      \* the steps that may fail, a subset of FaultNames

FaultNames == {"test", "write", "reload", "stop", "crash", "reboot"}

ASSUME NoneAssumption   == None \notin Configs
ASSUME FaultsAssumption == Faults \subseteq FaultNames

VARIABLES
    running,    \* the config Xray runs, or None
    config,     \* the config file, or None when there is none
    backup,     \* the last-known-good file, or None
    snap,       \* the caller's snapshot of the last switch, or None
    op          \* the call in progress

vars == <<running, config, backup, snap, op>>

ConfigOrNone == Configs \cup {None}
ApplyPCs     == {"test", "backup", "write", "reload", "restore", "reloadBack", "keep"}
RollbackPCs  == {"rollWrite", "rollReload", "rollKeep"}

\* new is the config to switch to, old what the switch would go back to.  start
\* is what the call began with: nothing reads it, the refinement mapping does.
Call ==
    [pc : {"idle"} \cup ApplyPCs \cup RollbackPCs, new : ConfigOrNone, old : ConfigOrNone,
     start : [running : ConfigOrNone,
              files : [disk : ConfigOrNone, good : ConfigOrNone]]]

Fails(f) == f \in Faults

\* rollbackData: the backup when there is one, otherwise the config file.
RollbackData == IF backup # None THEN backup ELSE config

OnDisk == Files(config, RollbackData)

Idle     == op.pc = "idle"
Goto(pc) == op' = [op EXCEPT !.pc = pc]
Return   == Goto("idle")

Begin(pc, new, old) ==
    op' = [pc |-> pc, new |-> new, old |-> old,
           start |-> [running |-> running, files |-> OnDisk]]

\* The call fails: no snapshot is worth keeping.
Abort == Return /\ snap' = None

\* xray reload is a stop and a start: one that reports failure may have done
\* nothing, the stop, or all of it.
ReloadFails ==
    /\ Fails("reload")
    /\ running' \in {running, None, config}

-----------------------------------------------------------------------------
(* ApplyConfig.                                                            *)

ApplyConfig(c) ==
    /\ Idle
    /\ Begin("test", c, RollbackData)
    /\ UNCHANGED <<running, config, backup, snap>>

\* GenerateConfig, validateConfig and the read of the rollback data.
Validate ==
    /\ op.pc = "test"
    /\ Goto(IF op.old # None THEN "backup" ELSE "write")
    /\ UNCHANGED <<running, config, backup, snap>>

ValidateFails ==
    /\ op.pc = "test" /\ Fails("test")
    /\ Abort
    /\ UNCHANGED <<running, config, backup>>

\* Mutant: the candidate is the one kept as last-known-good.
BackUpCandidate ==
    /\ op.pc = "backup"
    /\ backup' = op.new
    /\ Goto("write")
    /\ UNCHANGED <<running, config, snap>>

BackUp ==
    /\ op.pc = "backup"
    /\ backup' = op.old
    /\ Goto("write")
    /\ UNCHANGED <<running, config, snap>>

Write ==
    /\ op.pc = "write"
    /\ config' = op.new
    /\ Goto("reload")
    /\ UNCHANGED <<running, backup, snap>>

\* Writes are atomic replacements: one that fails leaves the file as it was.
WriteFails ==
    /\ op.pc \in {"backup", "write", "restore", "keep", "rollWrite", "rollKeep"}
    /\ Fails("write")
    /\ Abort
    /\ UNCHANGED <<running, config, backup>>

Reload ==
    /\ op.pc = "reload"
    /\ running' = config
    /\ Goto("keep")
    /\ UNCHANGED <<config, backup, snap>>

ReloadNewFails ==
    /\ op.pc = "reload" /\ ReloadFails
    /\ Goto("restore")
    /\ UNCHANGED <<config, backup, snap>>

\* rollbackReload: the old config is written back, or the new one removed.
Restore ==
    /\ op.pc = "restore"
    /\ config' = op.old
    /\ Goto("reloadBack")
    /\ UNCHANGED <<running, backup, snap>>

ReloadBack ==
    /\ op.pc = "reloadBack"
    /\ running' = config
    /\ Abort
    /\ UNCHANGED <<config, backup>>

ReloadBackFails ==
    /\ op.pc = "reloadBack" /\ ReloadFails
    /\ Abort
    /\ UNCHANGED <<config, backup>>

\* The applied config becomes last-known-good; the caller keeps its snapshot.
Keep ==
    /\ op.pc = "keep"
    /\ backup' = op.new
    /\ snap' = op.old
    /\ Return
    /\ UNCHANGED <<running, config>>

-----------------------------------------------------------------------------
(* RollbackConfig, called when the switch could not be verified, and Stop. *)

RollbackConfig ==
    /\ Idle /\ snap # None
    /\ Begin("rollWrite", snap, None)
    /\ UNCHANGED <<running, config, backup, snap>>

RollbackWrite ==
    /\ op.pc = "rollWrite"
    /\ config' = op.new
    /\ Goto("rollReload")
    /\ UNCHANGED <<running, backup, snap>>

RollbackReload ==
    /\ op.pc = "rollReload"
    /\ running' = config
    /\ Goto("rollKeep")
    /\ UNCHANGED <<config, backup, snap>>

RollbackReloadFails ==
    /\ op.pc = "rollReload" /\ ReloadFails
    /\ Abort
    /\ UNCHANGED <<config, backup>>

RollbackKeep ==
    /\ op.pc = "rollKeep"
    /\ backup' = op.new
    /\ Abort
    /\ UNCHANGED <<running, config>>

Stop ==
    /\ Idle
    /\ running' \in IF Fails("stop") THEN {running, None} ELSE {None}
    /\ snap' = None
    /\ UNCHANGED <<config, backup, op>>

\* The process dies; then, perhaps, the router: Xray starts what is on disk.
Crash ==
    /\ ~Idle /\ Fails("crash")
    /\ Abort
    /\ UNCHANGED <<running, config, backup>>

Reboot ==
    /\ Idle /\ Fails("reboot")
    /\ running' \in {config, None}
    /\ snap' = None
    /\ UNCHANGED <<config, backup, op>>

-----------------------------------------------------------------------------
Init ==
    /\ running = None /\ config = None /\ backup = None /\ snap = None
    /\ op = [pc |-> "idle", new |-> None, old |-> None,
             start |-> [running |-> None, files |-> Files(None, None)]]

Next ==
    \/ \E c \in Configs : ApplyConfig(c)
    \/ Validate \/ ValidateFails \/ BackUp \/ Write \/ WriteFails
    \/ Reload \/ ReloadNewFails \/ Restore \/ ReloadBack \/ ReloadBackFails \/ Keep
    \/ RollbackConfig \/ RollbackWrite \/ RollbackReload \/ RollbackReloadFails
    \/ RollbackKeep
    \/ Stop \/ Crash \/ Reboot

Spec == Init /\ [][Next]_vars

-----------------------------------------------------------------------------
TypeOK ==
    /\ running \in ConfigOrNone
    /\ config \in ConfigOrNone
    /\ backup \in ConfigOrNone
    /\ snap \in ConfigOrNone
    /\ op \in Call

\* Seen from between two calls, whatever fails and wherever the process dies, a
\* switch leaves one of the outcomes the service counts on (XrayOutcomes).
Contract ==
    INSTANCE XrayRuntime WITH
        running <- IF Idle THEN running ELSE op.start.running,
        files   <- IF Idle THEN OnDisk ELSE op.start.files
KeepsContract == Contract!Spec
=============================================================================
