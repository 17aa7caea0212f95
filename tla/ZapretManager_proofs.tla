------------------------ MODULE ZapretManager_proofs ------------------------
(***************************************************************************)
(* Proofs about ZapretManager, for any combination of faults.  A file that *)
(* no cut-short operation misled the manager about is followed through the *)
(* stages of an operation: what copy it has, and what may be in its place. *)
(***************************************************************************)
EXTENDS ZapretManager, TLAPS

-----------------------------------------------------------------------------
(* Where an operation goes after each file.                                *)
LEMMA StepsInOrder ==
  /\ AfterBackup["hostlist"] = <<"backup", "iplist">>
  /\ AfterBackup["iplist"] = <<"backup", "config">>
  /\ AfterBackup["config"] = <<"write", "config">>
  /\ AfterWrite["config"] = <<"write", "hostlist">>
  /\ AfterWrite["hostlist"] = <<"write", "iplist">>
  /\ AfterWrite["iplist"] = <<"mark", "all">>
  /\ AfterRestore["hostlist"] = <<"restore", "iplist">>
  /\ AfterRestore["iplist"] = <<"restore", "config">>
  /\ AfterRestore["config"] = <<"drop", "hostlist">>
  /\ AfterDrop["hostlist"] = <<"drop", "iplist">>
  /\ AfterDrop["iplist"] = <<"drop", "config">>
  /\ AfterDrop["config"] = <<"unmark", "all">>
  BY DEF AfterBackup, AfterWrite, AfterRestore, AfterDrop

LEMMA StepsTyped ==
  ASSUME NEW f \in Files
  PROVE  /\ AfterBackup[f] \in Steps /\ AfterWrite[f] \in Steps
         /\ AfterRestore[f] \in Steps /\ AfterDrop[f] \in Steps
<1>1. \A g \in Files : /\ <<"backup", g>> \in Steps /\ <<"write", g>> \in Steps
                       /\ <<"restore", g>> \in Steps /\ <<"drop", g>> \in Steps
  BY DEF Steps
<1>2. <<"mark", "all">> \in Steps /\ <<"unmark", "all">> \in Steps BY DEF Steps
<1>3. {"hostlist", "iplist", "config"} = Files BY DEF Files
<1>4. CASE f = "hostlist" BY <1>1, <1>3, <1>4, StepsInOrder
<1>5. CASE f = "iplist" BY <1>1, <1>2, <1>3, <1>5, StepsInOrder
<1>6. CASE f = "config" BY <1>1, <1>2, <1>3, <1>6, StepsInOrder
<1> QED BY <1>3, <1>4, <1>5, <1>6

LEMMA SingleSteps ==
  {Idle, <<"mark", "all">>, <<"start", "all">>, <<"verify", "all">>, <<"stop", "all">>,
   <<"unmark", "all">>, <<"backup", "hostlist">>, <<"restore", "hostlist">>} \subseteq Steps
  BY DEF Steps, Files, Idle

LEMMA TypeInit == Init => TypeOK
<1> SUFFICES ASSUME Init PROVE TypeOK OBVIOUS
<1>1. pc \in Steps BY SingleSteps DEF Init
<1> QED BY <1>1 DEF Init, TypeOK, Texts

LEMMA TypeNext == TypeOK /\ [Next]_vars => TypeOK'
<1> SUFFICES ASSUME TypeOK, [Next]_vars PROVE TypeOK'
  OBVIOUS
<1> USE DEF TypeOK
<1>1. ASSUME Stop, service' \in {"absent", "stopped", "running"} PROVE TypeOK'
  BY <1>1, SingleSteps DEF Stop
<1>2. CASE UNCHANGED vars BY <1>2 DEF vars
<1>3. CASE StartApply \/ StartDisable BY <1>3, SingleSteps DEF StartApply, StartDisable, Succeed, files
<1>4. CASE WriteMarker BY <1>1, <1>4, SingleSteps DEF WriteMarker, Go, Fails
<1>5. CASE StartService BY <1>1, <1>5, SingleSteps DEF StartService, Go, files
<1>6. CASE VerifyService BY <1>1, <1>6, SingleSteps DEF VerifyService, Succeed, Fails, files
<1>7. CASE StopService BY <1>1, <1>7, SingleSteps DEF StopService, Go, Fails, files
<1>8. CASE RemoveMarker BY <1>1, <1>8, SingleSteps DEF RemoveMarker, Succeed, Fails
<1>9. ASSUME NEW f \in Files, BackupOriginalFile(f) PROVE TypeOK'
  BY <1>1, <1>9, StepsTyped DEF BackupOriginalFile, Go, Fails
<1>10. ASSUME NEW f \in Files, WriteFile(f) PROVE TypeOK'
  BY <1>1, <1>10, StepsTyped DEF WriteFile, Go, Fails, Texts
<1>11. ASSUME NEW f \in Files, RestoreFile(f) PROVE TypeOK'
  BY <1>1, <1>11, StepsTyped DEF RestoreFile, Go, Fails, Texts
<1>12. ASSUME NEW f \in Files, DropBackup(f) PROVE TypeOK'
  BY <1>1, <1>12, StepsTyped DEF DropBackup, Go, Fails, Texts
<1>13. CASE Crash BY <1>1, <1>13 DEF Crash
<1>14. CASE UserControlsService BY <1>14 DEF UserControlsService, files
<1> QED
  BY <1>2, <1>3, <1>4, <1>5, <1>6, <1>7, <1>8, <1>9, <1>10, <1>11, <1>12, <1>13, <1>14 DEF Next

(* Every reachable state of the files and of the manager has its type.     *)
THEOREM TypeCorrect == Spec => []TypeOK
  BY TypeInit, TypeNext, PTL DEF Spec

-----------------------------------------------------------------------------
(* A file is saved once Apply has seen to its copy, until the marker is    *)
(* written; restored, then dropped, once Disable has seen to it.           *)
Earlier == [hostlist |-> {}, iplist |-> {"hostlist"}, config |-> {"hostlist", "iplist"}]

Past(stage, f) == pc[1] = stage /\ f \in Earlier[pc[2]]
Saved(f)    == pc[1] \in {"write", "mark"}  \/ Past("backup", f)
Restored(f) == pc[1] \in {"drop", "unmark"} \/ Past("restore", f)
Dropped(f)  == pc[1] = "unmark" \/ Past("drop", f)

FileInv(f) ==
  /\ backup[f] \in {"absent", orig[f]}
  /\ live[f] \in {"absent", "managed", orig[f]}
  /\ orig[f] = "user" => live[f] = "user" \/ backup[f] = "user"
  /\ f = "config" /\ orig[f] = "absent" => live[f] = "absent"
  /\ Saved(f) /\ orig[f] = "user" => backup[f] = "user"
  /\ Restored(f) => live[f] = orig[f]
  /\ Dropped(f) => backup[f] = "absent"
  /\ ~Saved(f) /\ ~Restored(f) => ~Misleading(f)
  /\ done = "disabled" => live[f] = orig[f] /\ backup[f] = "absent"

MarkerInv ==
  /\ pc[1] \in {"start", "verify", "stop", "restore", "drop", "unmark"} => marker
  /\ done = "disabled" => pc = Idle

Inv == MarkerInv /\ \A f \in Files \ lapsed : FileInv(f)

LEMMA InvInit == Init => Inv
  BY DEF Init, Inv, MarkerInv, FileInv, Saved, Restored, Dropped, Past, Misleading, Idle

(* Whatever an operation stops short of, only files that the next one is   *)
(* misled about are lost sight of.                                         *)
LEMMA InvStopped == ASSUME Inv, Stop PROVE Inv'
<1>1. pc' = <<"idle", "all">> /\ done' = "none" /\ UNCHANGED <<live, backup, marker, orig>>
  BY DEF Stop, Idle
<1>2. MarkerInv' BY <1>1 DEF MarkerInv
<1>3. ASSUME NEW f \in Files \ lapsed' PROVE FileInv(f)'
  <2>1. f \in Files \ lapsed /\ ~Misleading(f) BY <1>3 DEF Stop
  <2> QED BY <1>1, <2>1 DEF Inv, FileInv, Saved, Restored, Dropped, Past, Misleading
<1> QED BY <1>2, <1>3 DEF Inv

(* How the stages go on.                                                   *)
LEMMA OutOfStage ==
  ASSUME NEW f, pc[1] \in {"idle", "start", "verify", "stop"}
                 \/ pc = <<"backup", "hostlist">> \/ pc = <<"restore", "hostlist">>
  PROVE  ~Saved(f) /\ ~Restored(f) /\ ~Dropped(f)
  BY DEF Saved, Restored, Dropped, Past, Earlier

LEMMA OutOfStageNext ==
  ASSUME NEW f, pc'[1] \in {"idle", "start", "verify", "stop"}
                 \/ pc' = <<"backup", "hostlist">> \/ pc' = <<"restore", "hostlist">>
  PROVE  ~Saved(f)' /\ ~Restored(f)' /\ ~Dropped(f)'
  BY DEF Saved, Restored, Dropped, Past, Earlier

LEMMA BackupStage ==
  ASSUME NEW f \in Files, NEW g \in Files, pc = <<"backup", g>>, pc' = AfterBackup[g]
  PROVE  /\ ~Restored(f) /\ ~Dropped(f) /\ ~Restored(f)' /\ ~Dropped(f)'
         /\ Saved(f)' <=> Saved(f) \/ f = g
         /\ ~Saved(g)
<1> USE DEF Saved, Restored, Dropped, Past, Earlier, Files
<1>1. CASE g = "hostlist" BY <1>1, StepsInOrder
<1>2. CASE g = "iplist" BY <1>2, StepsInOrder
<1>3. CASE g = "config" BY <1>3, StepsInOrder
<1> QED BY <1>1, <1>2, <1>3

LEMMA WriteStage ==
  ASSUME NEW f \in Files, NEW g \in Files, pc = <<"write", g>>, pc' = AfterWrite[g]
  PROVE  /\ ~Restored(f) /\ ~Dropped(f) /\ ~Restored(f)' /\ ~Dropped(f)'
         /\ Saved(f) /\ Saved(f)'
<1> USE DEF Saved, Restored, Dropped, Past, Files
<1>1. CASE g = "hostlist" BY <1>1, StepsInOrder
<1>2. CASE g = "iplist" BY <1>2, StepsInOrder
<1>3. CASE g = "config" BY <1>3, StepsInOrder
<1> QED BY <1>1, <1>2, <1>3

LEMMA RestoreStage ==
  ASSUME NEW f \in Files, NEW g \in Files, pc = <<"restore", g>>, pc' = AfterRestore[g]
  PROVE  /\ ~Saved(f) /\ ~Dropped(f) /\ ~Saved(f)' /\ ~Dropped(f)'
         /\ Restored(f)' <=> Restored(f) \/ f = g
         /\ pc'[1] \in {"restore", "drop"} /\ ~Restored(g)
<1> USE DEF Saved, Restored, Dropped, Past, Earlier, Files
<1>1. CASE g = "hostlist" BY <1>1, StepsInOrder
<1>2. CASE g = "iplist" BY <1>2, StepsInOrder
<1>3. CASE g = "config" BY <1>3, StepsInOrder
<1> QED BY <1>1, <1>2, <1>3

LEMMA DropStage ==
  ASSUME NEW f \in Files, NEW g \in Files, pc = <<"drop", g>>, pc' = AfterDrop[g]
  PROVE  /\ ~Saved(f) /\ Restored(f) /\ ~Saved(f)' /\ Restored(f)'
         /\ Dropped(f)' <=> Dropped(f) \/ f = g
         /\ pc'[1] \in {"drop", "unmark"}
<1> USE DEF Saved, Restored, Dropped, Past, Earlier, Files
<1>1. CASE g = "hostlist" BY <1>1, StepsInOrder
<1>2. CASE g = "iplist" BY <1>2, StepsInOrder
<1>3. CASE g = "config" BY <1>3, StepsInOrder
<1> QED BY <1>1, <1>2, <1>3

LEMMA LastStages ==
  ASSUME NEW f
  PROVE  /\ pc = <<"mark", "all">> => Saved(f) /\ ~Restored(f) /\ ~Dropped(f)
         /\ pc = <<"unmark", "all">> => ~Saved(f) /\ Restored(f) /\ Dropped(f)
  BY DEF Saved, Restored, Dropped, Past

(* An operation that goes on or succeeds.                                  *)
LEMMA InvApply ==
  ASSUME TypeOK, Inv,
         \/ StartApply
         \/ (StartService \/ VerifyService) /\ ~Stop
         \/ WriteMarker /\ ~Stop
         \/ \E g \in Files : (BackupOriginalFile(g) \/ WriteFile(g)) /\ ~Stop
  PROVE  Inv'
<1>1. CASE StartApply
  <2>1. /\ UNCHANGED <<live, backup, marker, orig, lapsed>> /\ done' = "none" /\ pc = <<"idle", "all">>
        /\ pc' = <<"backup", "hostlist">> \/ pc' = <<"idle", "all">>
    BY <1>1 DEF StartApply, files, Idle
  <2>2. MarkerInv' BY <2>1 DEF MarkerInv
  <2>3. ASSUME NEW f \in Files \ lapsed' PROVE FileInv(f)'
    <3>1. ~Saved(f) /\ ~Restored(f) /\ ~Dropped(f) BY <2>1, OutOfStage
    <3>2. ~Saved(f)' /\ ~Restored(f)' /\ ~Dropped(f)' BY <2>1, OutOfStageNext
    <3> QED BY <2>1, <2>3, <3>1, <3>2 DEF Inv, FileInv, Misleading
  <2> QED BY <2>2, <2>3 DEF Inv
<1>2. CASE (StartService \/ VerifyService) /\ ~Stop
  <2>1. /\ UNCHANGED <<live, backup, marker, orig, lapsed>>
        /\ done' = done \/ done' = "applied"
        /\ \/ pc = <<"start", "all">> /\ pc' = <<"verify", "all">>
           \/ pc = <<"verify", "all">> /\ pc' = <<"idle", "all">>
    BY <1>2 DEF StartService, VerifyService, Go, Succeed, Fails, files, Idle
  <2>2. MarkerInv' BY <2>1 DEF Inv, MarkerInv, Idle
  <2>3. ASSUME NEW f \in Files \ lapsed' PROVE FileInv(f)'
    <3>1. ~Saved(f) /\ ~Restored(f) /\ ~Dropped(f) BY <2>1, OutOfStage
    <3>2. ~Saved(f)' /\ ~Restored(f)' /\ ~Dropped(f)' BY <2>1, OutOfStageNext
    <3> QED BY <2>1, <2>3, <3>1, <3>2 DEF Inv, FileInv, Misleading
  <2> QED BY <2>2, <2>3 DEF Inv
<1>3. CASE WriteMarker /\ ~Stop
  <2>1. /\ UNCHANGED <<live, backup, orig, lapsed, done>> /\ marker' = TRUE
        /\ pc = <<"mark", "all">> /\ pc' = <<"start", "all">>
    BY <1>3 DEF WriteMarker, Go, Fails
  <2>2. MarkerInv' BY <2>1 DEF Inv, MarkerInv, Idle
  <2>3. ASSUME NEW f \in Files \ lapsed' PROVE FileInv(f)'
    <3>1. Saved(f) /\ ~Restored(f) /\ ~Dropped(f) BY <2>1, LastStages
    <3>2. ~Saved(f)' /\ ~Restored(f)' /\ ~Dropped(f)' BY <2>1, OutOfStageNext
    <3>3. orig[f] \in {"absent", "user"} BY <2>3 DEF TypeOK
    <3> QED BY <2>1, <2>3, <3>1, <3>2, <3>3 DEF Inv, FileInv, Misleading
  <2> QED BY <2>2, <2>3 DEF Inv
<1>4. ASSUME NEW g \in Files, BackupOriginalFile(g), ~Stop PROVE Inv'
  <2>1. /\ UNCHANGED <<live, marker, orig, lapsed, done>>
        /\ backup' = IF marker \/ backup[g] # "absent" THEN backup
                     ELSE [backup EXCEPT ![g] = live[g]]
        /\ pc = <<"backup", g>> /\ pc' = AfterBackup[g]
    BY <1>4 DEF BackupOriginalFile, Go, Fails
  <2>2. pc'[1] \in {"backup", "write"} BY <2>1, StepsInOrder DEF Files
  <2>3. MarkerInv' BY <2>1, <2>2 DEF Inv, MarkerInv, Idle
  <2>4. ASSUME NEW f \in Files \ lapsed' PROVE FileInv(f)'
    <3>1. FileInv(f) BY <2>1, <2>4 DEF Inv
    <3>2. /\ ~Restored(f) /\ ~Dropped(f) /\ ~Restored(f)' /\ ~Dropped(f)'
          /\ Saved(f)' <=> Saved(f) \/ f = g
          /\ ~Saved(g)
      BY <2>1, BackupStage
    <3>3. /\ orig[f] \in {"absent", "user"} /\ done # "disabled"
          /\ backup'[f] = IF f # g \/ marker \/ backup[f] # "absent" THEN backup[f] ELSE live[f]
      BY <2>1 DEF TypeOK, Inv, MarkerInv, Idle
    <3>4. CASE f # g BY <2>1, <3>1, <3>2, <3>3, <3>4 DEF FileInv, Misleading
    <3>5. CASE f = g BY <2>1, <3>1, <3>2, <3>3, <3>5 DEF FileInv, Misleading
    <3> QED BY <3>4, <3>5
  <2> QED BY <2>3, <2>4 DEF Inv
<1>5. ASSUME NEW g \in Files, WriteFile(g), ~Stop PROVE Inv'
  <2>1. /\ UNCHANGED <<backup, marker, orig, lapsed, done>>
        /\ g = "config" => ConfigExists
        /\ live' = [live EXCEPT ![g] = IF g = "config" /\ ~cidrs THEN "user" ELSE "managed"]
        /\ pc = <<"write", g>> /\ pc' = AfterWrite[g]
    BY <1>5 DEF WriteFile, Go, Fails
  <2>2. pc'[1] \in {"write", "mark"} BY <2>1, StepsInOrder DEF Files
  <2>3. MarkerInv' BY <2>1, <2>2 DEF Inv, MarkerInv, Idle
  <2>4. ASSUME NEW f \in Files \ lapsed' PROVE FileInv(f)'
    <3>1. FileInv(f) BY <2>1, <2>4 DEF Inv
    <3>2. /\ ~Restored(f) /\ ~Dropped(f) /\ ~Restored(f)' /\ ~Dropped(f)'
          /\ Saved(f) /\ Saved(f)'
      BY <2>1, WriteStage
    <3>3. orig[f] \in {"absent", "user"} /\ done # "disabled"
      BY <2>1 DEF TypeOK, Inv, MarkerInv, Idle
    <3>4. live'[f] = IF f # g THEN live[f] ELSE IF f = "config" /\ ~cidrs THEN "user" ELSE "managed"
      BY <2>1 DEF TypeOK
    <3>5. f = g /\ f = "config" => orig[f] = "user"
      BY <2>1, <3>1, <3>3 DEF FileInv, ConfigExists
    <3> QED BY <2>1, <3>1, <3>2, <3>3, <3>4, <3>5 DEF FileInv
  <2> QED BY <2>3, <2>4 DEF Inv
<1> QED BY <1>1, <1>2, <1>3, <1>4, <1>5

LEMMA InvDisable ==
  ASSUME TypeOK, Inv,
         \/ StartDisable
         \/ (StopService \/ RemoveMarker) /\ ~Stop
         \/ \E g \in Files : (RestoreFile(g) \/ DropBackup(g)) /\ ~Stop
  PROVE  Inv'
<1>1. CASE StartDisable \/ (StopService /\ ~Stop)
  <2>1. /\ UNCHANGED <<live, backup, marker, orig, lapsed>>
        /\ \/ pc = <<"idle", "all">> /\ pc' = <<"idle", "all">> /\ done' = "none"
           \/ pc = <<"idle", "all">> /\ pc' = <<"stop", "all">> /\ done' = "none" /\ marker
           \/ pc = <<"stop", "all">> /\ pc' = <<"restore", "hostlist">> /\ done' = done
    BY <1>1 DEF StartDisable, StopService, Go, Succeed, Fails, files, Idle
  <2>2. MarkerInv' BY <2>1 DEF Inv, MarkerInv, Idle
  <2>3. ASSUME NEW f \in Files \ lapsed' PROVE FileInv(f)'
    <3>1. ~Saved(f) /\ ~Restored(f) /\ ~Dropped(f) BY <2>1, OutOfStage
    <3>2. ~Saved(f)' /\ ~Restored(f)' /\ ~Dropped(f)' BY <2>1, OutOfStageNext
    <3> QED BY <2>1, <2>3, <3>1, <3>2 DEF Inv, FileInv, Misleading
  <2> QED BY <2>2, <2>3 DEF Inv
<1>2. CASE RemoveMarker /\ ~Stop
  <2>1. /\ UNCHANGED <<live, backup, orig, lapsed>> /\ marker' = FALSE
        /\ pc = <<"unmark", "all">> /\ pc' = <<"idle", "all">> /\ done' = "disabled"
    BY <1>2 DEF RemoveMarker, Succeed, Fails, Idle
  <2>2. MarkerInv' BY <2>1 DEF MarkerInv, Idle
  <2>3. ASSUME NEW f \in Files \ lapsed' PROVE FileInv(f)'
    <3>1. ~Saved(f) /\ Restored(f) /\ Dropped(f) BY <2>1, LastStages
    <3>2. ~Saved(f)' /\ ~Restored(f)' /\ ~Dropped(f)' BY <2>1, OutOfStageNext
    <3>3. orig[f] \in {"absent", "user"} BY <2>3 DEF TypeOK
    <3> QED BY <2>1, <2>3, <3>1, <3>2, <3>3 DEF Inv, FileInv, Misleading
  <2> QED BY <2>2, <2>3 DEF Inv
<1>3. ASSUME NEW g \in Files, RestoreFile(g), ~Stop PROVE Inv'
  <2>1. /\ UNCHANGED <<backup, marker, orig, lapsed, done>>
        /\ live' = [live EXCEPT ![g] = IF backup[g] # "absent" THEN backup[g]
                                       ELSE IF g = "config" THEN @ ELSE "absent"]
        /\ pc = <<"restore", g>> /\ pc' = AfterRestore[g]
    BY <1>3 DEF RestoreFile, Go, Fails
  <2>2. marker /\ done # "disabled" BY <2>1 DEF Inv, MarkerInv, Idle
  <2>3. MarkerInv' BY <2>1, <2>2 DEF MarkerInv
  <2>4. ASSUME NEW f \in Files \ lapsed' PROVE FileInv(f)'
    <3>1. FileInv(f) BY <2>1, <2>4 DEF Inv
    <3>2. /\ ~Saved(f) /\ ~Dropped(f) /\ ~Saved(f)' /\ ~Dropped(f)' /\ ~Restored(g)
          /\ Restored(f)' <=> Restored(f) \/ f = g
      BY <2>1, RestoreStage
    <3>3. orig[f] \in {"absent", "user"} BY DEF TypeOK
    <3>4. live'[f] = IF f # g THEN live[f] ELSE IF backup[f] # "absent" THEN backup[f]
                     ELSE IF f = "config" THEN live[f] ELSE "absent"
      BY <2>1 DEF TypeOK
    <3>5. CASE f # g BY <2>1, <2>2, <3>1, <3>2, <3>3, <3>4, <3>5 DEF FileInv, Misleading
    <3>6. CASE f = g
      <4>1. backup[f] = "absent" => orig[f] = "absent"
        BY <2>2, <3>1, <3>2, <3>3, <3>6 DEF FileInv, Misleading
      <4>2. live'[f] = orig[f] BY <3>1, <3>3, <3>4, <3>6, <4>1 DEF FileInv
      <4> QED BY <2>1, <2>2, <3>1, <3>2, <3>3, <3>6, <4>2 DEF FileInv
    <3> QED BY <3>5, <3>6
  <2> QED BY <2>3, <2>4 DEF Inv
<1>4. ASSUME NEW g \in Files, DropBackup(g), ~Stop PROVE Inv'
  <2>1. /\ UNCHANGED <<live, marker, orig, lapsed, done>>
        /\ backup' = [backup EXCEPT ![g] = "absent"]
        /\ pc = <<"drop", g>> /\ pc' = AfterDrop[g]
    BY <1>4 DEF DropBackup, Go, Fails
  <2>2. marker /\ done # "disabled" BY <2>1 DEF Inv, MarkerInv, Idle
  <2>3. MarkerInv' BY <2>1, <2>2 DEF MarkerInv
  <2>4. ASSUME NEW f \in Files \ lapsed' PROVE FileInv(f)'
    <3>1. FileInv(f) BY <2>1, <2>4 DEF Inv
    <3>2. /\ ~Saved(f) /\ Restored(f) /\ ~Saved(f)' /\ Restored(f)'
          /\ Dropped(f)' <=> Dropped(f) \/ f = g
      BY <2>1, DropStage
    <3>3. backup'[f] = IF f = g THEN "absent" ELSE backup[f] BY <2>1 DEF TypeOK
    <3> QED BY <2>1, <2>2, <3>1, <3>2, <3>3 DEF FileInv
  <2> QED BY <2>3, <2>4 DEF Inv
<1> QED BY <1>1, <1>2, <1>3, <1>4

LEMMA InvNext == TypeOK /\ Inv /\ [Next]_vars => Inv'
<1> SUFFICES ASSUME TypeOK, Inv, [Next]_vars PROVE Inv'
  OBVIOUS
<1>1. CASE Stop BY <1>1, InvStopped
<1>2. CASE UNCHANGED vars
  BY <1>2 DEF vars, Inv, MarkerInv, FileInv, Saved, Restored, Dropped, Past, Misleading
<1>3. CASE UserControlsService
  <2>1. UNCHANGED <<live, backup, marker, pc, orig, lapsed>> /\ done' = "none"
    BY <1>3 DEF UserControlsService, files
  <2> QED BY <2>1 DEF Inv, MarkerInv, FileInv, Saved, Restored, Dropped, Past, Misleading
<1>4. CASE Next /\ ~Stop /\ ~UserControlsService
  BY <1>4, InvApply, InvDisable DEF Next, Crash
<1> QED BY <1>1, <1>2, <1>3, <1>4

LEMMA InvHolds == Spec => []Inv
  BY InvInit, InvNext, TypeCorrect, PTL DEF Spec

(* Whatever fails, dies and is repeated: the user's files are kept, but    *)
(* for those whose copy a cut-short Disable had already removed.           *)
THEOREM UserFilesAreKept == Spec => []UserFilesKept
<1>1. Inv => UserFilesKept BY DEF Inv, FileInv, UserFilesKept
<1> QED BY <1>1, InvHolds, PTL

(* A Disable that undoes an Apply restores every such file.                *)
THEOREM DisableGivesBack == Spec => []DisableRestores
<1>1. Inv => DisableRestores BY DEF Inv, FileInv, DisableRestores
<1> QED BY <1>1, InvHolds, PTL
=============================================================================
