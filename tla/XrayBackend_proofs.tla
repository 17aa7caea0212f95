------------------------- MODULE XrayBackend_proofs -------------------------
(***************************************************************************)
(* XrayBackend implements XrayRuntime: whatever step of a switch fails and *)
(* wherever the process dies, the outcome is one of XrayOutcomes.          *)
(***************************************************************************)
EXTENDS XrayBackend, TLAPS

USE NoneAssumption, FaultsAssumption

XrayFiles == [disk : ConfigOrNone, good : ConfigOrNone]

\* How far the call has come since it began.
ApplyOK ==
    LET s == op.start IN
    /\ op.pc \in ApplyPCs => op.new \in Configs /\ op.old = s.files.good
    /\ op.pc \in {"test", "backup", "write"} => running = s.running /\ OnDisk = s.files
    /\ op.pc = "backup" => op.old # None
    /\ op.pc \in {"write", "reload", "restore", "reloadBack", "keep"} => backup = op.old
    /\ op.pc \in {"reload", "restore", "keep"} => config = op.new
    /\ op.pc = "reload" => running = s.running
    /\ op.pc \in {"restore", "reloadBack"} => running \in {s.running, None, op.new}
    /\ op.pc = "reloadBack" => config = op.old
    /\ op.pc = "keep" => running = op.new

RollbackOK ==
    LET s == op.start IN
    /\ snap # None => backup # None
    /\ op.pc \in RollbackPCs =>
         /\ op.new = snap /\ snap # None /\ backup = s.files.good
         /\ op.pc = "rollWrite" => running = s.running /\ OnDisk = s.files
         /\ op.pc = "rollReload" => running = s.running /\ config = op.new
         /\ op.pc = "rollKeep" => running = op.new /\ config = op.new

IInv == TypeOK /\ ApplyOK /\ RollbackOK

-----------------------------------------------------------------------------
LEMMA TypeStep == TypeOK /\ [Next]_vars => TypeOK'
<1> SUFFICES ASSUME TypeOK, [Next]_vars PROVE TypeOK'
  OBVIOUS
<1>a. RollbackData \in ConfigOrNone BY DEF TypeOK, RollbackData
<1>b. OnDisk \in XrayFiles BY <1>a DEF TypeOK, OnDisk, Files, XrayFiles
<1>1. ASSUME NEW c \in Configs, ApplyConfig(c) PROVE TypeOK'
  BY <1>a, <1>b, <1>1 DEF TypeOK, ApplyConfig, Begin, Call, ApplyPCs, ConfigOrNone, XrayFiles
<1>2. CASE Validate \/ ValidateFails \/ BackUp \/ Write \/ WriteFails
  BY <1>2 DEF TypeOK, Validate, ValidateFails, BackUp, Write, WriteFails, Abort, Return,
     Goto, Call, ApplyPCs, ConfigOrNone
<1>3. CASE Reload \/ ReloadNewFails \/ Restore \/ ReloadBack \/ ReloadBackFails \/ Keep
  BY <1>3 DEF TypeOK, Reload, ReloadNewFails, Restore, ReloadBack, ReloadBackFails, Keep,
     ReloadFails, Abort, Return, Goto, Call, ApplyPCs, ConfigOrNone
<1>4. CASE RollbackConfig
  BY <1>b, <1>4 DEF TypeOK, RollbackConfig, Begin, Call, RollbackPCs, ConfigOrNone, XrayFiles
<1>5. CASE RollbackWrite \/ RollbackReload \/ RollbackReloadFails \/ RollbackKeep
  BY <1>5 DEF TypeOK, RollbackWrite, RollbackReload, RollbackReloadFails, RollbackKeep,
     ReloadFails, Abort, Return, Goto, Call, RollbackPCs, ConfigOrNone
<1>6. CASE Stop \/ Crash \/ Reboot
  BY <1>6 DEF TypeOK, Stop, Crash, Reboot, Abort, Return, Goto, Call, ConfigOrNone
<1>7. CASE UNCHANGED vars
  BY <1>7 DEF TypeOK, vars
<1>8. QED BY <1>1, <1>2, <1>3, <1>4, <1>5, <1>6, <1>7 DEF Next

LEMMA InvStep == IInv /\ [Next]_vars => (ApplyOK /\ RollbackOK)'
<1> SUFFICES ASSUME IInv, [Next]_vars PROVE (ApplyOK /\ RollbackOK)'
  OBVIOUS
<1> USE DEF IInv, ApplyOK, RollbackOK, ApplyPCs, RollbackPCs
<1>a. TypeOK OBVIOUS
<1>b. op \in Call BY DEF TypeOK
<1>1. ASSUME NEW c \in Configs, ApplyConfig(c) PROVE (ApplyOK /\ RollbackOK)'
  BY <1>1 DEF ApplyConfig, Begin, OnDisk, RollbackData, Files
<1>2. CASE Validate
  BY <1>b, <1>2 DEF Validate, Goto, Call, OnDisk, RollbackData, Files
<1>3. CASE BackUp
  BY <1>b, <1>3 DEF BackUp, Goto, Call, OnDisk, RollbackData, Files
<1>4. CASE Write
  BY <1>b, <1>4 DEF Write, Goto, Call, OnDisk, RollbackData, Files
<1>5. CASE Reload
  BY <1>b, <1>5 DEF Reload, Goto, Call, OnDisk, RollbackData, Files
<1>6. CASE ReloadNewFails
  BY <1>b, <1>6 DEF ReloadNewFails, ReloadFails, Goto, Call, OnDisk, RollbackData, Files
<1>7. CASE Restore
  BY <1>b, <1>7 DEF Restore, Goto, Call, OnDisk, RollbackData, Files
<1>8. CASE Keep
  BY <1>b, <1>8 DEF Keep, Return, Goto, Call
<1>9. CASE RollbackConfig
  BY <1>9 DEF RollbackConfig, Begin, OnDisk, RollbackData, Files
<1>10. CASE RollbackWrite
  BY <1>b, <1>10 DEF RollbackWrite, Goto, Call, OnDisk, RollbackData, Files
<1>11. CASE RollbackReload
  BY <1>b, <1>11 DEF RollbackReload, Goto, Call, OnDisk, RollbackData, Files
<1>12. CASE ValidateFails \/ WriteFails \/ ReloadBack \/ ReloadBackFails
            \/ RollbackReloadFails \/ RollbackKeep \/ Crash
  BY <1>b, <1>12 DEF ValidateFails, WriteFails, ReloadBack, ReloadBackFails,
     RollbackReloadFails, RollbackKeep, Crash, Abort, Return, Goto, Call
<1>13. CASE Stop \/ Reboot
  BY <1>13 DEF Stop, Reboot, Idle
<1>14. CASE UNCHANGED vars
  BY <1>14 DEF vars, OnDisk, RollbackData, Files
<1>15. QED
  BY <1>1, <1>2, <1>3, <1>4, <1>5, <1>6, <1>7, <1>8, <1>9, <1>10, <1>11, <1>12, <1>13,
     <1>14 DEF Next

LEMMA InitInv == Init => IInv
BY DEF Init, IInv, TypeOK, ApplyOK, RollbackOK, Call, ApplyPCs, RollbackPCs, ConfigOrNone,
   Files

LEMMA Invariance == Spec => []IInv
<1>1. IInv /\ [Next]_vars => IInv' BY TypeStep, InvStep DEF IInv
<1>2. QED BY <1>1, InitInv, PTL DEF Spec

-----------------------------------------------------------------------------
\* A call in progress is a stutter of the contract: it shows what the call began
\* with.
LEMMA Stutter ==
    ASSUME op.start' = op.start, ~Idle, ~Idle', snap' = snap
    PROVE  UNCHANGED Contract!vars
BY DEF Idle, Contract!vars

\* The steps that end a call early, and what they leave: the files of the step
\* before, and Xray as it was, stopped or reloaded.
FailStep ==
    \/ ValidateFails \/ WriteFails \/ ReloadBack \/ ReloadBackFails
    \/ RollbackReloadFails \/ Crash

LEMMA FailStepEnds ==
    ASSUME TypeOK, FailStep
    PROVE  /\ op.pc \in ApplyPCs \cup RollbackPCs
           /\ Idle' /\ snap' = None
           /\ config' = config /\ backup' = backup /\ OnDisk' = OnDisk
           /\ \/ running' = running
              \/ op.pc \in {"reloadBack", "rollReload"} /\ running' \in {None, config}
<1>a. op \in Call BY DEF TypeOK
<1>1. CASE ValidateFails \/ WriteFails
  BY <1>a, <1>1 DEF ValidateFails, WriteFails, Abort, Return, Goto, Idle, Call, ApplyPCs,
     RollbackPCs, OnDisk, RollbackData
<1>2. CASE ReloadBack \/ ReloadBackFails \/ RollbackReloadFails
  BY <1>a, <1>2 DEF ReloadBack, ReloadBackFails, RollbackReloadFails, ReloadFails, Abort,
     Return, Goto, Idle, Call, ApplyPCs, RollbackPCs, OnDisk, RollbackData
<1>3. CASE Crash
  BY <1>a, <1>3 DEF Crash, Abort, Return, Goto, Idle, Call, ApplyPCs, RollbackPCs, OnDisk,
     RollbackData
<1>4. QED BY <1>1, <1>2, <1>3 DEF FailStep

LEMMA ApplyMayFail ==
    ASSUME IInv, FailStep, op.pc \in ApplyPCs
    PROVE  op.new \in Configs /\ Contract!ApplyFails(op.new)
<1> DEFINE s == op.start
           outcome == <<running', OnDisk'>>
<1>a. TypeOK /\ ApplyOK /\ op.new \in Configs /\ op.old = s.files.good
  BY DEF IInv, ApplyOK
<1>b. ~Idle BY DEF Idle, ApplyPCs
<1>c. op.new # None BY <1>a
<1>1. outcome \in Contract!ApplyFailures(s.running, s.files, op.new)
  <2> USE DEF Contract!ApplyFailures, Contract!Files, OnDisk, RollbackData, Files
  <2>1. CASE op.pc \in {"test", "backup", "write"}
    BY <1>a, <2>1, FailStepEnds DEF ApplyOK
  <2>2. CASE op.pc \in {"reload", "restore"}
    BY <1>a, <1>c, <2>2, FailStepEnds DEF ApplyOK
  <2>3. CASE op.pc = "reloadBack"
    BY <1>a, <2>3, FailStepEnds DEF ApplyOK
  <2>4. CASE op.pc = "keep"
    BY <1>a, <1>c, <2>4, FailStepEnds DEF ApplyOK
  <2>5. QED BY <2>1, <2>2, <2>3, <2>4 DEF ApplyPCs
<1>2. QED BY <1>a, <1>b, <1>1, FailStepEnds DEF Contract!ApplyFails

LEMMA RollbackMayFail ==
    ASSUME IInv, FailStep, op.pc \in RollbackPCs
    PROVE  Contract!RollbackFails
<1> DEFINE s == op.start
           outcome == <<running', OnDisk'>>
<1>a. TypeOK /\ RollbackOK /\ op.new = snap /\ snap # None /\ backup = s.files.good
  BY DEF IInv, RollbackOK
<1>b. ~Idle BY DEF Idle, RollbackPCs
<1>1. outcome \in Contract!RollbackFailures(s.running, s.files, snap)
  BY <1>a, FailStepEnds DEF RollbackOK, RollbackPCs, Contract!RollbackFailures,
     Contract!Files, OnDisk, RollbackData, Files
<1>2. QED BY <1>a, <1>b, <1>1, FailStepEnds DEF Contract!RollbackFails

\* ApplyConfig, RollbackConfig, Stop, a crash anywhere and a reboot take effect as
\* XrayRuntime says: the outcomes RouteFluxService is built on are all there are.
THEOREM BackendKeepsContract == Spec => KeepsContract
<1>1. Init => Contract!Init
  BY DEF Init, Contract!Init, Contract!Files, Idle, OnDisk, RollbackData, Files
<1>2. IInv /\ [Next]_vars => [Contract!Next]_(Contract!vars)
  <2> SUFFICES ASSUME IInv, [Next]_vars PROVE [Contract!Next]_(Contract!vars)
    OBVIOUS
  <2> USE DEF Contract!Files, Files
  <2>a. op \in Call /\ ApplyOK /\ RollbackOK BY DEF IInv, TypeOK
  <2>b. OnDisk = Files(config, RollbackData) BY DEF OnDisk
  <2>1. ASSUME NEW c \in Configs, ApplyConfig(c) PROVE UNCHANGED Contract!vars
    BY <2>1 DEF ApplyConfig, Begin, Idle, Contract!vars
  <2>2. CASE RollbackConfig
    BY <2>2 DEF RollbackConfig, Begin, Idle, Contract!vars
  <2>3. CASE Validate \/ BackUp \/ Write \/ Reload \/ ReloadNewFails \/ Restore
            \/ RollbackWrite \/ RollbackReload
    BY <2>a, <2>3, Stutter DEF Validate, BackUp, Write, Reload, ReloadNewFails, Restore,
       RollbackWrite, RollbackReload, Goto, Idle, Call
  <2>4. CASE Keep
    <3>1. Contract!Apply(op.new)
      BY <2>a, <2>4 DEF Keep, Return, Goto, Idle, Call, ApplyOK, ApplyPCs, OnDisk,
         RollbackData, Contract!Apply
    <3>2. QED BY <2>a, <2>4, <3>1 DEF Keep, ApplyOK, ApplyPCs, Contract!Next
  <2>5. CASE RollbackKeep
    <3>1. Contract!Rollback
      BY <2>a, <2>5 DEF RollbackKeep, Abort, Return, Goto, Idle, Call, RollbackOK,
         RollbackPCs, OnDisk, RollbackData, Contract!Rollback
    <3>2. QED BY <3>1 DEF Contract!Next
  <2>6. CASE Stop
    BY <2>6 DEF Stop, Idle, OnDisk, RollbackData, Contract!Stop, Contract!Next
  <2>7. CASE Reboot
    BY <2>7 DEF Reboot, Idle, OnDisk, RollbackData, Contract!Reboot, Contract!Next
  <2>8. CASE UNCHANGED vars
    BY <2>8 DEF vars, Idle, OnDisk, RollbackData, Contract!vars
  <2>9. CASE FailStep
    BY <2>9, FailStepEnds, ApplyMayFail, RollbackMayFail DEF IInv, Contract!Next
  <2>10. QED
    BY <2>1, <2>2, <2>3, <2>4, <2>5, <2>6, <2>7, <2>8, <2>9 DEF Next, FailStep
<1>3. QED BY <1>1, <1>2, Invariance, PTL DEF Spec, KeepsContract, Contract!Spec
=============================================================================
