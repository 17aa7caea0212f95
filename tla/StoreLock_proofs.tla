-------------------------- MODULE StoreLock_proofs --------------------------
(***************************************************************************)
(* Theorems about StoreLock: what the lock guarantees, for any number of   *)
(* processes, as long as each runs one operation at a time.                *)
(***************************************************************************)
EXTENDS StoreLock, TLAPS

USE ProcessAssumption, NoneAssumption, BoundAssumption

\* An operation past Open has been counted.
OpsOK == \A t \in Threads : pc[t] \in {"lock", "load", "save"} => ops[t] > 0

\* What holds even if the lock file is removed.
LockInv == TypeOK /\ OpsOK /\ HoldsLock

\* What a goroutine has loaded is still what the files hold when it saves, and
\* an update that is not saved yet is not in the files.
LoadedOK ==
    \A t \in Threads :
        /\ pc[t] = "save" => loaded[t] = files
        /\ pc[t] \in {"lock", "load", "save"} => <<t, ops[t]>> \notin files
        /\ \A k \in 1..MaxOps : <<t, k>> \in files => k <= ops[t]

OneLockFile == lockFile = 0 /\ \A t \in Threads : fd[t] = 0

IInv == LockInv /\ OneLockFile /\ LoadedOK

LEMMA GotoType ==
    ASSUME TypeOK, NEW t \in Threads, NEW l \in {"idle", "lock", "close"} \cup InFn, Goto(t, l)
    PROVE  /\ pc' \in [Threads -> {"idle", "lock", "close"} \cup InFn]
           /\ pc'[t] = l
           /\ \A u \in Threads \ {t} : pc'[u] = pc[u]
BY DEF TypeOK, Goto

\* Giving up a lock takes no other process's lock away.
LEMMA ReleaseType ==
    ASSUME TypeOK, NEW t \in Threads, Release(t)
    PROVE  /\ holder' \in [LockFiles -> Processes \cup {None}]
           /\ \A f \in LockFiles :
                 holder[f] # ProcessOf[t] => holder'[f] = holder[f]
BY DEF TypeOK, Release

LEMMA TypeStep == TypeOK /\ OpsOK /\ [Next \/ Restart]_vars => TypeOK'
<1> SUFFICES ASSUME TypeOK, OpsOK, [Next \/ Restart]_vars PROVE TypeOK'
  OBVIOUS
<1>1. ASSUME NEW t \in Threads, Open(t) PROVE TypeOK'
  <2>1. ops' \in [Threads -> 0..MaxOps] BY <1>1 DEF Open, TypeOK
  <2>2. fd' \in [Threads -> LockFiles] BY <1>1 DEF Open, TypeOK
  <2>3. QED BY <1>1, <2>1, <2>2, GotoType DEF Open, TypeOK
<1>2. ASSUME NEW t \in Threads, Lock(t) PROVE TypeOK'
  <2>1. holder' \in [LockFiles -> Processes \cup {None}] BY <1>2 DEF Lock, TypeOK
  <2>2. QED BY <1>2, <2>1, GotoType DEF Lock, TypeOK, InFn
<1>3. ASSUME NEW t \in Threads, Load(t) PROVE TypeOK'
  <2>1. loaded' \in [Threads -> SUBSET Updates] BY <1>3 DEF Load, TypeOK
  <2>2. QED BY <1>3, <2>1, GotoType DEF Load, TypeOK, InFn
<1>4. ASSUME NEW t \in Threads, Save(t) PROVE TypeOK'
  <2>1. <<t, ops[t]>> \in Updates BY <1>4 DEF Save, OpsOK, TypeOK, Updates
  <2>2. files' \subseteq Updates BY <1>4, <2>1 DEF Save, TypeOK
  <2>3. QED BY <1>4, <2>2, GotoType DEF Save, TypeOK, InFn
<1>5. ASSUME NEW t \in Threads, FnFails(t) PROVE TypeOK'
  BY <1>5, GotoType DEF FnFails, TypeOK, InFn
<1>6. ASSUME NEW t \in Threads, Unlock(t) \/ Close(t) PROVE TypeOK'
  BY <1>6, GotoType, ReleaseType DEF Unlock, Close, TypeOK
<1>7. ASSUME NEW p \in Processes, Die(p) PROVE TypeOK'
  BY <1>7 DEF Die, TypeOK
<1>8. CASE Restart
  BY <1>8 DEF Restart, TypeOK, LockFiles
<1>9. CASE UNCHANGED vars
  BY <1>9 DEF vars, TypeOK
<1>10. QED BY <1>1, <1>2, <1>3, <1>4, <1>5, <1>6, <1>7, <1>8, <1>9 DEF Next

LEMMA OpsStep == TypeOK /\ OpsOK /\ [Next \/ Restart]_vars => OpsOK'
<1> SUFFICES ASSUME TypeOK, OpsOK, [Next \/ Restart]_vars PROVE OpsOK'
  OBVIOUS
<1>1. ASSUME NEW t \in Threads, Open(t) PROVE OpsOK'
  <2>1. ops'[t] = ops[t] + 1 /\ \A u \in Threads \ {t} : ops'[u] = ops[u]
    BY <1>1 DEF Open, TypeOK
  <2>2. ops[t] \in Nat BY DEF TypeOK
  <2>3. \A u \in Threads \ {t} : pc'[u] = pc[u] BY <1>1, GotoType DEF Open
  <2>4. QED BY <2>1, <2>2, <2>3 DEF OpsOK
<1>2. ASSUME NEW t \in Threads,
             Lock(t) \/ Load(t) \/ Save(t) \/ FnFails(t) \/ Unlock(t) \/ Close(t)
      PROVE  OpsOK'
  BY <1>2, GotoType DEF Lock, Load, Save, FnFails, Unlock, Close, InFn, OpsOK
<1>3. ASSUME NEW p \in Processes, Die(p) PROVE OpsOK'
  BY <1>3 DEF Die, OpsOK
<1>4. CASE Restart \/ UNCHANGED vars
  BY <1>4 DEF Restart, vars, OpsOK
<1>5. QED BY <1>1, <1>2, <1>3, <1>4 DEF Next

LEMMA HoldsLockStep ==
    ASSUME OneThreadPerProcess, TypeOK, HoldsLock, [Next \/ Restart]_vars
    PROVE  HoldsLock'
<1>1. ASSUME NEW t \in Threads, Open(t) PROVE HoldsLock'
  <2>1. pc'[t] \notin InFn /\ \A u \in Threads \ {t} : pc'[u] = pc[u]
    BY <1>1, GotoType DEF Open, InFn
  <2>2. \A u \in Threads \ {t} : fd'[u] = fd[u] BY <1>1 DEF Open, TypeOK
  <2>3. QED BY <1>1, <2>1, <2>2 DEF Open, HoldsLock
<1>2. ASSUME NEW t \in Threads, Lock(t) PROVE HoldsLock'
  <2>1. \A u \in Threads \ {t} : ProcessOf[u] # ProcessOf[t]
    BY DEF OneThreadPerProcess
  <2>2. \A u \in Threads \ {t} : pc[u] \in InFn => fd[u] # fd[t]
    BY <1>2, <2>1 DEF Lock, HoldsLock
  <2>3. fd' = fd /\ holder'[fd[t]] = ProcessOf[t]
        /\ \A f \in LockFiles \ {fd[t]} : holder'[f] = holder[f]
    BY <1>2 DEF Lock, TypeOK
  <2>4. \A u \in Threads : fd[u] \in LockFiles BY DEF TypeOK
  <2>5. \A u \in Threads \ {t} : pc'[u] = pc[u]
    BY <1>2, GotoType DEF Lock, InFn
  <2>6. QED BY <2>2, <2>3, <2>4, <2>5 DEF HoldsLock
<1>3. ASSUME NEW t \in Threads, Load(t) \/ Save(t) \/ FnFails(t) PROVE HoldsLock'
  BY <1>3, GotoType DEF Load, Save, FnFails, HoldsLock, InFn
<1>4. ASSUME NEW t \in Threads, Unlock(t) \/ Close(t) PROVE HoldsLock'
  <2>1. \A u \in Threads \ {t} : ProcessOf[u] # ProcessOf[t]
    BY DEF OneThreadPerProcess
  <2>2. pc'[t] \notin InFn /\ \A u \in Threads \ {t} : pc'[u] = pc[u]
    BY <1>4, GotoType DEF Unlock, Close, InFn
  <2>3. fd' = fd /\ \A u \in Threads : fd[u] \in LockFiles
    BY <1>4 DEF Unlock, Close, TypeOK
  <2>4. \A u \in Threads \ {t} : pc[u] \in InFn => holder'[fd[u]] = ProcessOf[u]
    BY <1>4, <2>1, <2>3, ReleaseType DEF Unlock, Close, HoldsLock
  <2>5. QED BY <2>2, <2>3, <2>4 DEF HoldsLock
<1>5. ASSUME NEW p \in Processes, Die(p) PROVE HoldsLock'
  BY <1>5 DEF Die, HoldsLock, InFn, TypeOK
<1>6. CASE Restart \/ UNCHANGED vars
  BY <1>6 DEF Restart, vars, HoldsLock
<1>7. QED BY <1>1, <1>2, <1>3, <1>4, <1>5, <1>6 DEF Next

LEMMA OneLockFileStep == TypeOK /\ OneLockFile /\ [Next]_vars => OneLockFile'
<1> SUFFICES ASSUME TypeOK, OneLockFile, [Next]_vars PROVE OneLockFile'
  OBVIOUS
<1>1. ASSUME NEW t \in Threads, Open(t) PROVE OneLockFile'
  BY <1>1 DEF Open, TypeOK, OneLockFile
<1>2. ASSUME NEW t \in Threads,
             Lock(t) \/ Load(t) \/ Save(t) \/ FnFails(t) \/ Unlock(t) \/ Close(t)
      PROVE  OneLockFile'
  BY <1>2 DEF Lock, Load, Save, FnFails, Unlock, Close, OneLockFile
<1>3. ASSUME NEW p \in Processes, Die(p) PROVE OneLockFile'
  BY <1>3 DEF Die, OneLockFile
<1>4. CASE UNCHANGED vars
  BY <1>4 DEF vars, OneLockFile
<1>5. QED BY <1>1, <1>2, <1>3, <1>4 DEF Next

LEMMA LoadedStep ==
    ASSUME OneThreadPerProcess, IInv, [Next]_vars
    PROVE  LoadedOK'
<1>a. TypeOK /\ OpsOK /\ HoldsLock /\ OneLockFile /\ LoadedOK BY DEF IInv, LockInv
<1>1. ASSUME NEW t \in Threads, Open(t) PROVE LoadedOK'
  <2>1. ops'[t] = ops[t] + 1 /\ \A u \in Threads \ {t} : ops'[u] = ops[u]
    BY <1>a, <1>1 DEF Open, TypeOK
  <2>2. /\ pc'[t] \in {"idle", "lock"}
        /\ \A u \in Threads \ {t} : pc'[u] = pc[u]
    BY <1>a, <1>1, GotoType DEF Open
  <2>3. ops[t] \in Nat /\ ops[t] + 1 \in 1..MaxOps BY <1>a, <1>1 DEF Open, TypeOK
  <2>4. \A k \in 1..MaxOps : <<t, k>> \in files => k <= ops[t] BY <1>a DEF LoadedOK
  <2>7. <<t, ops[t] + 1>> \notin files BY <2>3, <2>4
  <2>5. files' = files /\ loaded' = loaded BY <1>1 DEF Open
  <2>6. ASSUME NEW u \in Threads
        PROVE  /\ pc'[u] = "save" => loaded'[u] = files'
               /\ pc'[u] \in {"lock", "load", "save"} => <<u, ops'[u]>> \notin files'
               /\ \A k \in 1..MaxOps : <<u, k>> \in files' => k <= ops'[u]
    <3>1. CASE u = t
      <4>1. \A k \in 1..MaxOps : <<t, k>> \in files' => k <= ops'[t]
        BY <2>1, <2>3, <2>4, <2>5
      <4>2. <<t, ops'[t]>> \notin files' BY <2>1, <2>3, <2>5, <2>7
      <4>3. pc'[t] # "save" BY <2>2
      <4>4. QED BY <3>1, <4>1, <4>2, <4>3
    <3>2. CASE u # t BY <1>a, <2>1, <2>2, <2>5, <3>2 DEF LoadedOK
    <3>3. QED BY <3>1, <3>2
  <2>8. QED BY <2>6 DEF LoadedOK
<1>2. ASSUME NEW t \in Threads, Lock(t) \/ Unlock(t) \/ Close(t) \/ FnFails(t) PROVE LoadedOK'
  BY <1>a, <1>2, GotoType DEF Lock, Unlock, Close, FnFails, InFn, LoadedOK
<1>3. ASSUME NEW t \in Threads, Load(t) PROVE LoadedOK'
  <2>1. loaded'[t] = files /\ \A u \in Threads \ {t} : loaded'[u] = loaded[u]
    BY <1>a, <1>3 DEF Load, TypeOK
  <2>2. QED BY <1>a, <1>3, <2>1, GotoType DEF Load, InFn, LoadedOK
<1>4. ASSUME NEW t \in Threads, Save(t) PROVE LoadedOK'
  <2>1. \A u \in Threads \ {t} : pc[u] # "save"
    BY <1>a, <1>4 DEF Save, HoldsLock, InFn, OneThreadPerProcess, OneLockFile
  <2>2. files' = files \cup {<<t, ops[t]>>} /\ ops' = ops
    BY <1>a, <1>4 DEF Save, LoadedOK
  <2>3. pc'[t] = "return" /\ \A u \in Threads \ {t} : pc'[u] = pc[u]
    BY <1>a, <1>4, GotoType DEF Save, InFn
  <2>4. ops[t] \in Nat BY <1>a DEF TypeOK
  <2>5. QED BY <1>a, <2>1, <2>2, <2>3, <2>4 DEF LoadedOK
<1>5. ASSUME NEW p \in Processes, Die(p) PROVE LoadedOK'
  BY <1>a, <1>5 DEF Die, LoadedOK
<1>6. CASE UNCHANGED vars
  BY <1>a, <1>6 DEF vars, LoadedOK
<1>7. QED BY <1>1, <1>2, <1>3, <1>4, <1>5, <1>6 DEF Next

LEMMA InitInv == Init => IInv
BY DEF Init, IInv, LockInv, TypeOK, OpsOK, HoldsLock, LoadedOK, OneLockFile, InFn, LockFiles

LEMMA Invariance == OneThreadPerProcess => (Spec => []IInv)
<1> SUFFICES ASSUME OneThreadPerProcess PROVE Spec => []IInv
  OBVIOUS
<1>1. IInv /\ [Next]_vars => IInv'
  BY TypeStep, OpsStep, HoldsLockStep, OneLockFileStep, LoadedStep DEF IInv, LockInv
<1>2. QED BY <1>1, InitInv, PTL DEF Spec

\* An operation holds the inter-process lock it has taken from its first load to
\* its last save (FileStore.WithWriteLock), when its process runs no other beside
\* it; even if the lock file is removed meanwhile.
THEOREM LockIsHeld == OneThreadPerProcess => (RestartSpec => []HoldsLock)
<1> SUFFICES ASSUME OneThreadPerProcess PROVE RestartSpec => []HoldsLock
  OBVIOUS
<1>1. Init => LockInv BY InitInv DEF IInv
<1>2. LockInv /\ [Next \/ Restart]_vars => LockInv'
  BY TypeStep, OpsStep, HoldsLockStep DEF LockInv
<1>3. LockInv => HoldsLock BY DEF LockInv
<1>4. QED BY <1>1, <1>2, <1>3, PTL DEF RestartSpec

\* Under the same condition, and while the lock file stays in place, operations
\* are atomic on the files: StoreLock implements AtomicLedger, so no operation
\* loses what another has saved.
THEOREM OperationsAreAtomic == OneThreadPerProcess => (Spec => LedgerIsAtomic)
<1> SUFFICES ASSUME OneThreadPerProcess PROVE Spec => LedgerIsAtomic
  OBVIOUS
<1>1. Init => Ledger!Init BY DEF Init, Ledger!Init
<1>2. IInv /\ [Next]_vars => [Ledger!Next]_files
  <2> SUFFICES ASSUME IInv, [Next]_vars, files' # files PROVE Ledger!Next
    OBVIOUS
  <2>1. PICK t \in Threads : Save(t)
    BY DEF Next, vars, Open, Lock, Load, FnFails, Unlock, Close, Die
  <2>2. <<t, ops[t]>> \in Updates /\ <<t, ops[t]>> \notin files
        /\ files' = files \cup {<<t, ops[t]>>}
    BY <2>1 DEF Save, IInv, LockInv, OpsOK, LoadedOK, TypeOK, Updates
  <2>3. QED BY <2>2 DEF Ledger!Next, Ledger!Commit
<1>3. QED BY <1>1, <1>2, Invariance, PTL DEF Spec, LedgerIsAtomic, Ledger!Spec
=============================================================================
