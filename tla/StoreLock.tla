----------------------------- MODULE StoreLock -----------------------------
(***************************************************************************)
(* FileStore.WithWriteLock (internal/store/lock.go) and the operations run *)
(* under it (internal/app/store_lock.go): open the lock file, take a POSIX *)
(* record lock on it, load the files, save them, unlock, close.            *)
(*                                                                         *)
(* A record lock belongs to a process, not to a thread or a descriptor: a  *)
(* second request of the same process is granted at once, and unlocking or *)
(* closing through any descriptor gives up the lock of the whole process.  *)
(* The CLI and LuCI run one operation per process; the daemon runs its     *)
(* refresh loop and its health loop as two goroutines of one process       *)
(* (Scheduler.Start).  It is also a lock on a file, not on a name: after   *)
(* "routeflux restart" has removed the lock file, the next operation       *)
(* creates another one to lock (internal/cli/restart.go).                  *)
(***************************************************************************)
EXTENDS Integers

CONSTANTS
    Threads,     \* the goroutines that run operations
    Processes,
    ProcessOf,   \* the process a goroutine runs in
    MaxOps,      \* bound: the operations a goroutine runs
    MaxRestarts, \* bound: the times the lock file is removed
    None

ASSUME ProcessAssumption == ProcessOf \in [Threads -> Processes]
ASSUME NoneAssumption    == None \notin Processes
ASSUME BoundAssumption   == MaxOps \in Nat /\ MaxRestarts \in Nat

Updates   == Threads \X (1..MaxOps)
LockFiles == 0..MaxRestarts     \* each removal makes way for the next

VARIABLES
    lockFile, \* the lock file the path leads to
    fd,       \* the lock file each goroutine has open
    holder,   \* the process that owns the record lock of each lock file
    files,    \* what the files hold: the updates saved so far
    pc,       \* the step each goroutine is at
    loaded,   \* what each goroutine has loaded
    ops       \* how many operations each goroutine has begun

vars == <<lockFile, fd, holder, files, pc, loaded, ops>>

InFn == {"load", "save", "return"}

Goto(t, l) == pc' = [pc EXCEPT ![t] = l]

\* Unlocking or closing what t has open gives up its process's lock on it.
Release(t) ==
    holder' = [holder EXCEPT ![fd[t]] = IF @ = ProcessOf[t] THEN None ELSE @]

-----------------------------------------------------------------------------
\* os.OpenFile; when it fails the operation does not run.
Open(t) ==
    /\ pc[t] = "idle" /\ ops[t] < MaxOps
    /\ ops' = [ops EXCEPT ![t] = @ + 1]
    /\ fd' = [fd EXCEPT ![t] = lockFile]
    /\ Goto(t, "lock") \/ UNCHANGED pc
    /\ UNCHANGED <<lockFile, holder, files, loaded>>

\* Mutant: the lock is tried, not waited for, and the answer is ignored.
LockWithoutWaiting(t) ==
    /\ pc[t] = "lock"
    /\ holder' = [holder EXCEPT ![fd[t]] = IF @ = None THEN ProcessOf[t] ELSE @]
    /\ Goto(t, "load")
    /\ UNCHANGED <<lockFile, fd, files, loaded, ops>>

\* fcntl(F_SETLKW, F_WRLCK): waits for other processes, never for its own.
Lock(t) ==
    /\ pc[t] = "lock"
    /\ holder[fd[t]] \in {None, ProcessOf[t]}
    /\ holder' = [holder EXCEPT ![fd[t]] = ProcessOf[t]]
    /\ Goto(t, "load")
    /\ UNCHANGED <<lockFile, fd, files, loaded, ops>>

\* fn: it loads the files and, unless it fails first, saves what it loaded
\* with its own update.
Load(t) ==
    /\ pc[t] = "load"
    /\ loaded' = [loaded EXCEPT ![t] = files]
    /\ Goto(t, "save")
    /\ UNCHANGED <<lockFile, fd, holder, files, ops>>

Save(t) ==
    /\ pc[t] = "save"
    /\ files' = loaded[t] \cup {<<t, ops[t]>>}
    /\ Goto(t, "return")
    /\ UNCHANGED <<lockFile, fd, holder, loaded, ops>>

FnFails(t) ==
    /\ pc[t] \in {"load", "save"}
    /\ Goto(t, "return")
    /\ UNCHANGED <<lockFile, fd, holder, files, loaded, ops>>

\* Mutant: the lock is given up before the update is saved.
UnlockBeforeSave(t) ==
    /\ pc[t] \in {"save", "return"}
    /\ Release(t)
    /\ Goto(t, IF pc[t] = "save" THEN "save" ELSE "close")
    /\ UNCHANGED <<lockFile, fd, files, loaded, ops>>

\* The deferred F_UNLCK, then the deferred Close.
Unlock(t) ==
    /\ pc[t] = "return"
    /\ Release(t)
    /\ Goto(t, "close")
    /\ UNCHANGED <<lockFile, fd, files, loaded, ops>>

Close(t) ==
    /\ pc[t] = "close"
    /\ Release(t)
    /\ Goto(t, "idle")
    /\ UNCHANGED <<lockFile, fd, files, loaded, ops>>

\* A process dies with all its goroutines; the kernel drops its locks.
Die(p) ==
    /\ pc' = [t \in Threads |-> IF ProcessOf[t] = p THEN "idle" ELSE pc[t]]
    /\ pc' # pc
    /\ holder' = [f \in LockFiles |-> IF holder[f] = p THEN None ELSE holder[f]]
    /\ UNCHANGED <<lockFile, fd, files, loaded, ops>>

\* "routeflux restart" removes the lock file, taking no lock; the restart of the
\* daemon that follows is a Die.
Restart ==
    /\ lockFile < MaxRestarts
    /\ lockFile' = lockFile + 1
    /\ UNCHANGED <<fd, holder, files, pc, loaded, ops>>

Init ==
    /\ lockFile = 0
    /\ fd = [t \in Threads |-> 0]
    /\ holder = [f \in LockFiles |-> None]
    /\ files = {}
    /\ pc = [t \in Threads |-> "idle"]
    /\ loaded = [t \in Threads |-> {}]
    /\ ops = [t \in Threads |-> 0]

Next ==
    \/ \E t \in Threads :
          \/ Open(t) \/ Lock(t) \/ Load(t) \/ Save(t) \/ FnFails(t)
          \/ Unlock(t) \/ Close(t)
    \/ \E p \in Processes : Die(p)

Spec == Init /\ [][Next]_vars

RestartSpec == Init /\ [][Next \/ Restart]_vars

-----------------------------------------------------------------------------
TypeOK ==
    /\ lockFile \in LockFiles
    /\ fd \in [Threads -> LockFiles]
    /\ holder \in [LockFiles -> Processes \cup {None}]
    /\ files \subseteq Updates
    /\ pc \in [Threads -> {"idle", "lock", "close"} \cup InFn]
    /\ loaded \in [Threads -> SUBSET Updates]
    /\ ops \in [Threads -> 0..MaxOps]

\* fn runs only while its process holds the inter-process write lock, from its
\* first load to its last save (lock.go, WithWriteLock).
HoldsLock == \A t \in Threads : pc[t] \in InFn => holder[fd[t]] = ProcessOf[t]

\* Operations under the lock are atomic: each save adds its own update to all
\* that were saved before, whichever processes interleave or die.
Ledger == INSTANCE AtomicLedger WITH ledger <- files
LedgerIsAtomic == Ledger!Spec

\* One operation at a time in a process, as the CLI and LuCI run them.
OneThreadPerProcess ==
    \A t, u \in Threads : ProcessOf[t] = ProcessOf[u] => t = u
=============================================================================
