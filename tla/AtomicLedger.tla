---------------------------- MODULE AtomicLedger ----------------------------
(***************************************************************************)
(* What the callers of FileStore.WithWriteLock count on: the files change  *)
(* by one operation's update at a time, and no update is ever lost.        *)
(***************************************************************************)
CONSTANT Updates
VARIABLE ledger     \* the updates the files hold

Init == ledger = {}

Commit(u) == u \notin ledger /\ ledger' = ledger \cup {u}

Next == \E u \in Updates : Commit(u)

Spec == Init /\ [][Next]_ledger
=============================================================================
