---------------------------- MODULE XrayRuntime ----------------------------
(***************************************************************************)
(* What the Xray backend promises its caller: a switch, a rollback and a   *)
(* stop each take effect at once, or fail with one of a few outcomes.      *)
(***************************************************************************)
EXTENDS XrayOutcomes

CONSTANT Configs
VARIABLES
    running,    \* the config Xray runs, or None
    files,      \* the config on disk and the last-known-good one
    snap        \* what the caller captured before the last switch, or None

vars == <<running, files, snap>>

Init ==
    /\ running = None
    /\ files = Files(None, None)
    /\ snap = None

Apply(c) ==
    /\ running' = c
    /\ files' = Files(c, c)
    /\ snap' = files.good

ApplyFails(c) ==
    /\ <<running', files'>> \in ApplyFailures(running, files, c)
    /\ snap' = None

Rollback ==
    /\ snap # None
    /\ running' = snap
    /\ files' = Files(snap, snap)
    /\ snap' = None

RollbackFails ==
    /\ snap # None
    /\ <<running', files'>> \in RollbackFailures(running, files, snap)
    /\ snap' = None

Stop ==
    /\ running' \in {running, None}
    /\ snap' = None
    /\ UNCHANGED files

Reboot ==
    /\ running' \in {files.disk, None}
    /\ snap' = None
    /\ UNCHANGED files

Next ==
    \/ \E c \in Configs : Apply(c) \/ ApplyFails(c)
    \/ Rollback \/ RollbackFails \/ Stop \/ Reboot

Spec == Init /\ [][Next]_vars
=============================================================================
