----------------------------- MODULE AutoSelection -----------------------------
(***************************************************************************)
(* Auto mode (src/internal/app/auto.go, auto_state.go): the daemon probes  *)
(* the active subscription's nodes at every health check, checks that the  *)
(* node in use really carries traffic, and stays, switches, gives up, or   *)
(* turns to Zapret and back.  What it learns it keeps in memory and stores *)
(* only now and then; commands and its own refresh loop load and save the  *)
(* stored state meanwhile.                                                 *)
(*                                                                         *)
(* Time passes in health checks: an age counts how many have begun since.  *)
(***************************************************************************)
EXTENDS NodeHealth

CONSTANTS
  Links,               \* what the network may do to a node
  ZapretOutcomes,      \* does starting Zapret work: subset of BOOLEAN
  FailbackThreshold,   \* settings.Zapret.FailbackSuccessThreshold
  PersistInterval,     \* health checks between two saves of health alone
  Events,              \* subset of {"network", "router", "touch", "restart", "user"}
  MaxEvents            \* bound on how many of them happen

ASSUME AutoAssumption ==
  /\ Links \subseteq [latency : Nat, egress : BOOLEAN]
  /\ FailbackThreshold \in 1..MaxSuccessStreak
  /\ PersistInterval \in Nat /\ MaxEvents \in Nat

VARIABLES
  fallback,   \* settings.Zapret.Enabled, which does not change here
  link,       \* each node's link: latency 0 refuses the probe
  applying,   \* what becomes of an attempt to apply a node
  excluded,   \* settings.AutoExcludedNodes
  disk,       \* the stored state
  cache,      \* the daemon's health in memory while its key matches, or Forgotten
  run,        \* each node's successful probes in a row that the daemon may go by
  events      \* events so far

vars == <<fallback, link, applying, excluded, disk, cache, run, events>>

Transports == {"proxy", "zapret", "direct"}

(* applyNodeSelection.  The node is up; Xray does not come up with it, and *)
(* the config there was comes back, or does not; a step in which Xray, DNS *)
(* or the firewall is set up fails; nothing was touched yet.               *)
Outcomes == {"up", "unready", "stuck", "broken", "unprepared"}

Forgotten  == [health |-> [n \in Nodes |-> Unprobed], age |-> PersistInterval + 1]

(* The fields that a cached health must agree with (autoHealthStateKey); a *)
(* switch time never changes without one of these.                         *)
Key(s) == <<s.node, s.connected, s.transport>>

(* Traffic through the node gets through.                                  *)
Works(n) == link[n].latency > 0 /\ link[n].egress

Init ==
  /\ fallback \in BOOLEAN /\ applying = "up"
  /\ link \in [Nodes -> Links]
  /\ excluded = {} /\ cache = Forgotten /\ events = 0
  /\ disk = [node |-> None, connected |-> FALSE, transport |-> "direct",
             failed |-> TRUE, health |-> [n \in Nodes |-> Unprobed],
             switchAge |-> Cooldown, transportAge |-> Cooldown]
  /\ run = [n \in Nodes |-> 0]

-----------------------------------------------------------------------------
(* evaluateAutoSelection                                                   *)

Charge(health, n) == [health EXCEPT ![n] = ForceHealthFailure(@)]

(* The node the state is connected through.                                *)
CurrentNode(s) == IF s.transport = "proxy" THEN s.node ELSE None

(* Health after this check's probes and, for a current node that passed,   *)
(* the check that its traffic gets out; with no candidate nothing is done. *)
Probed(s, candidates) ==
  LET current == CurrentNode(s)
      fair    == IF current # None /\ current \notin candidates
                 THEN Charge(s.health, current) ELSE s.health
      probed  == [n \in Nodes |-> IF n \in candidates
                                  THEN UpdateHealth(fair[n], link[n].latency) ELSE fair[n]]
  IN  IF candidates = {} THEN s.health
      ELSE IF s.connected /\ current # None /\ probed[current].healthy /\ ~Works(current)
      THEN Charge(probed, current) ELSE probed

\* Mutant: excluded nodes are not probed, but may be chosen.
DecisionOverAll(s, candidates, health) ==
  LET first   == SelectBestNode(Nodes, health)
      best    == IF health[first].healthy THEN first ELSE None
      current == CurrentNode(s)
      stay    == /\ s.connected /\ current # None
                 /\ ~ShouldSwitch(health[current], health[best], s.switchAge)
  IN  [health |-> health, best |-> best,
       selected |-> IF best # None /\ stay THEN current ELSE best]

(* best and selected are None when no candidate is healthy.                *)
Decision(s, candidates, health) ==
  LET first   == SelectBestNode(candidates, health)
      best    == IF candidates = {} THEN None
                 ELSE IF health[first].healthy THEN first ELSE None
      current == CurrentNode(s)
      stay    == /\ s.connected /\ current # None
                 /\ ~ShouldSwitch(health[current], health[best], s.switchAge)
  IN  [health |-> health, best |-> best,
       selected |-> IF best # None /\ stay THEN current ELSE best]

-----------------------------------------------------------------------------
(* What becomes of the state.                                              *)

\* Mutant: the transport is cleared instead of set.
DirectCleared(s) == [s EXCEPT !.connected = FALSE, !.transport = None]

Direct(s) == [s EXCEPT !.connected = FALSE, !.transport = "direct", !.failed = TRUE,
                       !.transportAge = IF s.transport = "direct" THEN @ ELSE 0]

(* commitAutoSelection.  Traffic that does not get through the node is     *)
(* ignored: the failure recorded on the way is overwritten, and            *)
(* strict_egress_check, which would not ignore it, is never read back from *)
(* settings.json.                                                          *)
Connected(s, d) ==
  [s EXCEPT !.node = d.selected, !.connected = TRUE, !.transport = "proxy",
            !.failed = FALSE, !.health = d.health,
            !.switchAge = IF d.selected = CurrentNode(s) THEN @ ELSE 0,
            !.transportAge = IF s.transport = "proxy" THEN @ ELSE 0]

(* A connection to go back to is kept, and what this check learnt with it. *)
Restorable(s)    == s.connected /\ s.node # None
RolledBack(s, d) == [s EXCEPT !.failed = TRUE, !.health = Charge(@, d.selected)]

(* What a node that did not come up leaves of the health known before it:  *)
(* the node is charged, except that a step which fails reads back what is  *)
(* stored, and there the charge is for traffic that did not get through.   *)
HealthLeft(known, n) ==
  CASE applying = "unprepared" -> {disk.health}
    [] applying = "broken" /\ Works(n) -> {disk.health}
    [] applying = "broken" /\ ~Works(n) -> {disk.health, Charge(known, n)}
    [] OTHER -> {Charge(known, n)}

(* The states an attempt may save; without a connection to go back to the  *)
(* one there was is torn down (markConnectionFailed).                      *)
Attempts(s, d, known) ==
  IF applying = "up" THEN {Connected(s, d)}
  ELSE IF applying = "unready" /\ Restorable(s) THEN {RolledBack(s, d)}
  ELSE {Direct([s EXCEPT !.node = d.selected, !.health = h]) : h \in HealthLeft(known, d.selected)}

(* activateZapretFallback keeps the health it is given.                    *)
FellBack(s, works) ==
  IF works THEN [s EXCEPT !.transport = "zapret", !.connected = TRUE, !.failed = TRUE,
                          !.transportAge = IF s.transport = "zapret" THEN @ ELSE 0]
  ELSE Direct(s)

(* persistAutoFailure tears a connection down.                             *)
GaveUp(s, d) ==
  [(IF s.connected THEN Direct(s) ELSE [s EXCEPT !.failed = TRUE]) EXCEPT !.health = d.health]

\* Mutant: any healthy node ends the fallback.
FailbackToAny(s, d) == d.best # None /\ s.transportAge >= Cooldown

CanFailbackFromZapret(s, d) ==
  /\ d.best # None
  /\ d.health[d.best].successes >= FailbackThreshold
  /\ s.transportAge >= Cooldown

-----------------------------------------------------------------------------
(* The daemon                                                              *)

Merged(s) == IF cache = Forgotten THEN s ELSE [s EXCEPT !.health = cache.health]
Aged(s)   == [s EXCEPT !.switchAge = AtMost(@ + 1, Cooldown),
                       !.transportAge = AtMost(@ + 1, Cooldown)]

SaveState(s) == disk' = s /\ cache' = [health |-> s.health, age |-> 0]

(* New health alone is stored at once when the stored failure is over or   *)
(* nothing is remembered, and every PersistInterval otherwise.             *)
PersistOrRemember(s) ==
  IF \/ cache = Forgotten \/ disk.failed # s.failed
     \/ cache.age + 1 >= PersistInterval
  THEN SaveState(s)
  ELSE /\ disk' = Aged(disk)
       /\ cache' = [health |-> s.health, age |-> cache.age + 1]

(* What a check adds to each node's row of successes; and what recorded    *)
(* health makes of the rows of some nodes when the daemon goes back to it. *)
Counted ==
  [n \in Nodes |-> IF n \in excluded THEN run[n]
                   ELSE IF link[n].latency = 0 THEN 0
                   ELSE AtMost(run[n] + 1, FailbackThreshold)]
Recalled(health, nodes) ==
  [n \in Nodes |-> IF n \in nodes /\ health[n].successes > run[n]
                   THEN AtMost(health[n].successes, FailbackThreshold) ELSE run[n]]

(* An attempt that was not even prepared ends the check with an error: it  *)
(* saves and remembers nothing of it.                                      *)
CommitAutoSelection(s, d, known) ==
  IF applying = "unprepared"
  THEN /\ disk' = Aged(disk) /\ run' = run
       /\ cache' = IF cache = Forgotten THEN Forgotten
                   ELSE [cache EXCEPT !.age = AtMost(@ + 1, PersistInterval)]
  ELSE run' = Counted /\ \E t \in Attempts(s, d, known) : SaveState(t)

RunAutoHealthCheck ==
  /\ \E s \in {Merged(Aged(disk))} :
     \E health \in {Probed(s, Nodes \ excluded)} :
     \E d \in {Decision(s, Nodes \ excluded, health)} :
       IF s.transport = "zapret"
       THEN LET z == [s EXCEPT !.connected = TRUE, !.failed = TRUE, !.health = d.health]
            IN  IF CanFailbackFromZapret(z, d) THEN CommitAutoSelection(z, d, s.health)
                ELSE PersistOrRemember(z) /\ run' = Counted
       ELSE IF d.selected = None
       THEN /\ run' = Counted
            /\ IF fallback THEN \E works \in ZapretOutcomes : SaveState(FellBack(s, works))
               ELSE SaveState(GaveUp(s, d))
       ELSE IF s.connected /\ d.selected = CurrentNode(s)
       THEN PersistOrRemember([s EXCEPT !.health = d.health, !.failed = FALSE]) /\ run' = Counted
       ELSE CommitAutoSelection(s, d, s.health)
  /\ UNCHANGED <<fallback, link, applying, excluded, events>>

Event(kind) == kind \in Events /\ events < MaxEvents /\ events' = events + 1

(* The refresh loop notes an attempt: it loads the stored state, not the   *)
(* remembered one, and saving it makes it the remembered one.              *)
TouchRefreshAttempt ==
  /\ Event("touch")
  /\ SaveState(disk) /\ run' = Recalled(disk.health, Nodes)
  /\ UNCHANGED <<fallback, link, applying, excluded>>

RestoredStates ==
  IF applying = "up" THEN {[disk EXCEPT !.failed = FALSE]}
  ELSE {Direct([disk EXCEPT !.health = h]) : h \in HealthLeft(disk.health, disk.node)}

(* The daemon dies and another restores the recorded route, or drops it.   *)
RestartDaemon ==
  /\ Event("restart")
  /\ \/ /\ ~disk.connected
        /\ cache' = Forgotten /\ UNCHANGED disk
     \/ /\ disk.connected /\ disk.transport = "zapret"
        /\ \E works \in ZapretOutcomes : SaveState(FellBack(disk, works))
     \/ /\ disk.connected /\ disk.transport = "proxy"
        /\ \E t \in RestoredStates : SaveState(t)
  /\ run' = Recalled(disk.health, Nodes)
  /\ UNCHANGED <<fallback, link, applying, excluded>>

-----------------------------------------------------------------------------
(* A command, in a process of its own, the network and the router.         *)

(* Saving in another process leaves the daemon's memory alone; whether it  *)
(* still counts is for the key to tell.                                    *)
SavedElsewhere(s) ==
  /\ disk' = s
  /\ cache' = IF Key(s) = Key(disk) THEN cache ELSE Forgotten

ConnectAuto(candidates) ==
  \E health \in {Probed(disk, candidates)} :
  \E d \in {Decision(disk, candidates, health)} :
    LET s == [disk EXCEPT !.health = d.health, !.failed = TRUE]
    IN  IF d.selected # None
        THEN IF applying = "unprepared" THEN SavedElsewhere(disk)
             ELSE \E t \in Attempts(disk, d, disk.health) : SavedElsewhere(t)
        ELSE IF fallback
        THEN \E works \in ZapretOutcomes : SavedElsewhere(FellBack(s, works))
        ELSE SavedElsewhere(s)

(* Excluding nodes selects again when connected; asking for auto mode does *)
(* in any case.  A node let back in has the health it had when it left.    *)
SetExcludedNodes(ex) ==
  /\ Event("user") /\ excluded' = ex
  /\ IF disk.connected THEN ConnectAuto(Nodes \ ex) ELSE UNCHANGED <<disk, cache>>
  /\ run' = Recalled(Merged(disk).health, excluded \ ex)
  /\ UNCHANGED <<fallback, link, applying>>

UserConnectsAuto ==
  /\ Event("user") /\ ConnectAuto(Nodes \ excluded)
  /\ UNCHANGED <<fallback, link, applying, excluded, run>>

NetworkChanges ==
  /\ Event("network")
  /\ link' \in [Nodes -> Links]
  /\ UNCHANGED <<fallback, applying, excluded, disk, cache, run>>

RouterChanges ==
  /\ Event("router")
  /\ applying' \in Outcomes
  /\ UNCHANGED <<fallback, link, excluded, disk, cache, run>>

Next ==
  \/ RunAutoHealthCheck \/ TouchRefreshAttempt \/ RestartDaemon
  \/ \E ex \in SUBSET Nodes : SetExcludedNodes(ex)
  \/ UserConnectsAuto \/ NetworkChanges \/ RouterChanges

Spec == Init /\ [][Next]_vars

(* The health loop goes on for as long as the daemon runs.                 *)
FairSpec == Spec /\ WF_vars(RunAutoHealthCheck)

-----------------------------------------------------------------------------
(* Properties                                                              *)

TypeOK ==
  /\ fallback \in BOOLEAN /\ applying \in Outcomes
  /\ link \in [Nodes -> Links] /\ excluded \subseteq Nodes
  /\ disk \in [node : Nodes \cup {None}, connected : BOOLEAN, transport : Transports,
               failed : BOOLEAN, health : [Nodes -> Health],
               switchAge : 0..Cooldown, transportAge : 0..Cooldown]
  /\ cache = Forgotten
     \/ cache \in [health : [Nodes -> Health], age : 0..PersistInterval]
  /\ run \in [Nodes -> 0..FailbackThreshold] /\ events \in 0..MaxEvents

(* The node in use carries its traffic.                                    *)
Serving(s) == s.connected /\ s.transport = "proxy" /\ Works(s.node)

(* The node in use, having answered again, scores above whatever failed.   *)
(* With the program's numbers a healthy node does unless its latency is    *)
(* above 4.1 s on average.                                                 *)
CurrentIsPrompt ==
  CalculateScore(Success(Merged(disk).health[disk.node], link[disk.node].latency))
    >= -500 - 40 * FailureThreshold

(* Anti-flap: a health check never takes the connection off a working,     *)
(* prompt node that is not excluded, whatever was probed, forgotten or     *)
(* rolled back before, except to try a node that is faster on average by   *)
(* the threshold, and then not within the cooldown of the last switch      *)
(* (anti_flap.go:42).  The attempt ends on that node; or, when a step of   *)
(* it fails or the rollback does, with the working node's connection torn  *)
(* down (markConnectionFailed, service.go:4192).                           *)
WorkingNodeKept ==
  [][RunAutoHealthCheck /\ Serving(disk) /\ disk.node \notin excluded /\ CurrentIsPrompt
       /\ Key(disk') # Key(disk) =>
       LET health == Probed(Merged(Aged(disk)), Nodes \ excluded)
       IN  /\ disk'.node \in Nodes \ (excluded \cup {disk.node})
           /\ disk.switchAge + 1 >= Cooldown
           /\ health[disk.node].average - health[disk'.node].average >= LatencyImprovement
           /\ \/ disk'.connected /\ disk'.transport = "proxy"
              \/ applying \in {"stuck", "broken"}]_vars

(* A switch that the check makes goes to a node of auto mode that answered *)
(* one of the last probes, and never lands on the node it just left.       *)
MovesToCandidates ==
  [][RunAutoHealthCheck /\ disk'.connected /\ disk'.transport = "proxy"
       /\ Key(disk') # Key(disk) =>
       /\ disk'.node \notin excluded
       /\ disk'.health[disk'.node].healthy
       /\ disk'.node # CurrentNode(disk)]_vars

(* Once network and router are left alone, auto mode ends up on a node that  *)
(* works whenever there is one it may use, from any history and any state  *)
(* of its memory, Zapret fallback included.                                *)
Settles ==
  <>[](applying = "up" /\ (\E n \in Nodes \ excluded : Works(n)) => Serving(disk))

(* And then it stays there: it does not go on changing nodes or transports. *)
StopsSwitching == <>[][applying = "up" => Key(disk') = Key(disk)]_vars

(* Failback from Zapret is earned by as many healthy cycles in a row as    *)
(* the setting asks for (cli/zapret.go:134), and not within the cooldown   *)
(* of the last change of transport.  The cycles are those of the daemon's  *)
(* own checks, but a refresh attempt or a restart takes it back to the     *)
(* stored row of successes, which newer failures have not ended            *)
(* (service.go:4177), and a node that was excluded to the row it had then. *)
(* It is the cooldown that sees to this: where it is shorter than the row, *)
(* successes from before the fallback count, for the check that fell back  *)
(* keeps no record of its probes (auto.go:67).                             *)
FailbackEarned ==
  [][RunAutoHealthCheck /\ disk.transport = "zapret" /\ disk'.transport = "proxy" =>
       /\ run'[disk'.node] >= FailbackThreshold
       /\ disk.transportAge + 1 >= Cooldown]_vars
=============================================================================
