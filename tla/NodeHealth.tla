------------------------------ MODULE NodeHealth ------------------------------
(***************************************************************************)
(* How auto mode judges nodes (src/internal/probe): a probe's result is    *)
(* folded into a node's health, health is ranked by a score, and the node  *)
(* in use is left for the best one only for a reason.  Latencies are in    *)
(* units of 10 ms, so that the code's 0.2 points per millisecond are 2.    *)
(***************************************************************************)
EXTENDS Integers, FiniteSets

CONSTANTS
  Nodes,                  \* the subscription's nodes
  Rank,                   \* their order in the subscription
  FailureThreshold,       \* failures in a row before a proven node is unhealthy
  MaxSuccessStreak,       \* successes in a row that still raise the score
  MaxRecoveryWindow,      \* successes beyond failures that still do
  Timeout,                \* what a failed probe counts as latency
  LatencyImprovement,     \* what a healthy node must be beaten by
  HealthyLatencyCeiling,  \* below it nothing less is worth a switch
  Cooldown,               \* health checks between two switches
  FailureBound,           \* bound of the model on failures in a row
  MarginBound             \* and on successes minus failures, either way

None == "none"

ASSUME RankAssumption ==
  /\ Rank \in [Nodes -> Nat] /\ \A m, n \in Nodes : Rank[m] = Rank[n] => m = n
  /\ None \notin Nodes
ASSUME PolicyAssumption ==
  /\ {FailureThreshold, Timeout, LatencyImprovement, HealthyLatencyCeiling} \subseteq Nat
  /\ {MaxSuccessStreak, MaxRecoveryWindow, Cooldown} \subseteq Nat
  /\ FailureThreshold >= 1 /\ Timeout > 20 * (FailureThreshold - 1)
  /\ Timeout >= 1
  /\ FailureBound \in Nat /\ FailureBound >= FailureThreshold
  /\ MarginBound \in Nat /\ MarginBound >= MaxRecoveryWindow

AtMost(x, bound) == IF x > bound THEN bound ELSE x

(* ever: it has answered at least once.  margin: successes minus failures. *)
Health == [healthy : BOOLEAN, ever : BOOLEAN, margin : -MarginBound..MarginBound,
           successes : 0..MaxSuccessStreak, failures : 0..FailureBound, average : Nat]

Unprobed == [healthy |-> FALSE, ever |-> FALSE, margin |-> 0,
             successes |-> 0, failures |-> 0, average |-> 0]

(* A failure before any success makes the timeout the average that later   *)
(* successes have to bring down; after one it leaves the average alone.    *)
Success(h, latency) ==
  [healthy |-> TRUE, ever |-> TRUE,
   margin    |-> AtMost(h.margin + 1, MarginBound),
   successes |-> AtMost(h.successes + 1, MaxSuccessStreak),
   failures  |-> 0,
   average   |-> IF h.average = 0 THEN latency ELSE (4 * h.average + latency) \div 5]

Failed(h, failures, average, healthy) ==
  [healthy |-> healthy, ever |-> h.ever,
   margin    |-> IF h.margin = -MarginBound THEN h.margin ELSE h.margin - 1,
   successes |-> 0,
   failures  |-> AtMost(failures, FailureBound),
   average   |-> average]

\* Mutant: a node that has answered once is never given up.
FailureForgiven(h) ==
  Failed(h, h.failures + 1, IF h.average = 0 THEN Timeout ELSE h.average, h.ever)

Failure(h) ==
  Failed(h, h.failures + 1, IF h.average = 0 THEN Timeout ELSE h.average,
         h.ever /\ h.failures + 1 < FailureThreshold)

(* A latency of 0 stands for a probe that fails.                           *)
UpdateHealth(h, latency) == IF latency = 0 THEN Failure(h) ELSE Success(h, latency)

(* What a node is charged with when its traffic does not get through.      *)
ForceHealthFailure(h) ==
  Failed(h, IF h.failures + 1 < FailureThreshold THEN FailureThreshold ELSE h.failures + 1,
         h.average, FALSE)

ClampPositive(x, limit) == IF x < 0 THEN 0 ELSE AtMost(x, limit)

(* The latest latency, which the code tries before its baseline, is 0      *)
(* whenever the average is: a probe that sets the one sets the other.      *)
CalculateScore(h) ==
  LET latency == IF h.average = 0 THEN 200 ELSE h.average
  IN  IF h.healthy
      THEN 200 + 15 * h.successes + 10 * ClampPositive(h.margin, MaxRecoveryWindow)
               - 2 * latency
      ELSE -500 - 40 * h.failures - 2 * latency

(* The first of those with the highest score.                              *)
SelectBestNode(candidates, health) ==
  LET Beats(m, n) == \/ CalculateScore(health[m]) > CalculateScore(health[n])
                     \/ /\ CalculateScore(health[m]) = CalculateScore(health[n])
                        /\ Rank[m] < Rank[n]
  IN  CHOOSE n \in candidates : \A m \in candidates \ {n} : Beats(n, m)

\* Mutant: a faster node is taken at once.
SwitchAtOnce(current, candidate, age) ==
  /\ candidate.healthy
  /\ \/ ~current.healthy
     \/ candidate.average > 0
        /\ current.average - candidate.average >= LatencyImprovement

\* Mutant: only a faster node is worth a switch.
SwitchForSpeed(current, candidate, age) ==
  /\ candidate.healthy /\ age >= Cooldown
  /\ current.average - candidate.average >= LatencyImprovement

(* Is a healthy candidate worth leaving the current node for, the last     *)
(* switch having been `age` health checks ago?                             *)
ShouldSwitch(current, candidate, age) ==
  /\ candidate.healthy
  /\ \/ ~current.healthy \/ current.failures >= FailureThreshold
     \/ /\ age >= Cooldown
        /\ \/ current.average = 0
           \/ current.average > HealthyLatencyCeiling
           \/ current.average - candidate.average >= LatencyImprovement
        /\ candidate.average > 0
        /\ current.average - candidate.average >= LatencyImprovement
=============================================================================
