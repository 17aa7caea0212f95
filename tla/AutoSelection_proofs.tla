------------------------ MODULE AutoSelection_proofs ------------------------
(***************************************************************************)
(* Proofs about AutoSelection, for any nodes, links, thresholds and        *)
(* events: which node the ranking puts first, what a probe makes of a      *)
(* node's health, and from these what a health check may do to the         *)
(* connection.                                                             *)
(***************************************************************************)
EXTENDS AutoSelection, WellFoundedInduction, TLAPS

-----------------------------------------------------------------------------
(* A set of natural numbers has a least member.                            *)
Less == {p \in Nat \X Nat : p[1] < p[2]}

LEMMA LessIsWellFounded == IsWellFoundedOn(Less, Nat)
<1>1. IsWellFoundedOn(OpToRel(<, Nat), Nat) BY NatLessThanWellFounded
<1>2. OpToRel(<, Nat) = Less BY DEF OpToRel, Less
<1> QED BY <1>1, <1>2

LEMMA LeastExists ==
  ASSUME NEW T \in SUBSET Nat, T # {}
  PROVE  \E x \in T : \A y \in T : x <= y
<1>1. \E x \in T : \A y \in T : ~(<<y, x>> \in Less)
  BY LessIsWellFounded, WFMin, Zenon
<1>2. PICK x \in T : \A y \in T : ~(<<y, x>> \in Less) BY <1>1
<1>3. ASSUME NEW y \in T PROVE x <= y
  <2>1. x \in Nat /\ y \in Nat OBVIOUS
  <2>2. y < x => <<y, x>> \in Less BY <2>1 DEF Less
  <2>3. ~(<<y, x>> \in Less) BY <1>2
  <2> QED BY <2>1, <2>2, <2>3
<1> QED BY <1>3

-----------------------------------------------------------------------------
(* The numbers of the policy.                                              *)
LEMMA Numbers ==
  /\ FailureThreshold \in Nat /\ Timeout \in Nat /\ LatencyImprovement \in Nat
  /\ HealthyLatencyCeiling \in Nat /\ MaxSuccessStreak \in Nat
  /\ MaxRecoveryWindow \in Nat /\ Cooldown \in Nat /\ FailureBound \in Nat
  /\ MarginBound \in Nat /\ FailureThreshold >= 1 /\ Timeout >= 1
  /\ Timeout > 20 * (FailureThreshold - 1) /\ FailureBound >= FailureThreshold
  BY PolicyAssumption

(* What telemetry says about a node, besides its type: one that never      *)
(* answered is charged the timeout, one that did has a latency, and it is  *)
(* given up only after enough failures in a row.                           *)
HealthOK(h) ==
  /\ h \in Health
  /\ ~h.ever => ~h.healthy /\ h.average \in {0, Timeout}
  /\ h.ever => h.average >= 1
  /\ h.ever /\ ~h.healthy => h.failures >= FailureThreshold

LEMMA UnprobedOK == HealthOK(Unprobed)
  BY Numbers DEF HealthOK, Health, Unprobed

LEMMA SuccessOK ==
  ASSUME NEW h, HealthOK(h), NEW latency \in Nat, latency >= 1
  PROVE  HealthOK(Success(h, latency))
<1> USE Numbers
<1>1. /\ h.average \in Nat /\ h.margin \in -MarginBound..MarginBound
      /\ h.successes \in 0..MaxSuccessStreak
  BY DEF HealthOK, Health
<1>2. h.average >= 1 => (4 * h.average + latency) \div 5 >= 1 BY <1>1
<1>3. (4 * h.average + latency) \div 5 \in Int BY <1>1
<1> DEFINE avg == IF h.average = 0 THEN latency ELSE (4 * h.average + latency) \div 5
<1>4. avg \in Nat /\ avg >= 1 BY <1>1, <1>2, <1>3
<1>5. AtMost(h.margin + 1, MarginBound) \in -MarginBound..MarginBound BY <1>1 DEF AtMost
<1>6. AtMost(h.successes + 1, MaxSuccessStreak) \in 0..MaxSuccessStreak BY <1>1 DEF AtMost
<1> HIDE DEF avg
<1>7. Success(h, latency) =
        [healthy |-> TRUE, ever |-> TRUE, margin |-> AtMost(h.margin + 1, MarginBound),
         successes |-> AtMost(h.successes + 1, MaxSuccessStreak), failures |-> 0,
         average |-> avg]
  BY DEF Success, avg
<1> QED BY <1>4, <1>5, <1>6, <1>7 DEF HealthOK, Health

LEMMA FailedOK ==
  ASSUME NEW h, HealthOK(h), NEW failures \in Nat, NEW average \in Nat, NEW healthy \in BOOLEAN,
         h.ever => average >= 1 /\ (~healthy => failures >= FailureThreshold),
         ~h.ever => ~healthy /\ average \in {0, Timeout}
  PROVE  /\ HealthOK(Failed(h, failures, average, healthy))
         /\ Failed(h, failures, average, healthy).healthy = healthy
         /\ Failed(h, failures, average, healthy).average = average
         /\ Failed(h, failures, average, healthy).ever = h.ever
         /\ Failed(h, failures, average, healthy).failures = AtMost(failures, FailureBound)
<1> USE Numbers
<1>1. h \in Health BY DEF HealthOK
<1>2. (IF h.margin = -MarginBound THEN h.margin ELSE h.margin - 1) \in -MarginBound..MarginBound
  BY <1>1 DEF Health
<1>3. /\ AtMost(failures, FailureBound) \in 0..FailureBound
      /\ failures >= FailureThreshold => AtMost(failures, FailureBound) >= FailureThreshold
  BY DEF AtMost
<1>4. h.ever \in BOOLEAN BY <1>1 DEF Health
<1> QED BY <1>2, <1>3, <1>4 DEF HealthOK, Health, Failed

LEMMA FailureOK ==
  ASSUME NEW h, HealthOK(h)
  PROVE  /\ HealthOK(Failure(h)) /\ Failure(h).average >= 1 /\ Failure(h).failures >= 1
         /\ Failure(h).ever = h.ever
<1> DEFINE f == h.failures + 1
           a == IF h.average = 0 THEN Timeout ELSE h.average
           g == h.ever /\ h.failures + 1 < FailureThreshold
<1> USE Numbers
<1>1. h.failures \in 0..FailureBound /\ h.average \in Nat /\ h.ever \in BOOLEAN
  BY DEF HealthOK, Health
<1>2. f \in Nat /\ f >= 1 /\ a \in Nat /\ a >= 1 /\ g \in BOOLEAN BY <1>1
<1>3. h.ever => a >= 1 /\ (~g => f >= FailureThreshold) BY <1>1
<1>4. ~h.ever => ~g /\ a \in {0, Timeout} BY <1>1 DEF HealthOK
<1>5. Failure(h) = Failed(h, f, a, g) BY DEF Failure
<1>6. AtMost(f, FailureBound) >= 1 BY <1>2 DEF AtMost
<1> HIDE DEF f, a, g
<1> QED BY <1>2, <1>3, <1>4, <1>5, <1>6, FailedOK

LEMMA ForceHealthFailureOK ==
  ASSUME NEW h, HealthOK(h)
  PROVE  /\ HealthOK(ForceHealthFailure(h)) /\ ForceHealthFailure(h).failures >= 1
         /\ ForceHealthFailure(h).average = h.average
<1> DEFINE f == IF h.failures + 1 < FailureThreshold THEN FailureThreshold ELSE h.failures + 1
<1> USE Numbers
<1>1. h.failures \in 0..FailureBound /\ h.average \in Nat /\ h.ever \in BOOLEAN
  BY DEF HealthOK, Health
<1>2. f \in Nat /\ f >= FailureThreshold BY <1>1
<1> DEFINE g == FALSE
<1>3. g \in BOOLEAN /\ ~g /\ ForceHealthFailure(h) = Failed(h, f, h.average, g)
  BY DEF ForceHealthFailure
<1>4. /\ h.ever => h.average >= 1
      /\ ~h.ever => h.average \in {0, Timeout}
  BY DEF HealthOK
<1>5. AtMost(f, FailureBound) >= 1 BY <1>2 DEF AtMost
<1> HIDE DEF f, g
<1> QED BY <1>1, <1>2, <1>3, <1>4, <1>5, FailedOK

-----------------------------------------------------------------------------
(* Scores are integers with an upper bound.                                *)
TopScore == 200 + 15 * MaxSuccessStreak + 10 * MaxRecoveryWindow

LEMMA ScoreBounded ==
  ASSUME NEW h \in Health
  PROVE  CalculateScore(h) \in Int /\ CalculateScore(h) <= TopScore
<1> USE Numbers
<1>1. /\ h.average \in Nat /\ h.margin \in Int /\ h.failures \in Nat
      /\ h.successes \in 0..MaxSuccessStreak
  BY DEF Health
<1>2. /\ ClampPositive(h.margin, MaxRecoveryWindow) \in Nat
      /\ ClampPositive(h.margin, MaxRecoveryWindow) <= MaxRecoveryWindow
  BY <1>1 DEF ClampPositive, AtMost
<1> QED BY <1>1, <1>2 DEF CalculateScore, TopScore

(* What has failed and is unhealthy scores below what is prompt.           *)
LEMMA UnhealthyScoresLow ==
  ASSUME NEW h, HealthOK(h), ~h.healthy, h.failures >= 1, h.average >= 1
  PROVE  CalculateScore(h) < -500 - 40 * FailureThreshold
<1> USE Numbers
<1>1. h.average \in Nat /\ h.failures \in Nat BY DEF HealthOK, Health
<1>2. CalculateScore(h) = -500 - 40 * h.failures - 2 * h.average
  BY <1>1 DEF CalculateScore
<1>3. CASE h.ever BY <1>1, <1>2, <1>3 DEF HealthOK
<1>4. CASE ~h.ever
  <2>1. h.average = Timeout BY <1>1, <1>4 DEF HealthOK
  <2> QED BY <1>1, <1>2, <2>1
<1> QED BY <1>3, <1>4

(* The ranking puts a candidate first that nobody outscores.               *)
LEMMA BestNodeIsFirst ==
  ASSUME NEW candidates \in SUBSET Nodes, candidates # {}, NEW health,
         \A n \in Nodes : health[n] \in Health
  PROVE  /\ SelectBestNode(candidates, health) \in candidates
         /\ \A m \in candidates :
              CalculateScore(health[m]) <= CalculateScore(health[SelectBestNode(candidates, health)])
<1> DEFINE score(n) == CalculateScore(health[n])
           Beats(m, n) == \/ score(m) > score(n)
                          \/ score(m) = score(n) /\ Rank[m] < Rank[n]
           behind == {TopScore - score(n) : n \in candidates}
<1>1. \A n \in candidates : score(n) \in Int /\ score(n) <= TopScore BY ScoreBounded
<1>2. TopScore \in Int BY Numbers DEF TopScore
<1>3. behind \in SUBSET Nat /\ behind # {} BY <1>1, <1>2
<1>4. \A n \in candidates : Rank[n] \in Nat BY RankAssumption
<1> HIDE DEF score
<1>5. PICK x \in behind : \A y \in behind : x <= y BY <1>3, LeastExists
<1>6. PICK top \in candidates : x = TopScore - score(top) BY <1>5
<1>7. \A n \in candidates : score(n) <= score(top)
  <2> TAKE n \in candidates
  <2>1. TopScore - score(top) <= TopScore - score(n) BY <1>5, <1>6
  <2> QED BY <1>1, <1>2, <2>1
<1> DEFINE tied == {n \in candidates : score(n) = score(top)}
           ranks == {Rank[n] : n \in tied}
<1>8. ranks \in SUBSET Nat /\ ranks # {} BY <1>4
<1>9. PICK r \in ranks : \A s \in ranks : r <= s BY <1>8, LeastExists
<1>10. PICK first \in tied : r = Rank[first] BY <1>9
<1>11. \A m \in candidates \ {first} : Beats(first, m)
  <2> TAKE m \in candidates \ {first}
  <2>1. CASE m \in tied
    <3>1. Rank[first] <= Rank[m] BY <1>9, <1>10, <2>1
    <3>2. Rank[first] # Rank[m] BY RankAssumption, <1>10
    <3> QED BY <1>4, <1>10, <2>1, <3>1, <3>2
  <2>2. CASE m \notin tied BY <1>1, <1>7, <1>10, <2>2
  <2> QED BY <2>1, <2>2
<1>12. SelectBestNode(candidates, health)
         = CHOOSE n \in candidates : \A m \in candidates \ {n} : Beats(n, m)
  BY DEF SelectBestNode, score
<1> DEFINE best == SelectBestNode(candidates, health)
<1>13. best \in candidates /\ \A m \in candidates \ {best} : Beats(best, m)
  BY <1>10, <1>11, <1>12
<1>14. \A m \in candidates : score(m) <= score(best)
  <2> HIDE DEF best
  <2> TAKE m \in candidates
  <2>1. CASE m = best BY <1>1, <2>1
  <2>2. CASE m # best BY <1>1, <1>13, <2>2
  <2> QED BY <2>1, <2>2
<1> QED BY <1>13, <1>14 DEF score

-----------------------------------------------------------------------------
(* What a check learns and decides.                                        *)
AllOK(health) == health \in [Nodes -> Health] /\ \A n \in Nodes : HealthOK(health[n])

StateType ==
  [node : Nodes \cup {None}, connected : BOOLEAN, transport : Transports,
   failed : BOOLEAN, health : [Nodes -> Health],
   switchAge : 0..Cooldown, transportAge : 0..Cooldown]

StateOK(s) ==
  /\ s \in StateType /\ AllOK(s.health)
  /\ s.connected <=> s.transport # "direct"
  /\ s.transport = "proxy" => s.node \in Nodes

LEMMA ChargeOK ==
  ASSUME NEW health, AllOK(health), NEW n
  PROVE  AllOK(Charge(health, n))
<1>1. \A m \in Nodes : HealthOK(health[m]) /\ HealthOK(ForceHealthFailure(health[m]))
  BY ForceHealthFailureOK DEF AllOK
<1>2. \A m \in Nodes :
        Charge(health, n)[m] = IF m = n THEN ForceHealthFailure(health[m]) ELSE health[m]
  BY DEF Charge, AllOK
<1>3. \A m \in Nodes : HealthOK(Charge(health, n)[m]) BY <1>1, <1>2
<1>4. DOMAIN Charge(health, n) = Nodes /\ Charge(health, n) = [m \in Nodes |-> Charge(health, n)[m]]
  BY DEF Charge, AllOK
<1> QED BY <1>3, <1>4 DEF AllOK, HealthOK

LEMMA UpdateOK ==
  ASSUME NEW h, HealthOK(h), NEW latency \in Nat
  PROVE  /\ HealthOK(UpdateHealth(h, latency))
         /\ UpdateHealth(h, latency).average >= 1
         /\ ~UpdateHealth(h, latency).healthy => UpdateHealth(h, latency).failures >= 1
<1>1. CASE latency = 0 BY <1>1, FailureOK DEF UpdateHealth
<1>2. CASE latency # 0
  <2>1. HealthOK(Success(h, latency)) BY <1>2, SuccessOK
  <2>2. Success(h, latency).ever /\ Success(h, latency).healthy BY DEF Success
  <2> QED BY <1>2, <2>1, <2>2 DEF UpdateHealth, HealthOK
<1> QED BY <1>1, <1>2

(* The node in use, when it works, passes; whoever failed shows it.        *)
LEMMA ProbedOK ==
  ASSUME NEW s, StateOK(s), NEW candidates \in SUBSET Nodes, link \in [Nodes -> Links]
  PROVE  /\ AllOK(Probed(s, candidates))
         /\ \A n \in candidates :
              /\ Probed(s, candidates)[n].average >= 1
              /\ ~Probed(s, candidates)[n].healthy => Probed(s, candidates)[n].failures >= 1
         /\ CurrentNode(s) \in candidates /\ Works(CurrentNode(s)) =>
              Probed(s, candidates)[CurrentNode(s)]
                = Success(s.health[CurrentNode(s)], link[CurrentNode(s)].latency)
<1> DEFINE current == CurrentNode(s)
           fair    == IF current # None /\ current \notin candidates
                      THEN Charge(s.health, current) ELSE s.health
           probed  == [n \in Nodes |-> IF n \in candidates
                                       THEN UpdateHealth(fair[n], link[n].latency) ELSE fair[n]]
           charged == Charge(probed, current)
<1>1. \A n \in Nodes : link[n].latency \in Nat BY AutoAssumption
<1>2. AllOK(s.health) BY DEF StateOK
<1>3. AllOK(fair) BY <1>2, ChargeOK
<1>4. \A n \in Nodes : HealthOK(fair[n]) BY <1>3 DEF AllOK
<1> HIDE DEF fair
<1>5. \A n \in Nodes : HealthOK(probed[n]) BY <1>1, <1>4, UpdateOK
<1>6. AllOK(probed) BY <1>5 DEF AllOK, HealthOK
<1>7. \A n \in candidates : probed[n].average >= 1 /\ (~probed[n].healthy => probed[n].failures >= 1)
  BY <1>1, <1>4, UpdateOK
<1>8. AllOK(charged) BY <1>6, ChargeOK
<1>9. \A n \in candidates : /\ charged[n].average >= 1
                            /\ ~charged[n].healthy => charged[n].failures >= 1
  <2> TAKE n \in candidates
  <2>1. charged[n] = IF n = current THEN ForceHealthFailure(probed[n]) ELSE probed[n]
    BY DEF Charge
  <2>2. /\ ForceHealthFailure(probed[n]).average = probed[n].average
        /\ ForceHealthFailure(probed[n]).failures >= 1
    BY <1>5, ForceHealthFailureOK
  <2> HIDE DEF probed, charged
  <2> QED BY <1>7, <2>1, <2>2
<1>10. Probed(s, candidates) =
         IF candidates = {} THEN s.health
         ELSE IF s.connected /\ current # None /\ probed[current].healthy /\ ~Works(current)
         THEN charged ELSE probed
  BY DEF Probed, fair
<1>11. current \in candidates /\ Works(current) =>
         Probed(s, candidates)[current] = Success(s.health[current], link[current].latency)
  <2> SUFFICES ASSUME current \in candidates, Works(current)
               PROVE  Probed(s, candidates)[current] = Success(s.health[current], link[current].latency)
    OBVIOUS
  <2>1. Probed(s, candidates) = probed BY <1>10
  <2>2. fair = s.health BY DEF fair
  <2>3. link[current].latency > 0 BY DEF Works
  <2>4. probed[current] = UpdateHealth(s.health[current], link[current].latency) BY <2>2
  <2> HIDE DEF probed, current
  <2>5. current \in Nodes OBVIOUS
  <2> QED BY <1>1, <2>1, <2>3, <2>4, <2>5 DEF UpdateHealth
<1> HIDE DEF probed, charged
<1>12. AllOK(Probed(s, candidates)) BY <1>2, <1>6, <1>8, <1>10
<1>13. \A n \in candidates : /\ Probed(s, candidates)[n].average >= 1
                             /\ ~Probed(s, candidates)[n].healthy => Probed(s, candidates)[n].failures >= 1
  BY <1>7, <1>9, <1>10
<1> QED BY <1>11, <1>12, <1>13

LEMMA DecisionOK ==
  ASSUME NEW s, NEW candidates \in SUBSET Nodes, NEW health, AllOK(health)
  PROVE  LET d == Decision(s, candidates, health)
         IN  /\ d.health = health
             /\ d.best \in candidates \cup {None}
             /\ d.best # None => health[d.best].healthy
             /\ d.selected # None => d.best # None
             /\ d.selected # d.best =>
                  d.selected = CurrentNode(s) /\ s.connected /\ CurrentNode(s) # None
             /\ s.connected /\ CurrentNode(s) # None /\ d.best # None /\ d.selected # CurrentNode(s) =>
                  ShouldSwitch(health[CurrentNode(s)], health[d.best], s.switchAge)
<1> DEFINE first   == SelectBestNode(candidates, health)
           best    == IF candidates = {} THEN None
                      ELSE IF health[first].healthy THEN first ELSE None
           current == CurrentNode(s)
           stay    == /\ s.connected /\ current # None
                      /\ ~ShouldSwitch(health[current], health[best], s.switchAge)
<1>1. candidates # {} => first \in candidates BY BestNodeIsFirst DEF AllOK
<1> HIDE DEF first
<1>2. best \in candidates \cup {None} /\ (best # None => health[best].healthy) BY <1>1
<1>3. Decision(s, candidates, health) =
        [health |-> health, best |-> best,
         selected |-> IF best # None /\ stay THEN current ELSE best]
  BY DEF Decision, first
<1> HIDE DEF best, current
<1> QED BY <1>2, <1>3 DEF current

-----------------------------------------------------------------------------
(* What becomes of the state.                                              *)
LEMMA DirectOK ==
  ASSUME NEW s, StateOK(s)
  PROVE  StateOK(Direct(s))
<1> DEFINE age == IF s.transport = "direct" THEN s.transportAge ELSE 0
<1>1. age \in 0..Cooldown BY Numbers DEF StateOK, StateType
<1>2. Direct(s) = [s EXCEPT !.connected = FALSE, !.transport = "direct", !.failed = TRUE,
                           !.transportAge = age]
  BY DEF Direct
<1> HIDE DEF age
<1>3. s \in StateType BY DEF StateOK
<1>4. Direct(s) \in StateType BY <1>1, <1>2, <1>3 DEF StateType, Transports
<1>5. /\ Direct(s).connected = FALSE /\ Direct(s).transport = "direct"
      /\ Direct(s).health = s.health
  BY <1>2, <1>3 DEF StateType
<1> QED BY <1>4, <1>5 DEF StateOK

LEMMA NewHealthOK ==
  ASSUME NEW s, StateOK(s), NEW health, AllOK(health)
  PROVE  StateOK([s EXCEPT !.health = health])
  BY DEF StateOK, StateType, AllOK

LEMMA FailingOK ==
  ASSUME NEW s, StateOK(s), NEW failed \in BOOLEAN
  PROVE  StateOK([s EXCEPT !.failed = failed])
  BY DEF StateOK, StateType

LEMMA HealthLeftOK ==
  ASSUME StateOK(disk), NEW known, AllOK(known), NEW n, NEW h \in HealthLeft(known, n)
  PROVE  AllOK(h)
<1>1. AllOK(disk.health) /\ AllOK(Charge(known, n)) BY ChargeOK DEF StateOK
<1>2. h = disk.health \/ h = Charge(known, n) BY DEF HealthLeft
<1> QED BY <1>1, <1>2

LEMMA AttemptsOK ==
  ASSUME StateOK(disk), NEW s, StateOK(s), NEW d, AllOK(d.health), d.selected \in Nodes,
         NEW known, AllOK(known), NEW t \in Attempts(s, d, known)
  PROVE  StateOK(t)
<1>1. CASE applying = "up"
  <2> DEFINE age  == IF d.selected = CurrentNode(s) THEN s.switchAge ELSE 0
             tage == IF s.transport = "proxy" THEN s.transportAge ELSE 0
             c    == [s EXCEPT !.node = d.selected, !.connected = TRUE, !.transport = "proxy",
                               !.failed = FALSE, !.health = d.health,
                               !.switchAge = age, !.transportAge = tage]
  <2>1. s \in StateType BY DEF StateOK
  <2>2. age \in 0..Cooldown /\ tage \in 0..Cooldown BY <2>1, Numbers DEF StateType
  <2>3. t = c BY <1>1 DEF Attempts, Connected
  <2> HIDE DEF age, tage
  <2>4. d.health \in [Nodes -> Health] BY DEF AllOK
  <2>5. c \in StateType BY <2>1, <2>2, <2>4 DEF StateType, Transports
  <2>6. c.connected = TRUE /\ c.transport = "proxy" /\ c.health = d.health /\ c.node = d.selected
    BY <2>1 DEF StateType
  <2> QED BY <2>3, <2>5, <2>6 DEF StateOK
<1>2. CASE applying = "unready" /\ Restorable(s)
  <2> DEFINE charged == Charge(s.health, d.selected)
  <2>1. AllOK(charged) BY ChargeOK DEF StateOK
  <2>2. t = [s EXCEPT !.failed = TRUE, !.health = charged]
    BY <1>2 DEF Attempts, RolledBack
  <2> HIDE DEF charged
  <2> QED BY <2>1, <2>2 DEF StateOK, StateType, AllOK
<1>3. CASE applying # "up" /\ ~(applying = "unready" /\ Restorable(s))
  <2>1. PICK h \in HealthLeft(known, d.selected) :
          t = Direct([s EXCEPT !.node = d.selected, !.health = h])
    BY <1>3 DEF Attempts
  <2> DEFINE u == [s EXCEPT !.node = d.selected, !.health = h]
  <2>2. AllOK(h) BY HealthLeftOK
  <2>3. StateOK(u) BY <2>2 DEF StateOK, StateType, AllOK
  <2> HIDE DEF u
  <2> QED BY <2>1, <2>3, DirectOK DEF u
<1> QED BY <1>1, <1>2, <1>3

(* An attempt leaves a connection through the node that was to be used, or *)
(* the one there was, or none.                                             *)
LEMMA AttemptLeaves ==
  ASSUME StateOK(disk), NEW s, s \in StateType, NEW d, NEW known, NEW t \in Attempts(s, d, known)
  PROVE  \/ /\ t.connected /\ t.transport = "proxy" /\ t.node = d.selected
            /\ t.health = d.health
         \/ /\ t = RolledBack(s, d) /\ Restorable(s) /\ Key(t) = Key(s)
            /\ t.transportAge = s.transportAge
            /\ t.health = Charge(s.health, d.selected)
         \/ /\ ~t.connected /\ t.transport = "direct" /\ t.node = d.selected
            /\ applying \notin {"up", "unprepared"} /\ (applying = "unready" => ~Restorable(s))
         \/ applying = "unprepared"
<1>1. CASE applying = "up" BY <1>1 DEF Attempts, Connected, StateType
<1>2. CASE applying = "unready" /\ Restorable(s)
  BY <1>2 DEF Attempts, RolledBack, Key, StateType
<1>3. CASE applying # "up" /\ ~(applying = "unready" /\ Restorable(s))
  <2>1. PICK h \in HealthLeft(known, d.selected) :
          t = Direct([s EXCEPT !.node = d.selected, !.health = h])
    BY <1>3 DEF Attempts
  <2> DEFINE u == [s EXCEPT !.node = d.selected, !.health = h]
  <2>2. DOMAIN u = DOMAIN s /\ u.node = d.selected BY DEF StateType
  <2>3. t = Direct(u) BY <2>1
  <2> HIDE DEF u
  <2>4. ~t.connected /\ t.transport = "direct" /\ t.node = d.selected
    BY <2>2, <2>3 DEF Direct, StateType
  <2> QED BY <1>3, <2>4
<1> QED BY <1>1, <1>2, <1>3

LEMMA FellBackOK ==
  ASSUME NEW s, StateOK(s), NEW works
  PROVE  StateOK(FellBack(s, works))
<1>1. CASE works
  <2> DEFINE age == IF s.transport = "zapret" THEN s.transportAge ELSE 0
             t   == [s EXCEPT !.transport = "zapret", !.connected = TRUE, !.failed = TRUE,
                              !.transportAge = age]
  <2>1. s \in StateType BY DEF StateOK
  <2>2. age \in 0..Cooldown BY <2>1, Numbers DEF StateType
  <2>3. FellBack(s, works) = t BY <1>1 DEF FellBack
  <2> HIDE DEF age
  <2>4. t \in StateType BY <2>1, <2>2 DEF StateType, Transports
  <2>5. t.connected = TRUE /\ t.transport = "zapret" /\ t.health = s.health
    BY <2>1 DEF StateType
  <2> QED BY <2>3, <2>4, <2>5 DEF StateOK
<1>2. CASE ~works BY <1>2, DirectOK DEF FellBack
<1> QED BY <1>1, <1>2

LEMMA GaveUpOK ==
  ASSUME NEW s, StateOK(s), NEW d, AllOK(d.health)
  PROVE  StateOK(GaveUp(s, d))
<1> DEFINE t == IF s.connected THEN Direct(s) ELSE [s EXCEPT !.failed = TRUE]
<1>1. StateOK(t) BY DirectOK, FailingOK
<1>2. GaveUp(s, d) = [t EXCEPT !.health = d.health] BY DEF GaveUp
<1> HIDE DEF t
<1> QED BY <1>1, <1>2, NewHealthOK

(* The daemon's memory.                                                    *)
CacheOK ==
  \/ cache = Forgotten
  \/ /\ cache \in [health : [Nodes -> Health], age : 0..PersistInterval]
     /\ AllOK(cache.health)

LEMMA AgedOK ==
  ASSUME StateOK(disk), CacheOK
  PROVE  /\ StateOK(Aged(disk)) /\ StateOK(Merged(Aged(disk)))
         /\ Merged(Aged(disk)).health = Merged(disk).health
         /\ Key(Merged(Aged(disk))) = Key(disk)
         /\ Merged(Aged(disk)).switchAge = AtMost(disk.switchAge + 1, Cooldown)
<1>1. StateOK(Aged(disk)) /\ Aged(disk).health = disk.health /\ Key(Aged(disk)) = Key(disk)
      /\ Aged(disk).switchAge = AtMost(disk.switchAge + 1, Cooldown)
  <2> DEFINE age  == AtMost(disk.switchAge + 1, Cooldown)
             tage == AtMost(disk.transportAge + 1, Cooldown)
  <2>1. disk \in StateType BY DEF StateOK
  <2>2. age \in 0..Cooldown /\ tage \in 0..Cooldown BY <2>1, Numbers DEF StateType, AtMost
  <2>3. Aged(disk) = [disk EXCEPT !.switchAge = age, !.transportAge = tage] BY DEF Aged
  <2> HIDE DEF age, tage
  <2>4. Aged(disk) \in StateType BY <2>1, <2>2, <2>3 DEF StateType
  <2>5. /\ Aged(disk).switchAge = age /\ Aged(disk).health = disk.health
        /\ Aged(disk).node = disk.node /\ Aged(disk).connected = disk.connected
        /\ Aged(disk).transport = disk.transport
    BY <2>1, <2>3 DEF StateType
  <2> QED BY <2>4, <2>5 DEF StateOK, Key, age
<1>2. CASE cache = Forgotten BY <1>1, <1>2 DEF Merged
<1>3. CASE cache # Forgotten
  <2>1. /\ Merged(Aged(disk)) = [Aged(disk) EXCEPT !.health = cache.health]
        /\ Merged(disk) = [disk EXCEPT !.health = cache.health]
        /\ AllOK(cache.health)
    BY <1>3 DEF Merged, CacheOK
  <2>2. StateOK(Merged(Aged(disk))) BY <1>1, <2>1, NewHealthOK
  <2> QED BY <1>1, <2>1, <2>2 DEF Key, StateOK, StateType
<1> QED BY <1>2, <1>3

LEMMA SaveStateOK ==
  ASSUME NEW s, StateOK(s), SaveState(s)
  PROVE  StateOK(disk)' /\ CacheOK'
<1>1. disk' = s /\ cache' = [health |-> s.health, age |-> 0] BY DEF SaveState
<1>2. 0 \in 0..PersistInterval BY AutoAssumption
<1> QED BY <1>1, <1>2 DEF StateOK, CacheOK, AllOK, StateType

LEMMA CommitOK ==
  ASSUME StateOK(disk), CacheOK, NEW s, StateOK(s), NEW d, AllOK(d.health),
         d.selected \in Nodes, NEW known, AllOK(known), CommitAutoSelection(s, d, known)
  PROVE  StateOK(disk)' /\ CacheOK'
<1>1. CASE applying = "unprepared"
  <2>1. disk' = Aged(disk) BY <1>1 DEF CommitAutoSelection
  <2>2. StateOK(disk') BY <2>1, AgedOK
  <2>3. CASE cache = Forgotten
    <3>1. cache' = Forgotten BY <1>1, <2>3 DEF CommitAutoSelection
    <3> QED BY <2>2, <3>1 DEF CacheOK, StateOK, Forgotten
  <2>4. CASE cache # Forgotten
    <3> DEFINE age == AtMost(cache.age + 1, PersistInterval)
    <3>1. cache' = [cache EXCEPT !.age = age] BY <1>1, <2>4 DEF CommitAutoSelection
    <3>2. cache \in [health : [Nodes -> Health], age : 0..PersistInterval] /\ AllOK(cache.health)
      BY <2>4 DEF CacheOK
    <3>3. age \in 0..PersistInterval BY <3>2, AutoAssumption DEF AtMost
    <3> HIDE DEF age
    <3>4. /\ cache' \in [health : [Nodes -> Health], age : 0..PersistInterval]
          /\ cache'.health = cache.health
      BY <3>1, <3>2, <3>3
    <3>5. AllOK(cache'.health) BY <3>2, <3>4
    <3> QED BY <2>2, <3>4, <3>5 DEF CacheOK, StateOK, AllOK
  <2> QED BY <2>3, <2>4
<1>2. CASE applying # "unprepared"
  <2>1. PICK t \in Attempts(s, d, known) : SaveState(t) BY <1>2 DEF CommitAutoSelection
  <2> QED BY <2>1, AttemptsOK, SaveStateOK
<1> QED BY <1>1, <1>2

LEMMA PersistOrRememberOK ==
  ASSUME StateOK(disk), CacheOK, NEW s, StateOK(s), PersistOrRemember(s)
  PROVE  StateOK(disk)' /\ CacheOK'
<1>1. CASE SaveState(s) BY <1>1, SaveStateOK
<1>2. CASE ~SaveState(s)
  <2>1. /\ cache # Forgotten /\ ~(cache.age + 1 >= PersistInterval)
        /\ disk' = Aged(disk) /\ cache' = [health |-> s.health, age |-> cache.age + 1]
    BY <1>2 DEF PersistOrRemember
  <2>2. cache.age \in 0..PersistInterval BY <2>1 DEF CacheOK
  <2>3. cache.age + 1 \in 0..PersistInterval BY <2>1, <2>2, AutoAssumption
  <2>4. StateOK(disk') BY <2>1, AgedOK
  <2>5. cache'.health = s.health /\ cache'.age = cache.age + 1 BY <2>1
  <2>6. AllOK(cache'.health) /\ s.health \in [Nodes -> Health] BY <2>5 DEF StateOK, AllOK
  <2>7. cache' \in [health : [Nodes -> Health], age : 0..PersistInterval] BY <2>1, <2>3, <2>6
  <2> QED BY <2>3, <2>4, <2>5, <2>6, <2>7 DEF CacheOK
<1> QED BY <1>1, <1>2

LEMMA SavedElsewhereOK ==
  ASSUME CacheOK, NEW s, StateOK(s), SavedElsewhere(s)
  PROVE  StateOK(disk)' /\ CacheOK'
<1>1. disk' = s /\ (cache' = cache \/ cache' = Forgotten) BY DEF SavedElsewhere
<1>2. CASE cache' = cache BY <1>1, <1>2 DEF CacheOK, StateOK
<1>3. CASE cache' = Forgotten BY <1>1, <1>3 DEF CacheOK, StateOK, Forgotten
<1> QED BY <1>1, <1>2, <1>3

-----------------------------------------------------------------------------
(* The invariant: types, with what holds of every stored and remembered    *)
(* health, and of the connection on record.                                *)
Others ==
  /\ fallback \in BOOLEAN /\ applying \in Outcomes
  /\ link \in [Nodes -> Links] /\ excluded \subseteq Nodes
  /\ run \in [Nodes -> 0..FailbackThreshold] /\ events \in 0..MaxEvents

Inv == StateOK(disk) /\ CacheOK /\ Others

LEMMA InvInit == Init => Inv
<1> SUFFICES ASSUME Init PROVE Inv OBVIOUS
<1>1. HealthOK(Unprobed) /\ Unprobed \in Health BY UnprobedOK DEF HealthOK
<1> DEFINE none == [n \in Nodes |-> Unprobed]
<1>2. AllOK(none) BY <1>1 DEF AllOK
<1>3. Cooldown \in 0..Cooldown BY Numbers
<1>4. disk = [node |-> None, connected |-> FALSE, transport |-> "direct", failed |-> TRUE,
              health |-> none, switchAge |-> Cooldown, transportAge |-> Cooldown]
  BY DEF Init
<1> HIDE DEF none
<1>5. StateOK(disk) BY <1>2, <1>3, <1>4 DEF StateOK, StateType, Transports, AllOK
<1>6. CacheOK /\ Others BY AutoAssumption DEF Init, CacheOK, Others, Outcomes
<1> QED BY <1>5, <1>6 DEF Inv

(* What a check has to decide on.                                          *)
LEMMA CheckOK ==
  ASSUME Inv, NEW candidates \in SUBSET Nodes, NEW s, StateOK(s)
  PROVE  LET d == Decision(s, candidates, Probed(s, candidates))
         IN  /\ AllOK(d.health) /\ d.best \in Nodes \cup {None}
             /\ d.selected # None => d.selected \in Nodes /\ d.best # None
             /\ CurrentNode(s) = None => d.selected = d.best
<1> DEFINE health == Probed(s, candidates)
           d      == Decision(s, candidates, health)
<1>1. AllOK(health) BY ProbedOK DEF Inv, Others
<1>2. CurrentNode(s) \in Nodes \cup {None} BY DEF StateOK, CurrentNode
<1> HIDE DEF health
<1>3. /\ d.health = health /\ d.best \in candidates \cup {None}
      /\ d.selected # None => d.best # None
      /\ d.selected # d.best => d.selected = CurrentNode(s) /\ CurrentNode(s) # None
  BY <1>1, DecisionOK
<1> HIDE DEF d
<1> QED BY <1>1, <1>2, <1>3 DEF d, health

(* What a health check makes of the state it starts from.                  *)
CheckResult(s, d) ==
  IF s.transport = "zapret"
  THEN LET z == [s EXCEPT !.connected = TRUE, !.failed = TRUE, !.health = d.health]
       IN  IF CanFailbackFromZapret(z, d) THEN CommitAutoSelection(z, d, s.health)
           ELSE PersistOrRemember(z) /\ run' = Counted
  ELSE IF d.selected = None
  THEN /\ run' = Counted
       /\ IF fallback THEN \E works \in ZapretOutcomes : SaveState(FellBack(s, works))
          ELSE SaveState(GaveUp(s, d))
  ELSE IF s.connected /\ d.selected = CurrentNode(s)
  THEN PersistOrRemember([s EXCEPT !.health = d.health, !.failed = FALSE]) /\ run' = Counted
  ELSE CommitAutoSelection(s, d, s.health)

LEMMA CheckIsResult ==
  ASSUME RunAutoHealthCheck
  PROVE  LET s == Merged(Aged(disk))
             candidates == Nodes \ excluded
         IN  CheckResult(s, Decision(s, candidates, Probed(s, candidates)))
  BY DEF RunAutoHealthCheck, CheckResult

LEMMA CheckCounts == RunAutoHealthCheck => run' = Counted \/ run' = run
  BY DEF RunAutoHealthCheck, CommitAutoSelection

LEMMA RunAutoHealthCheckOK ==
  ASSUME Inv, RunAutoHealthCheck
  PROVE  StateOK(disk)' /\ CacheOK'
<1> DEFINE s == Merged(Aged(disk))
           candidates == Nodes \ excluded
           d == Decision(s, candidates, Probed(s, candidates))
           z == [s EXCEPT !.connected = TRUE, !.failed = TRUE, !.health = d.health]
           k == [s EXCEPT !.health = d.health, !.failed = FALSE]
<1>1. StateOK(disk) /\ CacheOK BY DEF Inv
<1>2. StateOK(s) BY <1>1, AgedOK
<1>3. CheckResult(s, d) BY CheckIsResult
<1> HIDE DEF s
<1>4. /\ AllOK(d.health) /\ d.best \in Nodes \cup {None}
      /\ d.selected # None => d.selected \in Nodes
      /\ CurrentNode(s) = None => d.selected = d.best
  BY <1>2, CheckOK
<1> HIDE DEF d
<1>5. CASE s.transport = "zapret"
  <2>1. StateOK(z) BY <1>2, <1>4, <1>5 DEF StateOK, StateType, AllOK
  <2>2. CASE CanFailbackFromZapret(z, d)
    <3>1. d.selected \in Nodes BY <1>4, <1>5, <2>2 DEF CanFailbackFromZapret, CurrentNode
    <3>2. CommitAutoSelection(z, d, s.health) BY <1>3, <1>5, <2>2 DEF CheckResult
    <3> HIDE DEF z
    <3> QED BY <1>1, <1>2, <1>4, <2>1, <3>1, <3>2, CommitOK DEF StateOK
  <2>3. CASE ~CanFailbackFromZapret(z, d)
    <3>1. PersistOrRemember(z) BY <1>3, <1>5, <2>3 DEF CheckResult
    <3> HIDE DEF z
    <3> QED BY <1>1, <2>1, <3>1, PersistOrRememberOK
  <2> QED BY <2>2, <2>3
<1>6. CASE s.transport # "zapret" /\ d.selected = None
  <2>1. \/ \E works \in ZapretOutcomes : SaveState(FellBack(s, works))
        \/ SaveState(GaveUp(s, d))
    BY <1>3, <1>6 DEF CheckResult
  <2> QED BY <1>2, <1>4, <2>1, FellBackOK, GaveUpOK, SaveStateOK
<1>7. CASE s.transport # "zapret" /\ d.selected # None /\ s.connected /\ d.selected = CurrentNode(s)
  <2>1. StateOK(k) BY <1>2, <1>4 DEF StateOK, StateType, AllOK
  <2>2. PersistOrRemember(k) BY <1>3, <1>7 DEF CheckResult
  <2> HIDE DEF k
  <2> QED BY <1>1, <2>1, <2>2, PersistOrRememberOK
<1>8. CASE s.transport # "zapret" /\ d.selected # None /\ ~(s.connected /\ d.selected = CurrentNode(s))
  <2>1. CommitAutoSelection(s, d, s.health) BY <1>3, <1>8 DEF CheckResult
  <2> QED BY <1>1, <1>2, <1>4, <1>8, <2>1, CommitOK DEF StateOK
<1> QED BY <1>5, <1>6, <1>7, <1>8

LEMMA RestoredOK ==
  ASSUME StateOK(disk), NEW t \in RestoredStates
  PROVE  StateOK(t) /\ t.transport \in {disk.transport, "direct"}
<1>1. CASE applying = "up"
  <2>1. t = [disk EXCEPT !.failed = FALSE] BY <1>1 DEF RestoredStates
  <2> QED BY <2>1, FailingOK DEF StateOK, StateType
<1>2. CASE applying # "up"
  <2>1. PICK h \in HealthLeft(disk.health, disk.node) : t = Direct([disk EXCEPT !.health = h])
    BY <1>2 DEF RestoredStates
  <2>2. AllOK(h) BY HealthLeftOK DEF StateOK
  <2> DEFINE u == [disk EXCEPT !.health = h]
  <2>3. StateOK(u) BY <2>2, NewHealthOK
  <2>4. t = Direct(u) BY <2>1
  <2> HIDE DEF u
  <2>5. Direct(u).transport = "direct" BY <2>3 DEF Direct, StateOK, StateType
  <2> QED BY <2>3, <2>4, <2>5, DirectOK
<1> QED BY <1>1, <1>2

LEMMA RestartDaemonOK ==
  ASSUME Inv, RestartDaemon
  PROVE  StateOK(disk)' /\ CacheOK'
<1>1. StateOK(disk) /\ CacheOK BY DEF Inv
<1>2. CASE ~disk.connected /\ cache' = Forgotten /\ UNCHANGED disk
  BY <1>1, <1>2 DEF CacheOK, StateOK, Forgotten
<1>3. CASE \E works \in ZapretOutcomes : SaveState(FellBack(disk, works))
  BY <1>1, <1>3, FellBackOK, SaveStateOK
<1>4. ASSUME NEW t \in RestoredStates, SaveState(t) PROVE StateOK(disk)' /\ CacheOK'
  BY <1>1, <1>4, RestoredOK, SaveStateOK
<1> QED BY <1>2, <1>3, <1>4 DEF RestartDaemon

(* What connecting to the best node makes of the stored state.             *)
ConnectResult(d) ==
  LET s == [disk EXCEPT !.health = d.health, !.failed = TRUE]
  IN  IF d.selected # None
      THEN IF applying = "unprepared" THEN SavedElsewhere(disk)
           ELSE \E t \in Attempts(disk, d, disk.health) : SavedElsewhere(t)
      ELSE IF fallback
      THEN \E works \in ZapretOutcomes : SavedElsewhere(FellBack(s, works))
      ELSE SavedElsewhere(s)

LEMMA ConnectAutoOK ==
  ASSUME Inv, NEW candidates \in SUBSET Nodes, ConnectAuto(candidates)
  PROVE  StateOK(disk)' /\ CacheOK'
<1> DEFINE d == Decision(disk, candidates, Probed(disk, candidates))
           s == [disk EXCEPT !.health = d.health, !.failed = TRUE]
<1>1. StateOK(disk) /\ CacheOK BY DEF Inv
<1>2. AllOK(d.health) /\ (d.selected # None => d.selected \in Nodes) BY <1>1, CheckOK
<1>3. ConnectResult(d) BY DEF ConnectAuto, ConnectResult
<1> HIDE DEF d
<1>4. StateOK(s) BY <1>1, <1>2 DEF StateOK, StateType, AllOK
<1>5. \/ SavedElsewhere(disk)
      \/ /\ d.selected # None /\ applying # "unprepared"
         /\ \E t \in Attempts(disk, d, disk.health) : SavedElsewhere(t)
      \/ \E works \in ZapretOutcomes : SavedElsewhere(FellBack(s, works))
      \/ SavedElsewhere(s)
  BY <1>3 DEF ConnectResult
<1> HIDE DEF s
<1>6. AllOK(disk.health) BY <1>1 DEF StateOK
<1> QED BY <1>1, <1>2, <1>4, <1>5, <1>6, AttemptsOK, FellBackOK, SavedElsewhereOK

LEMMA InvNext == Inv /\ [Next]_vars => Inv'
<1> SUFFICES ASSUME Inv, [Next]_vars PROVE Inv'
  OBVIOUS
<1>1. StateOK(disk) /\ CacheOK /\ Others BY DEF Inv
<1>2. ASSUME UNCHANGED <<disk, cache>> PROVE StateOK(disk)' /\ CacheOK'
  BY <1>1, <1>2 DEF StateOK, CacheOK
<1>3. ASSUME NEW kind, Event(kind) PROVE events' \in 0..MaxEvents
  BY <1>1, <1>3, AutoAssumption DEF Others, Event
<1>4. FailbackThreshold \in Nat /\ FailbackThreshold >= 1 BY AutoAssumption, Numbers
<1>5. ASSUME NEW health, AllOK(health), NEW nodes, run' = Recalled(health, nodes)
      PROVE  run' \in [Nodes -> 0..FailbackThreshold]
  <2>1. \A n \in Nodes : health[n].successes \in Nat /\ run[n] \in 0..FailbackThreshold
    BY <1>1, <1>5 DEF AllOK, HealthOK, Health, Others
  <2> QED BY <1>4, <1>5, <2>1, Numbers DEF Recalled, AtMost
<1>6. CASE UNCHANGED vars BY <1>1, <1>2, <1>6 DEF vars, Others, Inv
<1>7. CASE RunAutoHealthCheck
  <2>1. run' \in [Nodes -> 0..FailbackThreshold]
    BY <1>1, <1>4, <1>7, CheckCounts DEF Counted, AtMost, Others
  <2>2. UNCHANGED <<fallback, link, applying, excluded, events>> BY <1>7 DEF RunAutoHealthCheck
  <2> QED BY <1>1, <1>7, <2>1, <2>2, RunAutoHealthCheckOK DEF Inv, Others
<1>8. CASE TouchRefreshAttempt
  BY <1>1, <1>3, <1>5, <1>8, SaveStateOK DEF TouchRefreshAttempt, Inv, Others, StateOK
<1>9. CASE RestartDaemon
  <2>1. /\ Event("restart") /\ run' = Recalled(disk.health, Nodes)
        /\ UNCHANGED <<fallback, link, applying, excluded>>
    BY <1>9 DEF RestartDaemon
  <2> QED BY <1>1, <1>3, <1>5, <1>9, <2>1, RestartDaemonOK DEF Inv, Others, StateOK
<1>10. ASSUME NEW ex \in SUBSET Nodes, SetExcludedNodes(ex) PROVE Inv'
  <2>1. /\ Event("user") /\ excluded' = ex /\ UNCHANGED <<fallback, link, applying>>
        /\ run' = Recalled(Merged(disk).health, excluded \ ex)
    BY <1>10 DEF SetExcludedNodes
  <2>2. StateOK(disk)' /\ CacheOK' BY <1>2, <1>10, ConnectAutoOK DEF SetExcludedNodes
  <2>3. AllOK(Merged(disk).health) BY <1>1, AgedOK DEF StateOK
  <2> QED BY <1>1, <1>3, <1>5, <2>1, <2>2, <2>3 DEF Inv, Others
<1>11. CASE UserConnectsAuto
  <2>1. Event("user") /\ UNCHANGED <<fallback, link, applying, excluded, run>>
    BY <1>11 DEF UserConnectsAuto
  <2>2. StateOK(disk)' /\ CacheOK' BY <1>11, ConnectAutoOK DEF UserConnectsAuto
  <2> QED BY <1>1, <1>3, <2>1, <2>2 DEF Inv, Others
<1>12. CASE NetworkChanges
  <2>1. /\ Event("network") /\ link' \in [Nodes -> Links]
        /\ UNCHANGED <<fallback, applying, excluded, disk, cache, run>>
    BY <1>12 DEF NetworkChanges
  <2> QED BY <1>1, <1>2, <1>3, <2>1 DEF Inv, Others
<1>13. CASE RouterChanges
  <2>1. /\ Event("router") /\ applying' \in Outcomes
        /\ UNCHANGED <<fallback, link, excluded, disk, cache, run>>
    BY <1>13 DEF RouterChanges
  <2> QED BY <1>1, <1>2, <1>3, <2>1 DEF Inv, Others
<1> QED BY <1>6, <1>7, <1>8, <1>9, <1>10, <1>11, <1>12, <1>13 DEF Next

LEMMA InvHolds == Spec => []Inv
  BY InvInit, InvNext, PTL DEF Spec

(* Every reachable state of auto mode has its type.                        *)
THEOREM TypeCorrect == Spec => []TypeOK
<1>1. Inv => TypeOK
  BY DEF Inv, StateOK, StateType, CacheOK, Others, TypeOK
<1> QED BY <1>1, InvHolds, PTL

-----------------------------------------------------------------------------
(* A node that is prompt keeps the ranking from putting one first that     *)
(* failed.                                                                 *)
LEMMA PromptHasBest ==
  ASSUME NEW s, NEW candidates \in SUBSET Nodes, NEW health, AllOK(health),
         \A m \in candidates : /\ health[m].average >= 1
                               /\ ~health[m].healthy => health[m].failures >= 1,
         NEW n \in candidates, CalculateScore(health[n]) >= -500 - 40 * FailureThreshold
  PROVE  Decision(s, candidates, health).best \in candidates
<1> DEFINE first == SelectBestNode(candidates, health)
<1>1. first \in candidates /\ CalculateScore(health[n]) <= CalculateScore(health[first])
  BY BestNodeIsFirst DEF AllOK
<1> HIDE DEF first
<1>2. HealthOK(health[first]) /\ health[first] \in Health /\ health[n] \in Health
  BY <1>1 DEF AllOK
<1>3. CalculateScore(health[n]) \in Int /\ CalculateScore(health[first]) \in Int
  BY <1>2, ScoreBounded
<1>4. CASE health[first].healthy BY <1>1, <1>4 DEF Decision, first
<1>5. CASE ~health[first].healthy
  <2>1. CalculateScore(health[first]) < -500 - 40 * FailureThreshold
    BY <1>1, <1>2, <1>5, UnhealthyScoresLow
  <2> QED BY <1>1, <1>3, <2>1, Numbers
<1> QED BY <1>4, <1>5

LEMMA WorkingNodeStep ==
  ASSUME Inv, RunAutoHealthCheck, Serving(disk), disk.node \notin excluded, CurrentIsPrompt,
         Key(disk') # Key(disk)
  PROVE  LET health == Probed(Merged(Aged(disk)), Nodes \ excluded)
         IN  /\ disk'.node \in Nodes \ (excluded \cup {disk.node})
             /\ disk.switchAge + 1 >= Cooldown
             /\ health[disk.node].average - health[disk'.node].average >= LatencyImprovement
             /\ \/ disk'.connected /\ disk'.transport = "proxy"
                \/ applying \in {"stuck", "broken"}
<1> DEFINE s == Merged(Aged(disk))
           candidates == Nodes \ excluded
           health == Probed(s, candidates)
           d == Decision(s, candidates, health)
           n == disk.node
           k == [s EXCEPT !.health = d.health, !.failed = FALSE]
<1>1. StateOK(disk) /\ CacheOK /\ link \in [Nodes -> Links] BY DEF Inv, Others
<1>2. CheckResult(s, d) BY CheckIsResult
<1>3. /\ StateOK(s) /\ s.health = Merged(disk).health /\ Key(s) = Key(disk)
      /\ s.switchAge = AtMost(disk.switchAge + 1, Cooldown)
  BY <1>1, AgedOK
<1> HIDE DEF s
<1>4. /\ s.node = n /\ s.connected /\ s.transport = "proxy" /\ Works(n)
      /\ disk.connected /\ disk.transport = "proxy" /\ n \in Nodes
  BY <1>1, <1>3 DEF Serving, Key, StateOK
<1>5. CurrentNode(s) = n /\ n \in candidates /\ n # None
  BY <1>4, RankAssumption DEF CurrentNode
<1>6. AllOK(health) /\ health[n] = Success(s.health[n], link[n].latency)
  BY <1>1, <1>3, <1>4, <1>5, ProbedOK
<1>7. \A m \in candidates : /\ health[m].average >= 1
                            /\ ~health[m].healthy => health[m].failures >= 1
  BY <1>1, <1>3, ProbedOK
<1>8. CalculateScore(health[n]) >= -500 - 40 * FailureThreshold
  BY <1>3, <1>6 DEF CurrentIsPrompt
<1>9. health[n].healthy /\ health[n].failures = 0 BY <1>6 DEF Success
<1> HIDE DEF health
<1>10. d.best \in candidates /\ d.best # None
  <2>1. n \in candidates /\ candidates \in SUBSET Nodes BY <1>5
  <2> HIDE DEF n, candidates
  <2>2. d.best \in candidates BY <1>6, <1>7, <1>8, <2>1, PromptHasBest
  <2>3. None \notin candidates BY RankAssumption DEF candidates
  <2> QED BY <2>2, <2>3
<1>11. /\ d.health = health
       /\ d.selected \in {n, d.best}
       /\ d.selected # n => ShouldSwitch(health[n], health[d.best], s.switchAge)
  BY <1>4, <1>5, <1>6, <1>10, DecisionOK
<1> HIDE DEF d
<1>12. s \in StateType /\ disk \in StateType BY <1>1, <1>3 DEF StateOK
<1>13. Key(Aged(disk)) = Key(disk) BY <1>12 DEF Aged, Key, StateType
<1>14. d.selected # n
  <2> SUFFICES ASSUME d.selected = n PROVE FALSE OBVIOUS
  <2>1. PersistOrRemember(k) BY <1>2, <1>4, <1>5 DEF CheckResult
  <2>2. disk' = k \/ disk' = Aged(disk) BY <2>1 DEF PersistOrRemember, SaveState
  <2>3. Key(k) = Key(s) BY <1>12 DEF Key, StateType
  <2> HIDE DEF k
  <2> QED BY <1>3, <1>13, <2>2, <2>3
<1>15. CommitAutoSelection(s, d, s.health)
  BY <1>2, <1>4, <1>5, <1>10, <1>11, <1>14 DEF CheckResult
<1>16. applying # "unprepared"
  <2>1. CASE applying = "unprepared"
    <3>1. disk' = Aged(disk) BY <1>15, <2>1 DEF CommitAutoSelection
    <3> QED BY <1>13, <3>1
  <2> QED BY <2>1
<1>17. PICK t \in Attempts(s, d, s.health) : disk' = t
  BY <1>15, <1>16 DEF CommitAutoSelection, SaveState
<1>18. Restorable(s) BY <1>4, <1>5 DEF Restorable
<1>19. /\ disk'.node = d.best
       /\ \/ disk'.connected /\ disk'.transport = "proxy"
          \/ applying \in {"stuck", "broken"}
  <2>1. applying \in Outcomes BY DEF Inv, Others
  <2>2. d.selected = d.best BY <1>11, <1>14
  <2> QED BY <1>1, <1>3, <1>12, <1>16, <1>17, <1>18, <2>1, <2>2, AttemptLeaves DEF Outcomes
<1>20. ShouldSwitch(health[n], health[d.best], s.switchAge) BY <1>11, <1>14
<1>21. /\ s.switchAge >= Cooldown
       /\ health[n].average - health[d.best].average >= LatencyImprovement
  BY <1>9, <1>20, Numbers DEF ShouldSwitch
<1>22. disk.switchAge + 1 >= Cooldown
  BY <1>3, <1>12, <1>21, Numbers DEF AtMost, StateType
<1>23. d.best # n BY <1>11, <1>14
<1> QED BY <1>10, <1>19, <1>21, <1>22, <1>23 DEF health, s

(* No health check takes a working, prompt node from the connection, but   *)
(* to try one that is faster by the threshold, after the cooldown; only    *)
(* where the router fails that attempt or its rollback is there no         *)
(* connection afterwards.                                                  *)
THEOREM WorkingNodeIsKept == Spec => WorkingNodeKept
<1>1. Inv /\ [Next]_vars =>
        [RunAutoHealthCheck /\ Serving(disk) /\ disk.node \notin excluded /\ CurrentIsPrompt
           /\ Key(disk') # Key(disk) =>
           LET health == Probed(Merged(Aged(disk)), Nodes \ excluded)
           IN  /\ disk'.node \in Nodes \ (excluded \cup {disk.node})
               /\ disk.switchAge + 1 >= Cooldown
               /\ health[disk.node].average - health[disk'.node].average >= LatencyImprovement
               /\ \/ disk'.connected /\ disk'.transport = "proxy"
                  \/ applying \in {"stuck", "broken"}]_vars
  BY WorkingNodeStep
<1> QED BY <1>1, InvHolds, PTL DEF Spec, WorkingNodeKept

LEMMA MoveStep ==
  ASSUME Inv, RunAutoHealthCheck, disk'.connected, disk'.transport = "proxy",
         Key(disk') # Key(disk)
  PROVE  /\ disk'.node \notin excluded
         /\ disk'.health[disk'.node].healthy
         /\ disk'.node # CurrentNode(disk)
<1> DEFINE s == Merged(Aged(disk))
           candidates == Nodes \ excluded
           health == Probed(s, candidates)
           d == Decision(s, candidates, health)
           z == [s EXCEPT !.connected = TRUE, !.failed = TRUE, !.health = d.health]
           k == [s EXCEPT !.health = d.health, !.failed = FALSE]
<1>1. StateOK(disk) /\ CacheOK /\ link \in [Nodes -> Links] BY DEF Inv, Others
<1>2. CheckResult(s, d) BY CheckIsResult
<1>3. StateOK(s) /\ Key(s) = Key(disk) BY <1>1, AgedOK
<1> HIDE DEF s
<1>4. s.node = disk.node /\ s.connected = disk.connected /\ s.transport = disk.transport
  BY <1>3 DEF Key
<1>5. CurrentNode(s) = CurrentNode(disk) BY <1>4 DEF CurrentNode
<1>6. AllOK(health) BY <1>1, <1>3, ProbedOK
<1> HIDE DEF health
<1>7. /\ d.health = health /\ d.best \in candidates \cup {None}
      /\ d.best # None => health[d.best].healthy
      /\ d.selected # None => d.best # None
      /\ d.selected # d.best =>
           d.selected = CurrentNode(s) /\ s.connected /\ CurrentNode(s) # None
  BY <1>6, DecisionOK
<1> HIDE DEF d
<1>8. s \in StateType /\ disk \in StateType /\ (s.connected <=> s.transport # "direct")
  BY <1>1, <1>3 DEF StateOK
<1>9. Key(Aged(disk)) = Key(disk) BY <1>8 DEF Aged, Key, StateType
<1>10. ASSUME PersistOrRemember(k) \/ (PersistOrRemember(z) /\ s.connected) PROVE FALSE
  <2>1. Key(k) = Key(s) /\ (s.connected => Key(z) = Key(s)) BY <1>8 DEF Key, StateType
  <2> HIDE DEF k, z
  <2> QED BY <1>3, <1>9, <1>10, <2>1 DEF PersistOrRemember, SaveState
(* A connection that is made anew is to the best node.                     *)
<1>11. ASSUME NEW t \in StateType, t.node = s.node, t.transport = s.transport,
              t.connected \/ ~s.connected, CommitAutoSelection(t, d, s.health),
              d.selected # None, d.selected = d.best /\ d.best # CurrentNode(s)
       PROVE  /\ disk'.node \notin excluded /\ disk'.health[disk'.node].healthy
              /\ disk'.node # CurrentNode(disk)
  <2>1. applying # "unprepared"
    <3>1. CASE applying = "unprepared"
      <4>1. disk' = Aged(disk) BY <1>11, <3>1 DEF CommitAutoSelection
      <4> QED BY <1>9, <4>1
    <3> QED BY <3>1
  <2>2. PICK u \in Attempts(t, d, s.health) : disk' = u
    BY <1>11, <2>1 DEF CommitAutoSelection, SaveState
  <2>3. CASE Restorable(t) /\ Key(disk') = Key(t)
    <3>1. disk'.connected = t.connected /\ disk'.transport = t.transport /\ disk'.node = t.node
      BY <2>3 DEF Key
    <3>2. s.connected BY <1>8, <1>11, <3>1
    <3> QED BY <1>3, <1>4, <1>8, <1>11, <2>3, <3>1, <3>2 DEF Key, StateType, Restorable
  <2>4. CASE disk'.node = d.selected /\ disk'.health = d.health BY <1>5, <1>7, <1>11, <2>4
  <2> QED BY <1>1, <1>11, <2>1, <2>2, <2>3, <2>4, AttemptLeaves
<1>12. CASE s.transport = "zapret"
  <2>1. s.connected /\ CurrentNode(s) = None BY <1>8, <1>12 DEF CurrentNode
  <2>2. ~PersistOrRemember(z) BY <1>10, <2>1
  <2>3. CanFailbackFromZapret(z, d) /\ CommitAutoSelection(z, d, s.health)
    BY <1>2, <1>12, <2>2 DEF CheckResult
  <2>4. /\ z \in StateType /\ z.node = s.node /\ z.transport = s.transport /\ z.connected
    BY <1>6, <1>7, <1>8 DEF StateType, AllOK
  <2>5. d.selected = d.best /\ d.best # None BY <1>7, <2>1, <2>3 DEF CanFailbackFromZapret
  <2> HIDE DEF z
  <2> QED BY <1>11, <2>1, <2>3, <2>4, <2>5
<1>13. CASE s.transport # "zapret" /\ d.selected = None
  <2>1. \/ \E works \in ZapretOutcomes : disk' = FellBack(s, works)
        \/ disk' = GaveUp(s, d)
    BY <1>2, <1>13 DEF CheckResult, SaveState
  <2>2. ~Direct(s).connected /\ Direct(s).transport = "direct" BY <1>8 DEF Direct, StateType
  <2>3. ASSUME NEW works, disk' = FellBack(s, works) PROVE FALSE
    <3>1. CASE works
      <4>1. disk'.transport = "zapret" BY <1>8, <2>3, <3>1 DEF FellBack, StateType
      <4> QED BY <4>1
    <3>2. CASE ~works BY <2>2, <2>3, <3>2 DEF FellBack
    <3> QED BY <3>1, <3>2
  <2>4. ASSUME disk' = GaveUp(s, d) PROVE FALSE
    <3>1. CASE s.connected
      <4>1. Direct(s) \in StateType BY <1>3, DirectOK DEF StateOK
      <4>2. disk' = [Direct(s) EXCEPT !.health = d.health] BY <2>4, <3>1 DEF GaveUp
      <4>3. disk'.transport = Direct(s).transport BY <4>1, <4>2 DEF StateType
      <4> QED BY <2>2, <4>3
    <3>2. CASE ~s.connected
      <4>1. disk'.connected = s.connected BY <1>8, <2>4, <3>2 DEF GaveUp, StateType
      <4> QED BY <3>2, <4>1
    <3> QED BY <3>1, <3>2
  <2> QED BY <2>1, <2>3, <2>4
<1>14. CASE s.transport # "zapret" /\ d.selected # None
  <2>1. CommitAutoSelection(s, d, s.health) /\ ~(s.connected /\ d.selected = CurrentNode(s))
    BY <1>2, <1>10, <1>14 DEF CheckResult
  <2>2. d.selected = d.best BY <1>7, <2>1
  <2>3. d.best # CurrentNode(s)
    BY <1>8, <1>14, <2>1, <2>2 DEF CurrentNode
  <2> QED BY <1>8, <1>11, <1>14, <2>1, <2>2, <2>3
<1> QED BY <1>12, <1>13, <1>14

(* A health check moves the connection only to a node it may use, that     *)
(* answered, and that it was not on before.                                *)
THEOREM MovesAreToCandidates == Spec => MovesToCandidates
<1>1. Inv /\ [Next]_vars =>
        [RunAutoHealthCheck /\ disk'.connected /\ disk'.transport = "proxy"
           /\ Key(disk') # Key(disk) =>
           /\ disk'.node \notin excluded
           /\ disk'.health[disk'.node].healthy
           /\ disk'.node # CurrentNode(disk)]_vars
  BY MoveStep
<1> QED BY <1>1, InvHolds, PTL DEF Spec, MovesToCandidates

-----------------------------------------------------------------------------
(* Failback.  With Zapret in use, whatever the daemon goes by counts no    *)
(* more successes of a node than its row has, but for those from before    *)
(* the fallback, which make a difference only until the row is as long as  *)
(* the fallback: a probe that fails ends both.                             *)
InUse == Merged(disk).health

RowCovers(n) ==
  \/ InUse[n].successes <= run[n]
  \/ AtMost(disk.transportAge, FailbackThreshold - 1) <= run[n]

(* The cooldown outlasts the row of healthy cycles that failback asks for, *)
(* and one success is not yet a row.                                       *)
CooldownCoversRow == Cooldown >= FailbackThreshold
RowsMatter == CooldownCoversRow /\ FailbackThreshold > 1

RowsOK ==
  RowsMatter /\ disk.transport = "zapret" =>
    /\ cache = Forgotten => disk.transportAge = 0
    /\ \A n \in Nodes \ excluded : RowCovers(n)

(* What is saved is what the daemon goes by next.                          *)
LEMMA SavedInUse ==
  ASSUME NEW s, StateOK(s), SaveState(s)
  PROVE  disk' = s /\ cache' # Forgotten /\ InUse' = s.health
<1>1. disk' = s /\ cache' = [health |-> s.health, age |-> 0] BY DEF SaveState
<1>2. cache'.age = 0 /\ Forgotten.age = PersistInterval + 1 /\ cache'.health = s.health
  BY <1>1 DEF Forgotten
<1>3. cache' # Forgotten BY <1>2, AutoAssumption
<1>4. s \in StateType BY DEF StateOK
<1>5. Merged(disk)' = [disk' EXCEPT !.health = cache'.health] BY <1>3 DEF Merged
<1>6. Merged(disk)'.health = s.health BY <1>1, <1>2, <1>4, <1>5 DEF StateType
<1> QED BY <1>1, <1>3, <1>6 DEF InUse

LEMMA RememberedInUse ==
  ASSUME Inv, NEW s, StateOK(s), PersistOrRemember(s)
  PROVE  disk' \in {s, Aged(disk)} /\ cache' # Forgotten /\ InUse' = s.health
<1>1. CASE SaveState(s) BY <1>1, SavedInUse
<1>2. CASE ~SaveState(s)
  <2>1. /\ cache # Forgotten /\ ~(cache.age + 1 >= PersistInterval)
        /\ disk' = Aged(disk) /\ cache' = [health |-> s.health, age |-> cache.age + 1]
    BY <1>2 DEF PersistOrRemember
  <2>2. cache.age \in 0..PersistInterval BY <2>1 DEF Inv, CacheOK
  <2>3. cache'.age = cache.age + 1 /\ Forgotten.age = PersistInterval + 1
        /\ cache'.health = s.health
    BY <2>1 DEF Forgotten
  <2>4. cache' # Forgotten BY <2>1, <2>2, <2>3, AutoAssumption
  <2>5. Aged(disk) \in StateType BY AgedOK DEF Inv, StateOK
  <2>6. Merged(disk)' = [disk' EXCEPT !.health = cache'.health] BY <2>4 DEF Merged
  <2>7. Merged(disk)'.health = s.health BY <2>1, <2>3, <2>5, <2>6 DEF StateType
  <2> QED BY <2>1, <2>4, <2>7 DEF InUse
<1> QED BY <1>1, <1>2

(* A fallback that begins is young; one that goes on is as old as it was.  *)
LEMMA FellBackAge ==
  ASSUME NEW s, StateOK(s), NEW works, FellBack(s, works).transport = "zapret"
  PROVE  /\ FellBack(s, works).health = s.health
         /\ FellBack(s, works).node = s.node /\ FellBack(s, works).connected
         /\ FellBack(s, works).transportAge
              = IF s.transport = "zapret" THEN s.transportAge ELSE 0
<1>1. s \in StateType BY DEF StateOK
<1>2. CASE works
  <2> DEFINE age == IF s.transport = "zapret" THEN s.transportAge ELSE 0
  <2>1. FellBack(s, works) = [s EXCEPT !.transport = "zapret", !.connected = TRUE,
                                       !.failed = TRUE, !.transportAge = age]
    BY <1>2 DEF FellBack
  <2> HIDE DEF age
  <2>2. FellBack(s, works).transportAge = age BY <1>1, <2>1 DEF StateType
  <2>3. /\ FellBack(s, works).health = s.health /\ FellBack(s, works).node = s.node
        /\ FellBack(s, works).connected
    BY <1>1, <2>1 DEF StateType
  <2> QED BY <2>2, <2>3 DEF age
<1>3. CASE ~works
  <2>1. Direct(s).transport = "direct" BY <1>1 DEF Direct, StateType
  <2> QED BY <1>3, <2>1 DEF FellBack
<1> QED BY <1>2, <1>3

(* A node that Xray does not come up with leaves the fallback as it is,    *)
(* and is charged with it.                                                 *)
LEMMA AttemptAge ==
  ASSUME StateOK(disk), NEW s, StateOK(s), NEW d, NEW known, applying # "unprepared",
         NEW t \in Attempts(s, d, known), t.transport = "zapret"
  PROVE  /\ s.transport = "zapret" /\ Key(t) = Key(s)
         /\ t.transportAge = s.transportAge
         /\ \A n \in Nodes : t.health[n].successes <= s.health[n].successes
<1>1. s \in StateType BY DEF StateOK
<1> DEFINE charged == Charge(s.health, d.selected)
<1>2. ASSUME NEW n \in Nodes PROVE charged[n].successes <= s.health[n].successes
  <2>1. charged[n] = s.health[n] \/ charged[n] = ForceHealthFailure(s.health[n])
    BY <1>1 DEF Charge, StateType
  <2>2. ForceHealthFailure(s.health[n]).successes = 0 BY DEF ForceHealthFailure, Failed
  <2>3. s.health[n].successes \in Nat BY <1>1, Numbers DEF StateType, Health
  <2> QED BY <2>1, <2>2, <2>3
<1>3. Key(t) = Key(s) /\ t.transportAge = s.transportAge /\ t.health = charged
  BY <1>1, AttemptLeaves
<1> HIDE DEF charged
<1> QED BY <1>2, <1>3 DEF Key

(* A probe adds to a node's successes what the check adds to its row, and  *)
(* ends both when it fails.                                                *)
LEMMA ProbeCounts ==
  ASSUME Inv, NEW s, StateOK(s), s.transport = "zapret", s.health = InUse,
         NEW n \in Nodes \ excluded, RowCovers(n)
  PROVE  LET h == Probed(s, Nodes \ excluded)[n]
         IN  /\ h.successes \in Nat
             /\ h.successes > 0 => /\ link[n].latency # 0
                                   /\ h.successes <= InUse[n].successes + 1
             /\ \/ h.successes <= Counted[n]
                \/ AtMost(AtMost(disk.transportAge + 1, Cooldown), FailbackThreshold - 1) <= Counted[n]
<1> DEFINE candidates == Nodes \ excluded
           h == Probed(s, candidates)[n]
<1>1. n \in Nodes /\ n \notin excluded /\ candidates # {} /\ CurrentNode(s) = None
  BY DEF CurrentNode
<1>2. h = UpdateHealth(InUse[n], link[n].latency) BY <1>1 DEF Probed
<1> HIDE DEF h
<1>3. /\ InUse[n].successes \in Nat /\ run[n] \in 0..FailbackThreshold
      /\ disk.transportAge \in 0..Cooldown
  BY <1>1, Numbers DEF Inv, StateOK, StateType, Others, AllOK, HealthOK, Health
<1>4. FailbackThreshold \in Nat /\ FailbackThreshold >= 1 BY AutoAssumption, Numbers
<1>5. CASE link[n].latency = 0
  <2>1. h.successes = 0 BY <1>2, <1>5 DEF UpdateHealth, Failure, Failed
  <2>2. Counted[n] = 0 BY <1>1, <1>5 DEF Counted
  <2> QED BY <2>1, <2>2 DEF h
<1>6. CASE link[n].latency # 0
  <2>1. h.successes = AtMost(InUse[n].successes + 1, MaxSuccessStreak)
    BY <1>2, <1>6 DEF UpdateHealth, Success
  <2>2. h.successes \in Nat /\ h.successes <= InUse[n].successes + 1
    BY <1>3, <2>1, Numbers DEF AtMost
  <2>3. h.successes <= MaxSuccessStreak BY <1>3, <2>1, Numbers DEF AtMost
  <2>4. Counted[n] = AtMost(run[n] + 1, FailbackThreshold) BY <1>1, <1>6 DEF Counted
  <2>5. CASE InUse[n].successes <= run[n]
    BY <1>3, <1>4, <1>6, <2>2, <2>4, <2>5, Numbers DEF AtMost, h
  <2>6. CASE AtMost(disk.transportAge, FailbackThreshold - 1) <= run[n]
    BY <1>3, <1>4, <1>6, <2>2, <2>4, <2>6, Numbers DEF AtMost, h
  <2> QED BY <2>5, <2>6 DEF RowCovers
<1> QED BY <1>5, <1>6

LEMMA RecalledCovers ==
  ASSUME Inv, NEW health, AllOK(health), NEW nodes, NEW n \in Nodes
  PROVE  /\ run[n] <= Recalled(health, nodes)[n]
         /\ n \in nodes => \/ health[n].successes <= Recalled(health, nodes)[n]
                           \/ FailbackThreshold <= Recalled(health, nodes)[n]
<1>1. run[n] \in 0..FailbackThreshold /\ health[n].successes \in Nat
  BY Numbers DEF Inv, Others, AllOK, HealthOK, Health
<1>2. Recalled(health, nodes)[n] =
        IF n \in nodes /\ health[n].successes > run[n]
        THEN AtMost(health[n].successes, FailbackThreshold) ELSE run[n]
  BY DEF Recalled
<1> QED BY <1>1, <1>2, AutoAssumption, Numbers DEF AtMost

(* A fallback that has just begun asks nothing of the rows.                *)
LEMMA YoungCovers ==
  ASSUME Inv', disk'.transportAge = 0
  PROVE  RowsOK'
<1>1. \A n \in Nodes : run'[n] \in Nat BY AutoAssumption, Numbers DEF Inv, Others
<1>2. AtMost(0, FailbackThreshold - 1) = 0 BY AutoAssumption, Numbers DEF AtMost
<1> QED BY <1>1, <1>2 DEF RowsOK, RowCovers

(* A check that is forgotten leaves rows and memory as they were.          *)
LEMMA ForgottenCheckCovers ==
  ASSUME Inv, Inv', RowsOK, RowsMatter, disk.transport = "zapret", excluded' = excluded,
         AtMost(disk.transportAge + 1, Cooldown) >= Cooldown,
         disk' = Aged(disk), run' = run,
         cache' = IF cache = Forgotten THEN Forgotten
                  ELSE [cache EXCEPT !.age = AtMost(@ + 1, PersistInterval)]
  PROVE  RowsOK'
<1>1. StateOK(disk) /\ CacheOK BY DEF Inv
<1>2. /\ disk'.transportAge = AtMost(disk.transportAge + 1, Cooldown)
      /\ disk'.health = disk.health /\ disk.transportAge \in 0..Cooldown
  BY <1>1 DEF Aged, StateOK, StateType
<1>3. /\ FailbackThreshold \in Nat /\ Cooldown \in Nat /\ Cooldown >= FailbackThreshold
      /\ FailbackThreshold > 1
  BY AutoAssumption, Numbers DEF RowsMatter, CooldownCoversRow
<1>4. disk.transportAge >= FailbackThreshold - 1 /\ disk.transportAge > 0
  BY <1>2, <1>3 DEF AtMost
<1>5. cache # Forgotten BY <1>4 DEF RowsOK
<1> DEFINE age == AtMost(cache.age + 1, PersistInterval)
<1>6. cache' = [cache EXCEPT !.age = age] BY <1>5
<1>7. /\ cache \in [health : [Nodes -> Health], age : 0..PersistInterval]
      /\ age \in 0..PersistInterval
  BY <1>1, <1>5, AutoAssumption DEF CacheOK, AtMost
<1> HIDE DEF age
<1>8. cache'.age = age /\ cache'.health = cache.health BY <1>6, <1>7
<1>9. cache' # Forgotten
  <2>1. Forgotten.age = PersistInterval + 1 BY DEF Forgotten
  <2> QED BY <1>7, <1>8, <2>1, AutoAssumption
<1>10. InUse' = InUse
  <2>1. disk \in StateType /\ disk' \in StateType BY DEF Inv, StateOK
  <2> QED BY <1>5, <1>8, <1>9, <2>1 DEF InUse, Merged, StateType
<1>11. ASSUME NEW n \in Nodes \ excluded PROVE RowCovers(n)'
  <2>1. RowCovers(n) BY DEF RowsOK
  <2>2. CASE InUse[n].successes <= run[n] BY <1>10, <2>2 DEF RowCovers
  <2>3. CASE AtMost(disk.transportAge, FailbackThreshold - 1) <= run[n]
    <3>1. disk'.transportAge \in Nat BY <1>2, <1>3 DEF AtMost
    <3>2. run[n] \in Nat BY <1>3 DEF Inv, Others
    <3> QED BY <1>2, <1>3, <1>4, <2>3, <3>1, <3>2 DEF RowCovers, AtMost
  <2> QED BY <2>1, <2>2, <2>3 DEF RowCovers
<1> QED BY <1>9, <1>11 DEF RowsOK

LEMMA CheckCovers ==
  ASSUME Inv, Inv', RowsOK, RunAutoHealthCheck
  PROVE  RowsOK'
<1> DEFINE s == Merged(Aged(disk))
           candidates == Nodes \ excluded
           health == Probed(s, candidates)
           d == Decision(s, candidates, health)
           z == [s EXCEPT !.connected = TRUE, !.failed = TRUE, !.health = d.health]
           k == [s EXCEPT !.health = d.health, !.failed = FALSE]
<1> SUFFICES ASSUME RowsMatter, disk'.transport = "zapret" PROVE RowsOK' BY DEF RowsOK
<1>1. StateOK(disk) /\ CacheOK /\ link \in [Nodes -> Links] BY DEF Inv, Others
<1>2. CheckResult(s, d) /\ excluded' = excluded
  BY CheckIsResult DEF RunAutoHealthCheck
<1>3. /\ StateOK(s) /\ s.health = InUse /\ Key(s) = Key(disk) /\ StateOK(Aged(disk))
  BY <1>1, AgedOK DEF InUse
<1>4. /\ s.transportAge = AtMost(disk.transportAge + 1, Cooldown)
      /\ Aged(disk).transportAge = AtMost(disk.transportAge + 1, Cooldown)
      /\ Aged(disk).transport = disk.transport
  BY <1>1 DEF Merged, Aged, StateOK, StateType
<1> HIDE DEF s
<1>5. s.transport = disk.transport /\ s \in StateType BY <1>3 DEF Key, StateOK
<1>6. AllOK(health) BY <1>1, <1>3, ProbedOK
<1> HIDE DEF health
<1>7. /\ d.health = health /\ d.best \in Nodes \cup {None}
      /\ d.selected # None => d.selected \in Nodes
      /\ CurrentNode(s) = None => d.selected = d.best
  BY <1>3, <1>6, CheckOK, DecisionOK DEF health
<1> HIDE DEF d
<1>8. CASE s.transport = "zapret"
  <2>1. \A n \in Nodes \ excluded :
          \/ health[n].successes <= Counted[n]
          \/ AtMost(s.transportAge, FailbackThreshold - 1) <= Counted[n]
    BY <1>3, <1>4, <1>5, <1>8, ProbeCounts DEF RowsOK, health
  <2>2. /\ StateOK(z) /\ z.health = health /\ z.transport = "zapret"
        /\ z.transportAge = s.transportAge
    BY <1>3, <1>5, <1>6, <1>7, <1>8 DEF StateOK, StateType, AllOK
  <2>3. ASSUME cache' # Forgotten, disk'.transportAge = s.transportAge, run' = Counted,
               \A n \in Nodes : InUse'[n].successes <= health[n].successes
        PROVE  RowsOK'
    <3>1. ASSUME NEW n \in Nodes \ excluded PROVE RowCovers(n)'
      <4>1. /\ InUse'[n].successes \in Nat /\ health[n].successes \in Nat
            /\ Counted[n] \in Nat
        <5>1. StateOK(disk)' /\ CacheOK' /\ run' \in [Nodes -> 0..FailbackThreshold]
          BY DEF Inv, Others
        <5>2. AllOK(InUse)' BY <5>1 DEF InUse, Merged, CacheOK, StateOK, StateType
        <5>3. \A h \in Health : h.successes \in Nat BY Numbers DEF Health
        <5>4. InUse'[n] \in Health /\ health[n] \in Health
          BY <1>6, <5>2 DEF AllOK, HealthOK
        <5>5. Counted[n] \in Nat BY <2>3, <5>1, AutoAssumption, Numbers
        <5> QED BY <5>3, <5>4, <5>5
      <4>2. InUse'[n].successes <= health[n].successes BY <2>3
      <4>3. CASE health[n].successes <= Counted[n]
        BY <2>3, <4>1, <4>2, <4>3 DEF RowCovers
      <4>4. CASE AtMost(s.transportAge, FailbackThreshold - 1) <= Counted[n]
        BY <1>2, <2>3, <4>4 DEF RowCovers
      <4> QED BY <2>1, <4>3, <4>4
    <3> QED BY <1>2, <2>3, <3>1 DEF RowsOK
  <2>4. \A n \in Nodes : health[n].successes \in Nat
    BY <1>6, Numbers DEF AllOK, HealthOK, Health
  <2>5. CASE CanFailbackFromZapret(z, d)
    <3>1. d.selected \in Nodes BY <1>7, <1>8, <2>5 DEF CanFailbackFromZapret, CurrentNode
    <3>2. CommitAutoSelection(z, d, s.health) BY <1>2, <1>8, <2>5 DEF CheckResult
    <3> HIDE DEF z
    <3>3. CASE applying = "unprepared"
      <4>1. /\ disk' = Aged(disk) /\ run' = run
            /\ cache' = IF cache = Forgotten THEN Forgotten
                        ELSE [cache EXCEPT !.age = AtMost(@ + 1, PersistInterval)]
        BY <3>2, <3>3 DEF CommitAutoSelection
      <4>2. AtMost(disk.transportAge + 1, Cooldown) >= Cooldown
        BY <1>4, <2>2, <2>5 DEF CanFailbackFromZapret
      <4> QED BY <1>2, <1>5, <1>8, <4>1, <4>2, ForgottenCheckCovers
    <3>4. CASE applying # "unprepared"
      <4>1. PICK t \in Attempts(z, d, s.health) : SaveState(t) /\ run' = Counted
        BY <3>2, <3>4 DEF CommitAutoSelection
      <4>2. StateOK(t) BY <1>1, <1>3, <1>6, <1>7, <2>2, <3>1, AttemptsOK DEF StateOK
      <4>3. /\ disk' = t /\ cache' # Forgotten /\ InUse' = t.health BY <4>1, <4>2, SavedInUse
      <4>4. /\ t.transportAge = z.transportAge
            /\ \A n \in Nodes : t.health[n].successes <= z.health[n].successes
        BY <1>1, <2>2, <3>4, <4>3, AttemptAge
      <4> QED BY <2>2, <2>3, <4>1, <4>3, <4>4
    <3> QED BY <3>3, <3>4
  <2>6. CASE ~CanFailbackFromZapret(z, d)
    <3>1. PersistOrRemember(z) /\ run' = Counted BY <1>2, <1>8, <2>6 DEF CheckResult
    <3> HIDE DEF z
    <3>2. disk' \in {z, Aged(disk)} /\ cache' # Forgotten /\ InUse' = z.health
      BY <2>2, <3>1, RememberedInUse
    <3>3. disk'.transportAge = s.transportAge BY <1>4, <2>2, <3>2
    <3>4. \A n \in Nodes : InUse'[n].successes <= health[n].successes BY <2>2, <2>4, <3>2
    <3> QED BY <2>3, <3>1, <3>2, <3>3, <3>4
  <2> QED BY <2>5, <2>6
<1>9. CASE s.transport # "zapret" /\ d.selected = None
  <2>1. \/ \E works \in ZapretOutcomes : disk' = FellBack(s, works)
        \/ disk' = GaveUp(s, d)
    BY <1>2, <1>9 DEF CheckResult, SaveState
  <2>2. ASSUME NEW works, disk' = FellBack(s, works) PROVE RowsOK'
    <3>1. disk'.transportAge = 0 BY <1>3, <1>9, <2>2, FellBackAge
    <3> QED BY <3>1, YoungCovers
  <2>3. disk' # GaveUp(s, d)
    <3> SUFFICES ASSUME disk' = GaveUp(s, d) PROVE FALSE OBVIOUS
    <3>1. CASE s.connected
      <4>1. Direct(s) \in StateType BY <1>3, DirectOK DEF StateOK
      <4>2. Direct(s).transport = "direct" BY <1>5 DEF Direct, StateType
      <4>3. GaveUp(s, d).transport = Direct(s).transport BY <3>1, <4>1 DEF GaveUp, StateType
      <4> QED BY <4>2, <4>3
    <3>2. CASE ~s.connected
      <4>1. GaveUp(s, d).transport = s.transport BY <1>5, <3>2 DEF GaveUp, StateType
      <4> QED BY <1>9, <4>1
    <3> QED BY <3>1, <3>2
  <2> QED BY <2>1, <2>2, <2>3
<1>10. CASE s.transport # "zapret" /\ d.selected # None
  <2>1. PersistOrRemember(k) \/ CommitAutoSelection(s, d, s.health)
    BY <1>2, <1>10 DEF CheckResult
  <2>2. ASSUME PersistOrRemember(k) PROVE FALSE
    <3>1. k.transport = s.transport BY <1>5 DEF StateType
    <3> HIDE DEF k
    <3>2. disk' = k \/ disk' = Aged(disk) BY <2>2 DEF PersistOrRemember, SaveState
    <3> QED BY <1>4, <1>5, <1>10, <3>1, <3>2
  <2>3. ASSUME CommitAutoSelection(s, d, s.health) PROVE FALSE
    <3>1. \/ disk' = Aged(disk)
          \/ applying # "unprepared" /\ disk' \in Attempts(s, d, s.health)
      BY <2>3 DEF CommitAutoSelection, SaveState
    <3> QED BY <1>1, <1>3, <1>4, <1>5, <1>10, <3>1, AttemptAge
  <2> QED BY <2>1, <2>2, <2>3
<1> QED BY <1>8, <1>9, <1>10

(* A command that leaves Zapret in use starts the fallback, or leaves what *)
(* the daemon goes by alone.                                               *)
LEMMA ConnectLeavesInUse ==
  ASSUME Inv, RowsOK, RowsMatter, NEW candidates \in SUBSET Nodes, ConnectAuto(candidates),
         disk'.transport = "zapret"
  PROVE  \/ disk'.transportAge = 0
         \/ /\ disk.transport = "zapret" /\ disk'.transportAge = disk.transportAge
            /\ cache' # Forgotten /\ InUse' = InUse
<1> DEFINE d == Decision(disk, candidates, Probed(disk, candidates))
           s == [disk EXCEPT !.health = d.health, !.failed = TRUE]
<1>1. StateOK(disk) /\ disk \in StateType BY DEF Inv, StateOK
<1>2. AllOK(d.health) /\ (d.selected # None => d.selected \in Nodes) BY <1>1, CheckOK
<1>3. ConnectResult(d) BY DEF ConnectAuto, ConnectResult
<1> HIDE DEF d
<1>4. /\ StateOK(s) /\ Key(s) = Key(disk) /\ s.transport = disk.transport
      /\ s.transportAge = disk.transportAge
  BY <1>1, <1>2 DEF StateOK, StateType, AllOK, Key
<1>5. \/ SavedElsewhere(disk)
      \/ /\ d.selected # None /\ applying # "unprepared"
         /\ \E t \in Attempts(disk, d, disk.health) : SavedElsewhere(t)
      \/ \E works \in ZapretOutcomes : SavedElsewhere(FellBack(s, works))
      \/ SavedElsewhere(s)
  BY <1>3 DEF ConnectResult
<1> HIDE DEF s
<1>6. ASSUME NEW t, StateOK(t), SavedElsewhere(t), Key(t) = Key(disk),
             disk.transport = "zapret", t.transportAge = disk.transportAge
      PROVE  \/ disk'.transportAge = 0
             \/ /\ disk.transport = "zapret" /\ disk'.transportAge = disk.transportAge
                /\ cache' # Forgotten /\ InUse' = InUse
  <2>1. disk' = t /\ cache' = cache BY <1>6 DEF SavedElsewhere
  <2>2. CASE cache = Forgotten BY <1>6, <2>1, <2>2 DEF RowsOK
  <2>3. CASE cache # Forgotten
    <3>1. InUse = cache.health BY <1>1, <2>3 DEF InUse, Merged, StateType
    <3>2. InUse' = cache'.health BY <1>6, <2>1, <2>3 DEF InUse, Merged, StateType, StateOK
    <3> QED BY <1>6, <2>1, <2>3, <3>1, <3>2
  <2> QED BY <2>2, <2>3
<1>7. ASSUME d.selected # None, applying # "unprepared",
             NEW t \in Attempts(disk, d, disk.health), SavedElsewhere(t)
      PROVE  \/ disk'.transportAge = 0
             \/ /\ disk.transport = "zapret" /\ disk'.transportAge = disk.transportAge
                /\ cache' # Forgotten /\ InUse' = InUse
  <2>1. disk' = t BY <1>7 DEF SavedElsewhere
  <2>2. StateOK(t) BY <1>1, <1>2, <1>7, AttemptsOK DEF StateOK
  <2>3. /\ disk.transport = "zapret" /\ Key(t) = Key(disk) /\ t.transportAge = disk.transportAge
    BY <1>1, <1>7, <2>1, AttemptAge
  <2> QED BY <1>6, <1>7, <2>2, <2>3
<1>8. ASSUME NEW works, SavedElsewhere(FellBack(s, works))
      PROVE  \/ disk'.transportAge = 0
             \/ /\ disk.transport = "zapret" /\ disk'.transportAge = disk.transportAge
                /\ cache' # Forgotten /\ InUse' = InUse
  <2>1. disk' = FellBack(s, works) BY <1>8 DEF SavedElsewhere
  <2>2. StateOK(FellBack(s, works)) BY <1>4, FellBackOK
  <2>3. /\ FellBack(s, works).node = s.node /\ FellBack(s, works).connected
        /\ FellBack(s, works).transportAge
             = IF s.transport = "zapret" THEN s.transportAge ELSE 0
    BY <1>4, <2>1, FellBackAge
  <2>4. CASE s.transport # "zapret" BY <2>1, <2>3, <2>4
  <2>5. CASE s.transport = "zapret"
    <3>1. s.connected = TRUE BY <1>4, <2>5 DEF StateOK, StateType
    <3>2. FellBack(s, works).connected = TRUE BY <2>2, <2>3 DEF StateOK, StateType
    <3>3. Key(FellBack(s, works)) = Key(disk)
      BY <1>4, <2>1, <2>3, <2>5, <3>1, <3>2 DEF Key
    <3> QED BY <1>4, <1>6, <1>8, <2>2, <2>3, <2>5, <3>3
  <2> QED BY <2>4, <2>5
<1>9. CASE SavedElsewhere(s)
  <2>1. disk' = s BY <1>9 DEF SavedElsewhere
  <2> QED BY <1>4, <1>6, <1>9, <2>1
<1>10. CASE SavedElsewhere(disk)
  <2>1. disk' = disk BY <1>10 DEF SavedElsewhere
  <2> QED BY <1>1, <1>6, <1>10, <2>1
<1> QED BY <1>5, <1>7, <1>8, <1>9, <1>10

LEMMA RowsNext == Inv /\ Inv' /\ RowsOK /\ [Next]_vars => RowsOK'
<1> SUFFICES ASSUME Inv, Inv', RowsOK, [Next]_vars, RowsMatter, disk'.transport = "zapret"
             PROVE  RowsOK'
  BY DEF RowsOK
<1>1. StateOK(disk) /\ CacheOK /\ Others BY DEF Inv
<1>2. FailbackThreshold \in Nat /\ Cooldown \in Nat /\ disk.transportAge \in 0..Cooldown
  BY <1>1, AutoAssumption, Numbers DEF StateOK, StateType
<1>3. ASSUME NEW n \in Nodes, AllOK(InUse), RowCovers(n), InUse' = InUse, run[n] <= run'[n],
             disk'.transportAge = disk.transportAge
      PROVE  RowCovers(n)'
  <2>1. run[n] \in Nat /\ run'[n] \in Nat /\ InUse[n].successes \in Nat
    BY <1>2, <1>3, Numbers DEF Inv, Others, AllOK, HealthOK, Health
  <2>2. AtMost(disk.transportAge, FailbackThreshold - 1) \in Nat
    BY <1>2 DEF AtMost, RowsMatter
  <2> QED BY <1>3, <2>1, <2>2 DEF RowCovers
(* The daemon goes back to what is stored.                                 *)
<1>4. ASSUME StateOK(disk'), SaveState(disk'), disk'.health = disk.health,
             run' = Recalled(disk.health, Nodes)
      PROVE  RowsOK'
  <2>1. cache' # Forgotten /\ InUse' = disk.health BY <1>4, SavedInUse
  <2>2. ASSUME NEW n \in Nodes PROVE RowCovers(n)'
    <3>1. \/ disk.health[n].successes <= run'[n] \/ FailbackThreshold <= run'[n]
      BY <1>1, <1>4, RecalledCovers DEF StateOK
    <3>2. run'[n] \in Nat BY <1>2 DEF Inv, Others
    <3>3. disk'.transportAge \in Nat BY <1>2, <1>4 DEF StateOK, StateType
    <3> QED BY <1>2, <2>1, <3>1, <3>2, <3>3 DEF RowCovers, AtMost
  <2> QED BY <2>1, <2>2 DEF RowsOK
<1>5. ASSUME NEW candidates \in SUBSET Nodes, ConnectAuto(candidates),
             \A n \in Nodes : run[n] <= run'[n],
             \A n \in Nodes \ excluded' : n \notin excluded \/ InUse[n].successes <= run'[n]
                                            \/ FailbackThreshold <= run'[n]
      PROVE  RowsOK'
  <2>1. CASE disk'.transportAge = 0 BY <2>1, YoungCovers
  <2>2. CASE /\ disk.transport = "zapret" /\ disk'.transportAge = disk.transportAge
             /\ cache' # Forgotten /\ InUse' = InUse
    <3>1. AllOK(InUse) BY <1>1, AgedOK DEF InUse, StateOK
    <3>2. ASSUME NEW n \in Nodes \ excluded' PROVE RowCovers(n)'
      <4>1. CASE n \notin excluded
        BY <1>3, <1>5, <2>2, <3>1, <4>1 DEF RowsOK
      <4>2. CASE InUse[n].successes <= run'[n] BY <2>2, <4>2 DEF RowCovers
      <4>3. CASE FailbackThreshold <= run'[n]
        <5>1. run'[n] \in Nat BY <1>2 DEF Inv, Others
        <5> QED BY <1>2, <2>2, <4>3, <5>1 DEF RowCovers, AtMost
      <4> QED BY <1>5, <4>1, <4>2, <4>3
    <3> QED BY <2>2, <3>2 DEF RowsOK
  <2> QED BY <1>5, <2>1, <2>2, ConnectLeavesInUse
<1>6. \A n \in Nodes : run[n] \in Nat BY <1>1, <1>2 DEF Others
<1>7. CASE UNCHANGED vars BY <1>7 DEF vars, RowsOK, RowCovers, InUse, Merged
<1>8. CASE RunAutoHealthCheck BY <1>8, CheckCovers
<1>9. CASE TouchRefreshAttempt
  <2>1. SaveState(disk) /\ run' = Recalled(disk.health, Nodes) BY <1>9 DEF TouchRefreshAttempt
  <2>2. disk' = disk BY <2>1 DEF SaveState
  <2> QED BY <1>1, <1>4, <2>1, <2>2
<1>10. CASE RestartDaemon
  <2>1. run' = Recalled(disk.health, Nodes) BY <1>10 DEF RestartDaemon
  <2>2. CASE ~disk.connected /\ UNCHANGED disk BY <1>1, <2>2 DEF StateOK
  <2>3. ASSUME NEW works, SaveState(FellBack(disk, works)) PROVE RowsOK'
    <3>1. disk' = FellBack(disk, works) BY <2>3 DEF SaveState
    <3>2. disk'.health = disk.health /\ StateOK(disk')
      BY <1>1, <3>1, FellBackAge, FellBackOK
    <3> QED BY <1>4, <2>1, <2>3, <3>1, <3>2
  <2>4. ASSUME NEW t \in RestoredStates, SaveState(t), disk.transport = "proxy" PROVE RowsOK'
    <3>1. disk' = t BY <2>4 DEF SaveState
    <3>2. t.transport \in {disk.transport, "direct"} BY <1>1, RestoredOK
    <3> QED BY <2>4, <3>1, <3>2
  <2> QED BY <1>10, <2>2, <2>3, <2>4 DEF RestartDaemon
<1>11. ASSUME NEW ex \in SUBSET Nodes, SetExcludedNodes(ex) PROVE RowsOK'
  <2>1. excluded' = ex /\ run' = Recalled(InUse, excluded \ ex)
    BY <1>11 DEF SetExcludedNodes, InUse
  <2>2. disk.connected
    <3>1. CASE ~disk.connected
      <4>1. disk' = disk BY <1>11, <3>1 DEF SetExcludedNodes
      <4> QED BY <1>1, <3>1, <4>1 DEF StateOK
    <3> QED BY <3>1
  <2>3. ConnectAuto(Nodes \ ex) BY <1>11, <2>2 DEF SetExcludedNodes
  <2>4. AllOK(InUse) BY <1>1, AgedOK DEF InUse, StateOK
  <2>5. \A n \in Nodes : /\ run[n] <= run'[n]
                         /\ n \in excluded \ ex => \/ InUse[n].successes <= run'[n]
                                                   \/ FailbackThreshold <= run'[n]
    BY <2>1, <2>4, RecalledCovers
  <2> QED BY <1>5, <2>1, <2>3, <2>5
<1>12. CASE UserConnectsAuto
  <2>1. run' = run /\ excluded' = excluded /\ ConnectAuto(Nodes \ excluded)
    BY <1>12 DEF UserConnectsAuto
  <2> QED BY <1>5, <1>6, <2>1
<1>13. CASE NetworkChanges BY <1>13 DEF NetworkChanges, RowsOK, RowCovers, InUse, Merged
<1>14. CASE RouterChanges BY <1>14 DEF RouterChanges, RowsOK, RowCovers, InUse, Merged
<1> QED BY <1>7, <1>8, <1>9, <1>10, <1>11, <1>12, <1>13, <1>14 DEF Next

(* While Zapret is in use, the rows cover what the daemon goes by.         *)
LEMMA RowsHold == Spec => []RowsOK
<1>1. Init => RowsOK BY DEF Init, RowsOK
<1> QED BY <1>1, RowsNext, InvHolds, PTL DEF Spec

LEMMA FailbackStep ==
  ASSUME CooldownCoversRow, Inv, RowsOK, RunAutoHealthCheck,
         disk.transport = "zapret", disk'.transport = "proxy"
  PROVE  run'[disk'.node] >= FailbackThreshold /\ disk.transportAge + 1 >= Cooldown
<1> DEFINE s == Merged(Aged(disk))
           candidates == Nodes \ excluded
           health == Probed(s, candidates)
           d == Decision(s, candidates, health)
           z == [s EXCEPT !.connected = TRUE, !.failed = TRUE, !.health = d.health]
<1>1. StateOK(disk) /\ CacheOK /\ link \in [Nodes -> Links] BY DEF Inv, Others
<1>2. CheckResult(s, d) BY CheckIsResult
<1>3. StateOK(s) /\ s.health = InUse /\ Key(s) = Key(disk) BY <1>1, AgedOK DEF InUse
<1>4. /\ s.transportAge = AtMost(disk.transportAge + 1, Cooldown)
      /\ Aged(disk).transport = disk.transport /\ disk.transportAge \in 0..Cooldown
  BY <1>1 DEF Merged, Aged, StateOK, StateType
<1> HIDE DEF s
<1>5. s.transport = "zapret" /\ s \in StateType /\ CurrentNode(s) = None
  BY <1>3 DEF Key, StateOK, CurrentNode
<1>6. AllOK(health) BY <1>1, <1>3, ProbedOK
<1> HIDE DEF health
<1>7. /\ d.health = health /\ d.best \in candidates \cup {None} /\ d.selected = d.best
  BY <1>5, <1>6, DecisionOK
<1> HIDE DEF d
<1>8. /\ z.transport = "zapret" /\ z \in StateType /\ z.connected
      /\ z.transportAge = s.transportAge
  BY <1>5, <1>6, <1>7 DEF StateType, AllOK
<1>9. CanFailbackFromZapret(z, d) /\ CommitAutoSelection(z, d, s.health)
  <2>1. CASE PersistOrRemember(z)
    <3>1. disk' = z \/ disk' = Aged(disk) BY <2>1 DEF PersistOrRemember, SaveState
    <3> QED BY <1>4, <1>8, <3>1
  <2> QED BY <1>2, <1>5, <2>1 DEF CheckResult
<1>10. /\ d.best # None /\ health[d.best].successes >= FailbackThreshold
       /\ s.transportAge >= Cooldown
  BY <1>7, <1>8, <1>9 DEF CanFailbackFromZapret
<1> HIDE DEF z
<1>11. disk'.node = d.best /\ run' = Counted
  <2>1. CASE applying = "unprepared"
    <3>1. disk' = Aged(disk) BY <1>9, <2>1 DEF CommitAutoSelection
    <3> QED BY <1>4, <3>1
  <2>2. CASE applying # "unprepared"
    <3>1. PICK t \in Attempts(z, d, s.health) : disk' = t /\ run' = Counted
      BY <1>9, <2>2 DEF CommitAutoSelection, SaveState
    <3>2. Key(t) = Key(z) => t.transport = "zapret" BY <1>8 DEF Key
    <3> QED BY <1>1, <1>7, <1>8, <2>2, <3>1, <3>2, AttemptLeaves
  <2> QED BY <2>1, <2>2
<1>12. d.best \in Nodes \ excluded BY <1>7, <1>10
<1>13. RowCovers(d.best)
  <2>1. CASE FailbackThreshold > 1 BY <1>12, <2>1 DEF RowsOK, RowsMatter
  <2>2. CASE FailbackThreshold = 1
    <3>1. run[d.best] \in Nat BY <1>12, AutoAssumption, Numbers DEF Inv, Others
    <3> QED BY <1>4, <2>2, <3>1 DEF RowCovers, AtMost
  <2> QED BY <2>1, <2>2, AutoAssumption, Numbers
<1>14. FailbackThreshold \in Nat /\ FailbackThreshold >= 1 /\ Cooldown \in Nat
  BY AutoAssumption, Numbers
<1>15. /\ link[d.best].latency # 0 /\ health[d.best].successes <= InUse[d.best].successes + 1
  <2>1. \A n \in Nodes \ excluded : RowCovers(n) /\ health[n].successes > 0 =>
          link[n].latency # 0 /\ health[n].successes <= InUse[n].successes + 1
    BY <1>3, <1>5, ProbeCounts DEF health
  <2>2. health[d.best].successes > 0
    BY <1>6, <1>10, <1>12, <1>14, Numbers DEF AllOK, HealthOK, Health
  <2> QED BY <1>12, <1>13, <2>1, <2>2
<1>16. Counted[d.best] = AtMost(run[d.best] + 1, FailbackThreshold)
  BY <1>12, <1>15 DEF Counted
<1>17. /\ run[d.best] \in Nat /\ InUse[d.best].successes \in Nat
       /\ health[d.best].successes \in Nat
  <2>1. AllOK(InUse) BY <1>3 DEF StateOK
  <2> QED BY <1>6, <1>12, <1>14, <2>1, Numbers DEF Inv, Others, AllOK, HealthOK, Health
<1>18. disk.transportAge + 1 >= Cooldown BY <1>4, <1>10, <1>14 DEF AtMost
<1>19. run[d.best] + 1 >= FailbackThreshold
  <2>1. CASE InUse[d.best].successes <= run[d.best] BY <1>10, <1>14, <1>15, <1>17, <2>1
  <2>2. CASE AtMost(disk.transportAge, FailbackThreshold - 1) <= run[d.best]
    BY <1>4, <1>14, <1>17, <1>18, <2>2 DEF AtMost, CooldownCoversRow
  <2> QED BY <1>13, <2>1, <2>2 DEF RowCovers
<1>20. Counted[d.best] >= FailbackThreshold BY <1>14, <1>16, <1>17, <1>19 DEF AtMost
<1> QED BY <1>11, <1>18, <1>20

(* Where the cooldown outlasts the row of healthy cycles that failback     *)
(* asks for, no health check ends the fallback earlier.                    *)
THEOREM FailbackIsEarned == ASSUME CooldownCoversRow PROVE Spec => FailbackEarned
<1>1. Inv /\ RowsOK /\ [Next]_vars =>
        [RunAutoHealthCheck /\ disk.transport = "zapret" /\ disk'.transport = "proxy" =>
           /\ run'[disk'.node] >= FailbackThreshold
           /\ disk.transportAge + 1 >= Cooldown]_vars
  BY FailbackStep
<1> QED BY <1>1, InvHolds, RowsHold, PTL DEF Spec, FailbackEarned
=============================================================================
