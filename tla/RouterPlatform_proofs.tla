------------------------ MODULE RouterPlatform_proofs ------------------------
(***************************************************************************)
(* Proofs about RouterPlatform, for any DNS configs, policies and faults.  *)
(* The DNS manager's invariant says what the marker is good for while an   *)
(* operation runs; the firewall manager's says, step by step of an         *)
(* operation, which part of the evidence the next Apply goes by is sound.  *)
(***************************************************************************)
EXTENDS RouterPlatform, TLAPS

-----------------------------------------------------------------------------
(* The type invariant is inductive.                                        *)
LEMMA TypeInit == Init => TypeOK
<1> SUFFICES ASSUME Init PROVE TypeOK OBVIOUS
<1> USE DEF Init, Fresh, DNSInit, FWInit
<1>1. DNSMasqTypeOK BY DEF DNSMasqTypeOK, NFTSnippets, Loaded
<1>2. DNSTypeOK BY DEF DNSTypeOK
<1>3. FWTypeOK BY DEF FWTypeOK
<1> QED BY <1>1, <1>2, <1>3 DEF TypeOK

(* What happens to dnsmasq in a step of either manager.                    *)
LEMMA DNSMasqTyped ==
  ASSUME DNSMasqTypeOK, dnsSnippet' \in DNSConfigs \cup {"none"}, nftSnippet' \in NFTSnippets,
         dnsmasq' = Loaded \/ dnsmasq' = Loaded' \/ dnsmasq' = dnsmasq \/ dnsmasq' = Down
  PROVE  DNSMasqTypeOK'
<1> USE DEF DNSMasqTypeOK
<1>1. "none" \in NFTSnippets BY DEF NFTSnippets
<1>2. NFTSnippets' = NFTSnippets BY DEF NFTSnippets
<1>3. CASE dnsmasq' = Loaded BY <1>2, <1>3 DEF Loaded
<1>4. CASE dnsmasq' = Loaded' BY <1>2, <1>4 DEF Loaded
<1>5. CASE dnsmasq' = dnsmasq BY <1>2, <1>5
<1>6. CASE dnsmasq' = Down BY <1>1, <1>2, <1>6 DEF Down
<1> QED BY <1>3, <1>4, <1>5, <1>6

LEMMA DNSTyped == TypeOK /\ DNSNext => DNSMasqTypeOK' /\ DNSTypeOK'
<1> SUFFICES ASSUME TypeOK, DNSNext PROVE DNSMasqTypeOK' /\ DNSTypeOK'
  OBVIOUS
<1>1. /\ dnsSnippet' \in DNSConfigs \cup {"none"} /\ nftSnippet' = nftSnippet
      /\ dnsmasq' = Loaded \/ dnsmasq' = dnsmasq \/ dnsmasq' = Down
  BY DEF TypeOK, DNSMasqTypeOK, DNSTypeOK, DNSNext, DNSStart, MarkRestartPending,
         WriteDNSSnippet, RestartForDNS, UnmarkRestart, RestartSucceeds, RestartFails, dnsmasqVars
<1>2. DNSMasqTypeOK' BY <1>1, DNSMasqTyped DEF TypeOK, DNSMasqTypeOK
<1>3. DNSTypeOK'
  BY DEF TypeOK, DNSTypeOK, DNSNext, DNSStart, MarkRestartPending, WriteDNSSnippet,
         RestartForDNS, UnmarkRestart, DNSStop, DNSFails, DNSGo
<1> QED BY <1>2, <1>3

LEMMA FWTyped == TypeOK /\ FWNext => DNSMasqTypeOK' /\ FWTypeOK'
<1> SUFFICES ASSUME TypeOK, FWNext PROVE DNSMasqTypeOK' /\ FWTypeOK'
  OBVIOUS
<1>1. /\ dnsSnippet' = dnsSnippet /\ nftSnippet' \in NFTSnippets
      /\ dnsmasq' = Loaded \/ dnsmasq' = dnsmasq \/ dnsmasq' = Down
  BY DEF TypeOK, DNSMasqTypeOK, FWTypeOK, NFTSnippets, FWNext, FWStartApply, WriteRulesFile,
         CleanupBeforeLoad, LoadTable, AddRoute, AddRule, FWStartDisable, CleanupForDisable,
         DeleteTable, SyncTargets, Targets, ReloadForTargets, RestartSucceeds, RestartFails,
         dnsmasqVars
<1>2. DNSMasqTypeOK' BY <1>1, DNSMasqTyped DEF TypeOK, DNSMasqTypeOK
<1>3. FWTypeOK'
  <2> USE DEF TypeOK, FWTypeOK, FWGo, FWSucceed, FWStop, kernelVars
  <2>1. CASE FWStartApply BY <2>1 DEF FWStartApply, TuneConntrack
  <2>2. CASE WriteRulesFile BY <2>2 DEF WriteRulesFile
  <2>3. CASE CleanupBeforeLoad BY <2>3 DEF CleanupBeforeLoad, CleanupPolicyRouting
  <2>4. CASE LoadTable BY <2>4 DEF LoadTable
  <2>5. CASE AddRoute BY <2>5 DEF AddRoute, UndoLoad
  <2>6. CASE AddRule BY <2>6 DEF AddRule, UndoLoad
  <2>7. CASE FWStartDisable BY <2>7 DEF FWStartDisable, TuneConntrack
  <2>8. CASE CleanupForDisable BY <2>8 DEF CleanupForDisable, CleanupPolicyRouting
  <2>9. CASE DeleteTable BY <2>9 DEF DeleteTable
  <2>10. CASE SyncTargets BY <2>10 DEF SyncTargets
  <2>11. CASE ReloadForTargets BY <2>11 DEF ReloadForTargets
  <2> QED BY <2>1, <2>2, <2>3, <2>4, <2>5, <2>6, <2>7, <2>8, <2>9, <2>10, <2>11 DEF FWNext
<1> QED BY <1>2, <1>3

LEMMA TypeNext == TypeOK /\ [Next]_vars => TypeOK'
<1> SUFFICES ASSUME TypeOK, [Next]_vars PROVE TypeOK'
  OBVIOUS
<1>1. ASSUME UNCHANGED dnsVars PROVE DNSTypeOK'
  BY <1>1 DEF TypeOK, DNSTypeOK, dnsVars
<1>2. ASSUME UNCHANGED fwVars PROVE FWTypeOK'
  BY <1>2 DEF TypeOK, FWTypeOK, fwVars, kernelVars, opVars
<1>3. CASE UNCHANGED vars
  BY <1>1, <1>2, <1>3, DNSMasqTyped DEF vars, dnsmasqVars, TypeOK, DNSMasqTypeOK
<1>4. CASE DNSNext /\ UNCHANGED fwVars BY <1>2, <1>4, DNSTyped DEF TypeOK
<1>5. CASE FWNext /\ UNCHANGED dnsVars BY <1>1, <1>5, FWTyped DEF TypeOK
<1>6. CASE (DNSMasqDies \/ DNSMasqRestart) /\ UNCHANGED <<dnsVars, fwVars>>
  BY <1>1, <1>2, <1>6, DNSMasqTyped DEF DNSMasqDies, DNSMasqRestart, TypeOK, DNSMasqTypeOK
<1>7. CASE Crash
  <2>1. DNSMasqTypeOK' BY <1>7, DNSMasqTyped DEF Crash, dnsmasqVars, TypeOK, DNSMasqTypeOK
  <2>2. DNSTypeOK' /\ FWTypeOK'
    BY <1>7 DEF Crash, TypeOK, DNSTypeOK, FWTypeOK, DNSStop, FWStop, kernelVars
  <2> QED BY <2>1, <2>2 DEF TypeOK
<1>8. CASE Reboot
  <2>1. DNSMasqTypeOK'
    BY <1>8, DNSMasqTyped DEF Reboot, NFTSnippets, TypeOK
  <2>2. DNSTypeOK' /\ FWTypeOK'
    BY <1>8 DEF Reboot, TypeOK, DNSTypeOK, FWTypeOK, FWStop
  <2> QED BY <2>1, <2>2 DEF TypeOK
<1> QED BY <1>3, <1>4, <1>5, <1>6, <1>7, <1>8 DEF Next

(* Every reachable state of dnsmasq, the managers and what they keep has   *)
(* its type.                                                               *)
THEOREM TypeCorrect == Spec => []TypeOK
  BY TypeInit, TypeNext, PTL DEF Spec

-----------------------------------------------------------------------------
(* The DNS manager.  Between marking and unmarking a restart is owed on    *)
(* record; the snippet is as wanted from its writing on, and read from the *)
(* restart on.                                                             *)
DNSInv ==
  /\ NoRestartForgotten
  /\ DNSTakesEffect
  /\ dnsDone => dnsPC = "idle"
  /\ dnsPC \in {"write", "restart", "unmark"} => pending
  /\ dnsPC \in {"restart", "unmark"} => dnsSnippet = dnsWant
  /\ dnsPC = "unmark" /\ dnsmasq.up => dnsmasq.dns = dnsSnippet

LEMMA DNSInvInit == Init => DNSInv
  BY DEF Init, Fresh, DNSInit, Loaded, DNSInv, NoRestartForgotten, DNSTakesEffect

(* What anyone else does to dnsmasq: it is down, unchanged or has read the *)
(* snippet.                                                                *)
LEMMA DNSInvUndisturbed ==
  ASSUME DNSInv, UNCHANGED <<dnsVars, dnsSnippet>>,
         dnsmasq' = Loaded' \/ dnsmasq' = dnsmasq \/ dnsmasq' = Down
  PROVE  DNSInv'
  BY DEF DNSInv, NoRestartForgotten, DNSTakesEffect, dnsVars, Loaded, Down

LEMMA DNSInvNext == TypeOK /\ DNSInv /\ [Next]_vars => DNSInv'
<1> SUFFICES ASSUME TypeOK, DNSInv, [Next]_vars PROVE DNSInv'
  OBVIOUS
<1>1. CASE UNCHANGED vars
  BY <1>1, DNSInvUndisturbed DEF vars, dnsmasqVars
<1>2. CASE DNSNext /\ UNCHANGED fwVars
  <2> USE DEF DNSInv, NoRestartForgotten, DNSTakesEffect, DNSStop, DNSFails, DNSGo, TypeOK, DNSTypeOK
  <2>1. CASE DNSStart BY <2>1 DEF DNSStart, dnsmasqVars
  <2>2. CASE MarkRestartPending BY <2>2 DEF MarkRestartPending, dnsmasqVars
  <2>3. CASE WriteDNSSnippet
    <3>1. CASE dnsSnippet' = dnsWant /\ DNSGo("restart") /\ UNCHANGED pending
      BY <2>3, <3>1 DEF WriteDNSSnippet
    <3>2. CASE DNSStop /\ UNCHANGED dnsSnippet BY <2>3, <3>2 DEF WriteDNSSnippet
    <3> QED BY <2>3, <3>1, <3>2 DEF WriteDNSSnippet
  <2>4. CASE RestartForDNS
    <3>1. CASE RestartSucceeds /\ DNSGo("unmark") /\ UNCHANGED pending
      BY <2>4, <3>1 DEF RestartForDNS, RestartSucceeds, Loaded
    <3>2. CASE RestartFails /\ DNSStop
      BY <2>4, <3>2 DEF RestartForDNS, RestartFails, Down
    <3> QED BY <2>4, <3>1, <3>2 DEF RestartForDNS
  <2>5. CASE UnmarkRestart BY <2>5 DEF UnmarkRestart, dnsmasqVars
  <2> QED BY <1>2, <2>1, <2>2, <2>3, <2>4, <2>5 DEF DNSNext
<1>3. CASE FWNext /\ UNCHANGED dnsVars
  <2>1. CASE ReloadForTargets
    BY <1>3, <2>1, DNSInvUndisturbed
    DEF ReloadForTargets, RestartSucceeds, RestartFails, Loaded
  <2>2. CASE ~ReloadForTargets
    <3>1. UNCHANGED <<dnsSnippet, dnsmasq>>
      BY <1>3, <2>2 DEF FWNext, FWStartApply, WriteRulesFile, CleanupBeforeLoad, LoadTable,
         AddRoute, AddRule, FWStartDisable, CleanupForDisable, DeleteTable, SyncTargets, dnsmasqVars
    <3> QED BY <1>3, <3>1, DNSInvUndisturbed
  <2> QED BY <2>1, <2>2
<1>4. CASE (DNSMasqDies \/ DNSMasqRestart) /\ UNCHANGED <<dnsVars, fwVars>>
  BY <1>4, DNSInvUndisturbed DEF DNSMasqDies, DNSMasqRestart, Loaded
<1>5. CASE Crash
  BY <1>5 DEF Crash, DNSStop, dnsmasqVars, DNSInv, NoRestartForgotten, DNSTakesEffect
<1>6. CASE Reboot
  BY <1>6 DEF Reboot, Loaded, DNSInv, NoRestartForgotten, DNSTakesEffect
<1> QED BY <1>1, <1>2, <1>3, <1>4, <1>5, <1>6 DEF Next

LEMMA DNSInvHolds == Spec => []DNSInv
  BY DNSInvInit, DNSInvNext, TypeCorrect, PTL DEF Spec

(* Whatever fails, dies or restarts, and whatever the firewall manager     *)
(* does to dnsmasq meanwhile: no restart that is owed is forgotten.        *)
THEOREM RestartsAreRemembered == Spec => []NoRestartForgotten
  BY DNSInvHolds, PTL DEF DNSInv

(* An operation of the DNS manager that reported success is in force.      *)
THEOREM DNSIsInForce == Spec => []DNSTakesEffect
  BY DNSInvHolds, PTL DEF DNSInv

-----------------------------------------------------------------------------
(* The firewall manager.  RoutingSound fails only while Apply is between   *)
(* writing the rules file and adding the rule, or Disable before deleting  *)
(* the table; TargetsSound only between the snippet and the reload.        *)
FWInv ==
  /\ fwDone => fwPC = "idle"
  /\ fwPC \in {"rules", "cleanup", "load", "route", "rule"} => fwWant \in Policies
  /\ fwPC \in {"unroute", "unload"} => fwWant = "none"
  /\ fwPC \in {"cleanup", "load", "route", "rule"} => rulesFile = fwWant
  /\ fwPC \in {"route", "rule"} => table = fwWant
  /\ fwPC = "rule" => route
  /\ fwPC \in {"targets", "reload"} =>
       IF fwWant = "none" THEN table = "none" ELSE table # "none" /\ rulesFile = fwWant
  /\ fwPC = "reload" => nftSnippet = Targets
  /\ fwPC \in {"idle", "rules", "targets", "reload"} /\ ~lapsed => RoutingSound
  /\ fwPC # "reload" /\ ~lapsed => TargetsSound
  /\ fwDone /\ ~lapsed /\ Targets # "none" => nftSnippet = Targets
  /\ fwDone /\ ~lapsed => table = fwWant /\ (fwWant # "none" => route /\ rule)

LEMMA FWInvInit == Init => FWInv
  BY PoliciesAssumption
  DEF Init, Fresh, FWInit, Loaded, FWInv, RoutingSound, TargetsSound, Targets

LEMMA FWInvUndisturbed ==
  ASSUME FWInv, UNCHANGED <<fwVars, nftSnippet>>,
         dnsmasq' = Loaded' \/ dnsmasq' = dnsmasq \/ dnsmasq' = Down
  PROVE  FWInv'
  BY DEF FWInv, RoutingSound, TargetsSound, Targets, fwVars, kernelVars, opVars, Loaded, Down

(* Stopping short is always recorded for what it leaves behind.            *)
LEMMA FWInvStopped == ASSUME FWStop PROVE FWInv'
  BY DEF FWStop, FWInv, Sound

(* Succeeding leaves sound evidence behind, or what lapsed stays lapsed.    *)
LEMMA FWInvSucceeded ==
  ASSUME FWInv, FWSucceed, fwPC \in {"targets", "reload"},
         UNCHANGED <<rulesFile, table, route, rule, nftSnippet>>,
         ~lapsed => TargetsSound', Targets # "none" => nftSnippet = Targets
  PROVE  FWInv'
<1>1. fwPC' = "idle" /\ fwWant' = fwWant /\ lapsed' = (lapsed /\ ~Sound') BY DEF FWSucceed
<1>2. Targets' = Targets BY <1>1 DEF Targets
<1>3. ~lapsed' => RoutingSound' /\ TargetsSound'
  BY <1>1 DEF FWInv, RoutingSound, Sound
<1>4. ~lapsed' => table' = fwWant' /\ (fwWant' # "none" => route' /\ rule')
  <2>1. CASE fwWant = "none" BY <1>1, <2>1 DEF FWInv
  <2>2. CASE fwWant # "none"
    <3>1. table # "none" /\ rulesFile = fwWant BY <2>2 DEF FWInv
    <3> QED BY <1>1, <1>3, <2>2, <3>1 DEF RoutingSound
  <2> QED BY <2>1, <2>2
<1> QED BY <1>1, <1>2, <1>3, <1>4 DEF FWInv

LEMMA FWInvNext == TypeOK /\ FWInv /\ [Next]_vars => FWInv'
<1> SUFFICES ASSUME TypeOK, FWInv, [Next]_vars PROVE FWInv'
  OBVIOUS
<1>1. CASE UNCHANGED vars
  BY <1>1, FWInvUndisturbed DEF vars, dnsmasqVars
<1>2. CASE DNSNext /\ UNCHANGED fwVars
  BY <1>2, FWInvUndisturbed
  DEF DNSNext, DNSStart, MarkRestartPending, WriteDNSSnippet, RestartForDNS, UnmarkRestart,
      RestartSucceeds, RestartFails, Loaded, dnsmasqVars
<1>3. CASE FWNext /\ UNCHANGED dnsVars
  <2>0. CASE FWStop BY <2>0, FWInvStopped
  <2> SUFFICES ASSUME ~FWStop PROVE FWInv' BY <2>0
  <2> USE DEF FWInv, FWGo, RoutingSound, TargetsSound, Targets, kernelVars, dnsmasqVars
  <2>1. CASE FWStartApply BY <2>1, PoliciesAssumption DEF FWStartApply
  <2>2. CASE WriteRulesFile BY <2>2 DEF WriteRulesFile
  <2>3. CASE CleanupBeforeLoad BY <2>3 DEF CleanupBeforeLoad
  <2>4. CASE LoadTable BY <2>4 DEF LoadTable
  <2>5. CASE AddRoute
    <3>1. ~route /\ route' = TRUE /\ FWGo("rule") /\ UNCHANGED <<table, rule>>
      BY <2>5 DEF AddRoute, UndoLoad
    <3> QED BY <2>5, <3>1 DEF AddRoute
  <2>6. CASE AddRule
    <3>1. ~rule /\ rule' = TRUE /\ FWGo("targets") /\ UNCHANGED <<table, route>>
      BY <2>6 DEF AddRule, UndoLoad
    <3> QED BY <2>6, <3>1, PoliciesAssumption DEF AddRule
  <2>7. CASE FWStartDisable BY <2>7 DEF FWStartDisable
  <2>8. CASE CleanupForDisable BY <2>8 DEF CleanupForDisable
  <2>9. CASE DeleteTable BY <2>9 DEF DeleteTable
  <2>10. CASE SyncTargets
    <3>1. CASE FWGo("reload") /\ nftSnippet' = Targets BY <2>10, <3>1 DEF SyncTargets
    <3>2. CASE nftSnippet = Targets /\ UNCHANGED nftSnippet /\ FWSucceed
      BY <2>10, <3>2, FWInvSucceeded DEF SyncTargets
    <3>3. CASE ~dnsmasq.up /\ Targets = "none" /\ UNCHANGED nftSnippet /\ FWSucceed
      BY <2>10, <3>3, FWInvSucceeded DEF SyncTargets
    <3> QED BY <2>10, <3>1, <3>2, <3>3 DEF SyncTargets
  <2>11. CASE ReloadForTargets
    <3>1. RestartSucceeds /\ FWSucceed BY <2>11 DEF ReloadForTargets
    <3> QED BY <2>11, <3>1, FWInvSucceeded DEF ReloadForTargets, RestartSucceeds, Loaded
  <2> QED BY <1>3, <2>1, <2>2, <2>3, <2>4, <2>5, <2>6, <2>7, <2>8, <2>9, <2>10, <2>11 DEF FWNext
<1>4. CASE (DNSMasqDies \/ DNSMasqRestart) /\ UNCHANGED <<dnsVars, fwVars>>
  BY <1>4, FWInvUndisturbed DEF DNSMasqDies, DNSMasqRestart, Loaded
<1>5. CASE Crash BY <1>5, FWInvStopped DEF Crash
<1>6. CASE Reboot BY <1>6, FWInvStopped DEF Reboot
<1> QED BY <1>1, <1>2, <1>3, <1>4, <1>5, <1>6 DEF Next

LEMMA FWInvHolds == Spec => []FWInv
  BY FWInvInit, FWInvNext, TypeCorrect, PTL DEF Spec

(* A firewall operation that reported success is in force as a whole,      *)
(* unless an earlier one was cut short and left misleading evidence.       *)
THEOREM FirewallIsInForce == Spec => []FirewallTakesEffect
<1>1. FWInv => FirewallTakesEffect
  BY DEF FWInv, FirewallTakesEffect, TargetsSound
<1> QED BY <1>1, FWInvHolds, PTL

(* Only an operation that was cut short leaves misleading evidence.        *)
THEOREM EvidenceIsSound == Spec => []OnlyFailuresMislead
<1>1. FWInv => OnlyFailuresMislead
  BY DEF FWInv, OnlyFailuresMislead, Sound
<1> QED BY <1>1, FWInvHolds, PTL
=============================================================================
