---------------------- MODULE RouteFluxService_proofs ----------------------
(***************************************************************************)
(* Theorems about RouteFluxService, for every catalogue and every set of   *)
(* profiles.  Those about what a step may do hold under every set of       *)
(* faults, crashes and reboots included; those about the state between two *)
(* operations name the faults they allow (SetupFaultsOnly,                 *)
(* TransportFaultsOnly): a teardown that fails or a process that dies      *)
(* leaves a route that only the next restoration removes.                  *)
(***************************************************************************)
EXTENDS RouteFluxService, TLAPS

(* What the ledger and the runtime satisfy at each point of an operation.  *)

\* A connection that is not Zapret's is a proxy connection to some node.
StateOK ==
    st.connected /\ EffectiveTransport(st) # "zapret"
      => ProxyRestorable(RestorePoint(st))

\* What a teardown has already stopped.
TeardownOK ==
    /\ op.pc = "xrayStop" => ~rt.dns
    /\ op.pc = "fwOff" => ~rt.dns /\ rt.xray = None
    /\ op.pc = "zapOff" => ProxyDown /\ op.after \in DownPCs
    /\ op.pc \in DownPCs => AllDown

\* What a selection has already put in place.
SelectionOK ==
    /\ op.pc \in SelectionPCs => op.sub \in Subs /\ op.node \in Nodes /\ op.catch # "test"
    /\ op.pc \in {"verify", "dns", "fw", "saveConnected", "saveCommit"} => rt.xray = Candidate
    /\ op.pc \in {"fw", "saveConnected", "saveCommit"} => rt.dns = cfg.profile.dns
    /\ op.pc \in {"saveConnected", "saveCommit"} => rt.fw = cfg.profile.fw

\* Where Zapret is started, and how far a Zapret test has come.
ZapretOK ==
    /\ op.pc \in {"zapOn", "saveZapret"} => ProxyDown \/ st.transport = "zapret"
    /\ op.pc \in {"zapTest", "saveTest"} => ProxyDown
    /\ op.pc \in {"saveZapret", "saveTest"} => rt.zapret = "on"
    /\ op.catch = "test" =>
         /\ op.pc \in {"dnsOff", "xrayStop", "fwOff", "zapTest", "saveTest"}
         /\ EffectiveTransport(st) # "zapret"
    /\ op.catch = "test" /\ op.pc \in {"dnsOff", "xrayStop", "fwOff"} => op.after = "zapTest"
    /\ op.catch = "test" => op.ret = "ok"
    /\ op.pc = "testFailed" => EffectiveTransport(st) # "zapret"
    /\ op.pc = "saveTestFailed" => ~st.connected
    /\ op.after \in {"zapOn", "zapTest"} \/ op.pc \in ZapretPCs
         => op.ret \notin {"commit", "commitSettings"}

OpOK == TeardownOK /\ SelectionOK /\ ZapretOK

IInv == TypeOK /\ StateOK /\ OpOK

-----------------------------------------------------------------------------
(* The values the operators of the service return.                         *)

USE NoneAssumption, CatalogAssumption, ServerAssumption, ProfilesAssumption,
    FaultsAssumption
USE DEF Results

LEMMA ApplyFailuresType ==
    ASSUME NEW x \in Outbound \cup {None}, NEW f \in XrayFiles, NEW c \in Outbound,
           NEW r \in ApplyFailures(x, f, c)
    PROVE  r[1] \in Outbound \cup {None} /\ r[2] \in XrayFiles
<1> DEFINE restored == Files(f.good, f.good)
           written  == Files(c, IF f.good = None THEN c ELSE f.good)
<1>1. restored \in XrayFiles /\ written \in XrayFiles BY DEF Files, XrayFiles
<1>2. f.good \in Outbound \cup {None} BY DEF XrayFiles
<1> HIDE DEF restored, written
<1>3. r \in {<<x, f>>, <<f.good, restored>>} \cup ({x, None, c} \X {restored, written})
  BY DEF ApplyFailures, restored, written
<1>4. QED BY <1>1, <1>2, <1>3

LEMMA RollbackFailuresType ==
    ASSUME NEW x \in Outbound \cup {None}, NEW f \in XrayFiles, NEW c \in Outbound \cup {None},
           NEW r \in RollbackFailures(x, f, c)
    PROVE  r[1] \in Outbound \cup {None} /\ r[2] \in XrayFiles
<1>1. Files(c, f.good) \in XrayFiles BY DEF Files, XrayFiles
<1>2. QED BY <1>1 DEF RollbackFailures

LEMMA ReturnedType ==
    ASSUME NEW r \in Results
    PROVE  Returned(r) \in Operation
BY DEF Returned, Operation, Results, PCs, DownPCs, SubOrNone, NodeOrNone, Modes

LEMMA GotoType ==
    ASSUME op \in Operation, NEW pc \in PCs
    PROVE  Goto(pc) \in Operation
BY DEF Goto, Operation

LEMMA TeardownType ==
    ASSUME NEW o \in Operation, NEW after \in DownPCs \cup {"zapOn", "zapTest"}
    PROVE  Teardown(o, after) \in Operation
BY DEF Teardown, Operation, PCs, TeardownPCs

LEMMA RaisedType ==
    ASSUME NEW o \in Operation
    PROVE  Raised(o) \in Operation
<1>1. CASE o.catch = "restore"
  <2>1. [o EXCEPT !.catch = "none"] \in Operation BY DEF Operation
  <2>2. QED BY <2>1, <1>1, TeardownType DEF Raised, DownPCs
<1>2. CASE o.catch = "test"
  BY <1>2 DEF Raised, Operation, PCs, ZapretPCs
<1>3. CASE o.catch \notin {"restore", "test"}
  BY <1>3, ReturnedType DEF Raised
<1>4. QED BY <1>1, <1>2, <1>3

LEMMA SelectingType ==
    ASSUME NEW o \in Operation, NEW s \in SubOrNone, NEW n \in NodeOrNone,
           NEW mode \in Modes, NEW persist \in BOOLEAN, NEW rollback \in BOOLEAN
    PROVE  Selecting(o, s, n, mode, persist, rollback) \in Operation
BY DEF Selecting, Operation, PCs, SelectionPCs

LEMMA SelectionFailedType ==
    ASSUME NEW o \in Operation
    PROVE  SelectionFailed(o) \in Operation
BY RaisedType, TeardownType DEF SelectionFailed, DownPCs

LEMMA FinishedType ==
    ASSUME NEW o \in Operation
    PROVE  Finished(o) \in Operation
<1>1. CASE o.ret \in {"ok", "fail"}
  BY <1>1, ReturnedType DEF Finished
<1>2. CASE o.ret \notin {"ok", "fail"}
  BY <1>2 DEF Finished, Operation, PCs, SelectionPCs
<1>3. QED BY <1>1, <1>2

LEMMA FallbackType ==
    ASSUME NEW o \in Operation, NEW c, NEW s \in SubOrNone
    PROVE  Fallback(o, c, s) \in Operation
<1> DEFINE f == [o EXCEPT !.sub = s]
<1>1. f \in Operation BY DEF Operation
<1>2. [f EXCEPT !.pc = "zapOn"] \in Operation
  BY <1>1 DEF Operation, PCs, ZapretPCs
<1>3. Teardown(f, "saveDirect") \in Operation /\ Teardown(f, "zapOn") \in Operation
  BY <1>1, TeardownType DEF DownPCs
<1> HIDE DEF f
<1>4. Fallback(o, c, s) \in {Teardown(f, "saveDirect"), Teardown(f, "zapOn"),
                            [f EXCEPT !.pc = "zapOn"]}
  BY DEF Fallback, f
<1>5. QED BY <1>2, <1>3, <1>4

LEMMA TestModeType ==
    ASSUME NEW o \in Operation, NEW c
    PROVE  TestMode(o, c) \in Operation
BY RaisedType, TeardownType DEF TestMode

LEMMA ReapplyType ==
    ASSUME NEW o \in Operation, NEW c, st \in State
    PROVE  Reapply(o, c) \in Operation
<1>1. Teardown([o EXCEPT !.catch = "none"], "done") \in Operation
  <2>1. [o EXCEPT !.catch = "none"] \in Operation BY DEF Operation
  <2>2. QED BY <2>1, TeardownType DEF DownPCs
<1>2. TestMode(o, c) \in Operation BY TestModeType
<1>3. Fallback(o, c, st.sub) \in Operation BY FallbackType DEF State
<1>4. Raised(o) \in Operation BY RaisedType
<1>5. Selecting(o, st.sub, st.node, st.mode, FALSE, FALSE) \in Operation
  BY SelectingType DEF State
<1>6. QED BY <1>1, <1>2, <1>3, <1>4, <1>5 DEF Reapply

LEMMA DownType ==
    ASSUME NEW s \in State, NEW sub \in SubOrNone, NEW node \in NodeOrNone, NEW mode \in Modes
    PROVE  Down(s, sub, node, mode) \in State
BY DEF Down, State, Selection, NoSelection, SubOrNone, NodeOrNone, Modes, Transports

LEMMA CallType == Call \in Operation
BY ReturnedType DEF Call

LEMMA CommitType ==
    ASSUME NEW s \in SubOrNone, NEW n \in NodeOrNone, st \in State,
           NEW ret \in {"commit", "commitSettings"}
    PROVE  Commit(s, n, ret) \in Operation
<1>1. [Call EXCEPT !.ret = ret] \in Operation BY CallType DEF Operation
<1>2. RollbackWanted \in BOOLEAN BY DEF RollbackWanted, State
<1>3. QED BY <1>1, <1>2, SelectingType DEF Commit, Modes

LEMMA ConnectedType ==
    ASSUME op \in Operation, st \in State
    PROVE  ConnectedState \in State
BY DEF ConnectedState, Operation, State, Selection, NoSelection, SubOrNone, NodeOrNone,
       Modes, Transports

LEMMA SaveStateType ==
    ASSUME TypeOK, NEW pc, NEW s \in State, NEW next \in Operation,
           SaveState(pc, s, next)
    PROVE  TypeOK'
BY DEF SaveState, TypeOK

LEMMA AnswerType ==
    ASSUME TypeOK, NEW r \in {"ok", "failed"}, Answer(r)
    PROVE  TypeOK'
BY ReturnedType DEF Answer, TypeOK

LEMMA PinNodeType ==
    ASSUME TypeOK, NEW s \in SubOrNone, NEW n \in NodeOrNone, PinNode(s, n)
    PROVE  TypeOK'
<1>a. st \in State BY DEF TypeOK
<1>1. CASE HasNode(s, n)
  <2>1. PICK m \in SameName(s, n) :
          op' = Selecting([Call EXCEPT !.ret = "settings"], s, m, "manual", TRUE, RollbackWanted)
    BY <1>1 DEF PinNode
  <2>2. s \in Subs BY <1>1 DEF HasNode, SubOrNone
  <2>3. m \in NodeOrNone BY <2>2 DEF SameName, TypeOK, NodeOrNone
  <2>4. [Call EXCEPT !.ret = "settings"] \in Operation BY CallType DEF Operation
  <2>5. RollbackWanted \in BOOLEAN BY <1>a DEF RollbackWanted, State
  <2>6. op' \in Operation BY <2>1, <2>3, <2>4, <2>5, SelectingType DEF Modes
  <2>7. QED BY <1>1, <2>6 DEF PinNode, TypeOK
<1>2. CASE ~HasNode(s, n)
  BY <1>2, AnswerType DEF PinNode
<1>3. QED BY <1>1, <1>2

LEMMA SelectAutoType ==
    ASSUME TypeOK, NEW s \in SubOrNone, SelectAuto(s)
    PROVE  TypeOK'
<1>a. st \in State BY DEF TypeOK
<1>1. CASE ~Stored(s)
  BY <1>1, AnswerType DEF SelectAuto
<1>2. CASE Stored(s) /\ ChooseNode(s)
  <2>1. s \in Subs BY <1>2 DEF Stored, SubOrNone
  <2>2. PICK n \in subs[s] : op' = Commit(s, n, "commitSettings")
    BY <1>2 DEF ChooseNode
  <2>3. n \in NodeOrNone BY <2>1 DEF TypeOK, NodeOrNone
  <2>4. op' \in Operation BY <2>2, <2>3, <1>a, CommitType
  <2>5. QED BY <1>2, <2>4 DEF ChooseNode, TypeOK
<1>3. CASE Stored(s) /\ ChooseNone(s) /\ cfg.profile.zapret
  <2>1. [Call EXCEPT !.mode = "auto", !.ret = "settings"] \in Operation
    BY CallType DEF Operation, Modes
  <2>2. op' \in Operation BY <1>3, <2>1, FallbackType DEF ChooseNone
  <2>3. QED BY <1>3, <2>2 DEF ChooseNone, TypeOK
<1>4. CASE Stored(s) /\ ChooseNone(s) /\ ~cfg.profile.zapret
  <2>1. [st EXCEPT !.sub = s, !.mode = "auto"] \in State BY <1>a DEF State, Modes
  <2>2. QED BY <1>4, <2>1, ReturnedType DEF ChooseNone, TypeOK
<1>5. QED BY <1>1, <1>2, <1>3, <1>4 DEF SelectAuto

LEMMA StoreNodesType ==
    ASSUME TypeOK, NEW s \in Subs, NEW ns \in SUBSET Nodes, NEW next \in Operation,
           StoreNodes(s, ns, next)
    PROVE  TypeOK'
BY AnswerType DEF StoreNodes, TypeOK

LEMMA RemoveType ==
    ASSUME TypeOK, NEW active \in BOOLEAN, NEW s \in SubOrNone, NEW n \in NodeOrNone,
           Remove(active, s, n) \/ RemoveUnread(s, n)
    PROVE  TypeOK'
<1>1. [Call EXCEPT !.sub = s, !.node = n] \in Operation BY CallType DEF Operation
<1>2. Teardown([Call EXCEPT !.sub = s, !.node = n], "saveSubs") \in Operation
  BY <1>1, TeardownType DEF DownPCs
<1>3. Removed(s, n) \in [Subs -> SUBSET Nodes] BY DEF Removed, TypeOK
<1>4. QED BY <1>2, <1>3, ReturnedType, AnswerType
          DEF Remove, RemoveUnread, StoreRemoved, TypeOK

LEMMA SaveProfileType ==
    ASSUME TypeOK, NEW p, NEW next \in Operation, NEW otherwise \in Results,
           SaveProfile(p, next, otherwise)
    PROVE  TypeOK'
<1>1. cfg' \in Settings BY DEF SaveProfile, TypeOK, Settings
<1>2. op' \in Operation BY ReturnedType DEF SaveProfile
<1>3. QED BY <1>1, <1>2 DEF SaveProfile, TypeOK

-----------------------------------------------------------------------------
(* Type correctness.                                                       *)

\* Every step of an operation keeps the types; an applied candidate is an
\* outbound because the selection that chose it named a node.
LEMMA StepType == TypeOK /\ SelectionOK /\ Step => TypeOK'
<1> SUFFICES ASSUME TypeOK, SelectionOK, Step PROVE TypeOK'
  OBVIOUS
<1>a. op \in Operation /\ st \in State
  BY DEF TypeOK
<1>1. CASE StopDNS
  BY <1>1, GotoType DEF TypeOK, StopDNS, Runtime, PCs, TeardownPCs
<1>2. CASE StopDNSFails
  BY <1>2, RaisedType DEF TypeOK, StopDNSFails, Runtime
<1>3. CASE StopXray
  BY <1>3, GotoType DEF TypeOK, StopXray, Runtime, PCs, TeardownPCs
<1>4. CASE StopXrayFails
  BY <1>4, RaisedType DEF TypeOK, StopXrayFails, Runtime
<1>5. CASE StopFirewall
  <2>1. op.after \in PCs BY <1>a DEF Operation, PCs, ZapretPCs
  <2>2. QED BY <1>5, <2>1, GotoType DEF TypeOK, StopFirewall, Runtime, PCs, TeardownPCs
<1>6. CASE StopFirewallFails
  BY <1>6, RaisedType DEF TypeOK, StopFirewallFails, Runtime
<1>7. CASE StopZapret
  <2>1. op.after \in PCs BY <1>a DEF Operation, PCs, ZapretPCs
  <2>2. QED BY <1>7, <2>1, GotoType DEF TypeOK, StopZapret, Runtime
<1>8. CASE StopZapretFails
  BY <1>8, RaisedType DEF TypeOK, StopZapretFails, DisableZapretFails, Runtime
<1>9. CASE TeardownDone
  BY <1>9, ReturnedType DEF TypeOK, TeardownDone
<1>10. CASE LeaveZapret
  <2>0. conf.good \in Outbound \cup {None} BY DEF TypeOK, XrayFiles
  <2>1. op' \in Operation BY <1>10, <2>0 DEF TypeOK, LeaveZapret, Operation, PCs, SelectionPCs
  <2>2. rt' \in Runtime BY <1>10 DEF TypeOK, LeaveZapret, Runtime
  <2>3. QED BY <1>10, <2>1, <2>2 DEF TypeOK, LeaveZapret
<1>11. CASE PrepareFails
  BY <1>11, RaisedType DEF TypeOK, PrepareFails
<1>12. CASE LeaveZapretFails
  BY <1>12, RaisedType DEF TypeOK, LeaveZapretFails, DisableZapretFails, Runtime
<1>13. CASE ApplyXray
  <2>1. Candidate \in Outbound
    BY <1>13 DEF ApplyXray, SelectionOK, SelectionPCs, Candidate, Outbound
  <2>2. Files(Candidate, Candidate) \in XrayFiles BY <2>1 DEF Files, XrayFiles
  <2>3. QED BY <1>13, <2>1, <2>2, GotoType DEF TypeOK, ApplyXray, Runtime, PCs, SelectionPCs
<1>14. CASE ApplyXrayFails
  <2>1. Candidate \in Outbound
    BY <1>14 DEF ApplyXrayFails, SelectionOK, SelectionPCs, Candidate, Outbound
  <2>2. PICK r \in ApplyFailures(rt.xray, conf, Candidate) :
          rt' = [rt EXCEPT !.xray = r[1]] /\ conf' = r[2]
    BY <1>14 DEF ApplyXrayFails
  <2>3. r[1] \in Outbound \cup {None} /\ r[2] \in XrayFiles
    BY <2>1, ApplyFailuresType DEF TypeOK, Runtime
  <2>4. rt' \in Runtime /\ conf' \in XrayFiles
    BY <2>2, <2>3 DEF TypeOK, Runtime
  <2>5. QED BY <1>14, <2>4, SelectionFailedType DEF TypeOK, ApplyXrayFails
<1>15. CASE VerifyXray
  BY <1>15, GotoType DEF TypeOK, VerifyXray, PCs, SelectionPCs
<1>16. CASE VerifyXrayFails
  BY <1>16, GotoType DEF TypeOK, VerifyXrayFails, Runtime, PCs, SelectionPCs
<1>17. CASE RollbackXray
  <2>1. op.snap \in Outbound \cup {None} BY <1>a DEF Operation
  <2>2. Files(op.snap, op.snap) \in XrayFiles BY <2>1 DEF Files, XrayFiles
  <2>3. rt' \in Runtime BY <1>17, <2>1 DEF RollbackXray, TypeOK, Runtime
  <2>4. QED BY <1>17, <2>2, <2>3, RaisedType DEF TypeOK, RollbackXray
<1>18. CASE RollbackXrayFails
  <2>1. op.snap \in Outbound \cup {None} BY <1>a DEF Operation
  <2>2. PICK r \in RollbackFailures(rt.xray, conf, op.snap) :
          rt' = [rt EXCEPT !.xray = r[1]] /\ conf' = r[2]
    BY <1>18 DEF RollbackXrayFails
  <2>3. r[1] \in Outbound \cup {None} /\ r[2] \in XrayFiles
    BY <2>1, RollbackFailuresType DEF TypeOK, Runtime
  <2>4. rt' \in Runtime /\ conf' \in XrayFiles BY <2>2, <2>3 DEF TypeOK, Runtime
  <2>5. QED BY <1>18, <2>4, GotoType DEF TypeOK, RollbackXrayFails, PCs, SelectionPCs
<1>19. CASE SaveFailedHealth
  BY <1>19, SelectionFailedType DEF TypeOK, SaveFailedHealth
<1>20. CASE SaveFailedHealthFails
  BY <1>20, RaisedType DEF TypeOK, SaveFailedHealthFails
<1>21. CASE ApplyDNS
  BY <1>21, GotoType DEF TypeOK, ApplyDNS, Runtime, Settings, Profile, PCs, SelectionPCs
<1>22. CASE ApplyDNSFails
  BY <1>22, SelectionFailedType DEF TypeOK, ApplyDNSFails, Runtime, Settings, Profile
<1>23. CASE ApplyFirewall
  BY <1>23, GotoType DEF TypeOK, ApplyFirewall, Runtime, Settings, Profile, PCs, SelectionPCs
<1>24. CASE ApplyFirewallFails
  BY <1>24, SelectionFailedType DEF TypeOK, ApplyFirewallFails, Runtime, Settings, Profile
<1>25. CASE SaveStateFails
  BY <1>25, RaisedType DEF TypeOK, SaveStateFails
<1>26. CASE SaveConnected
  BY <1>26, <1>a, ConnectedType, FinishedType, SaveStateType DEF SaveConnected
<1>27. CASE SaveCommit
  <2>1. [op EXCEPT !.ret = IF @ = "commitSettings" THEN "settings" ELSE "ok"] \in Operation
    BY <1>a DEF Operation
  <2>2. QED BY <1>27, <2>1, <1>a, ConnectedType, FinishedType, SaveStateType DEF SaveCommit
<1>28. CASE SaveZapret
  <2>1. [st EXCEPT !.sub = op.sub, !.mode = "auto", !.connected = TRUE,
                   !.transport = "zapret", !.test = FALSE, !.restore = NoSelection] \in State
    BY <1>a DEF Operation, State, Selection, NoSelection, SubOrNone, NodeOrNone, Modes,
                Transports
  <2>2. QED BY <1>28, <2>1, <1>a, FinishedType, SaveStateType DEF SaveZapret
<1>29. CASE SaveTest
  <2>1. RestorePoint(st) \in Selection
    BY <1>a DEF RestorePoint, EffectiveTransport, State, Selection, Transports
  <2>2. [st EXCEPT !.connected = TRUE, !.transport = "zapret", !.test = TRUE,
                   !.restore = IF st.test THEN @ ELSE RestorePoint(st)] \in State
    BY <1>a, <2>1 DEF State, Transports
  <2>3. QED BY <1>29, <2>2, <1>a, FinishedType, SaveStateType DEF SaveTest
<1>30. CASE SaveDisconnected
  <2>1. [op EXCEPT !.pc = "saveSettings", !.mode = "disconnected"] \in Operation
    BY <1>a DEF Operation, PCs, Modes
  <2>2. Down(st, None, None, "disconnected") \in State
    BY <1>a, DownType DEF SubOrNone, NodeOrNone, Modes
  <2>3. QED BY <1>30, <2>1, <2>2, SaveStateType DEF SaveDisconnected
<1>31. CASE SaveDirect
  <2>1. Down(st, op.sub, st.node, "auto") \in State
    BY <1>a, DownType DEF Operation, State, Modes
  <2>2. QED BY <1>31, <1>a, <2>1, RaisedType, SaveStateType DEF SaveDirect
<1>32. CASE SaveFailed
  <2>1. Down(st, op.sub, op.node, op.mode) \in State
    BY <1>a, DownType DEF Operation
  <2>2. QED BY <1>32, <1>a, <2>1, RaisedType, SaveStateType DEF SaveFailed
<1>33. CASE SaveDropped
  <2>1. Down(st, st.sub, st.node, "auto") \in State
    BY <1>a, DownType DEF State, Modes
  <2>2. QED BY <1>33, <2>1, ReturnedType, SaveStateType DEF SaveDropped
<1>34. CASE SaveDroppedAgainFails
  <2>1. Down(st, st.sub, st.node, "auto") \in State
    BY <1>a, DownType DEF State, Modes
  <2>2. QED BY <1>34, <2>1, ReturnedType, SaveStateType DEF SaveDroppedAgainFails
<1>b. Down(st, st.sub, st.node, st.mode) \in State
  BY <1>a, DownType DEF State
<1>35. CASE SaveRestoreFailed
  BY <1>35, <1>b, ReturnedType, SaveStateType DEF SaveRestoreFailed
<1>36. CASE SaveZapretOff
  BY <1>36, <1>b, ReturnedType, SaveStateType DEF SaveZapretOff
<1>37. CASE SaveTestFailed
  BY <1>37, <1>b, ReturnedType, SaveStateType DEF SaveTestFailed
<1>38. CASE SaveTestStopped
  <2>1. Down(st, st.restore.sub, st.restore.node, st.restore.mode) \in State
    BY <1>a, DownType DEF State, Selection
  <2>2. QED BY <1>38, <2>1, ReturnedType, SaveStateType DEF SaveTestStopped
<1>39. CASE SaveMode
  <2>1. cfg' \in Settings BY <1>39 DEF TypeOK, SaveMode, Settings, Operation
  <2>2. QED BY <1>39, <2>1, ReturnedType DEF TypeOK, SaveMode
<1>40. CASE SaveModeFails
  BY <1>40, ReturnedType DEF TypeOK, SaveModeFails
<1>41. CASE SaveSubscriptions
  BY <1>41, GotoType DEF TypeOK, SaveSubscriptions, Removed, PCs, DownPCs
<1>42. CASE SaveSubscriptionsFails
  BY <1>42, RaisedType DEF TypeOK, SaveSubscriptionsFails
<1>43. CASE ApplyZapret
  BY <1>43, GotoType DEF TypeOK, ApplyZapret, Runtime, PCs, ZapretPCs
<1>44. CASE ApplyZapretFails
  <2>1. op' \in Operation
    BY <1>44, <1>a, RaisedType, TeardownType DEF ApplyZapretFails, DownPCs
  <2>2. QED BY <1>44, <2>1 DEF TypeOK, ApplyZapretFails, Runtime
<1>45. CASE RestoreRoute
  <2>1. [op EXCEPT !.ret = "fail"] \in Operation BY <1>a DEF Operation
  <2>2. Selecting([op EXCEPT !.ret = "fail"], st.sub, st.node, st.mode, TRUE, FALSE)
          \in Operation
    BY <2>1, <1>a, SelectingType DEF State
  <2>3. QED BY <1>45, <2>2, ReturnedType DEF TypeOK, RestoreRoute
<1>46. CASE AbandonTest
  BY <1>46, GotoType DEF TypeOK, AbandonTest, DisableZapretFails, Runtime, PCs
<1>47. CASE Reconnect
  BY <1>47, <1>a, PinNodeType, SelectAutoType DEF Reconnect, State
<1>48. QED
  BY <1>1, <1>2, <1>3, <1>4, <1>5, <1>6, <1>7, <1>8, <1>9, <1>10, <1>11, <1>12, <1>13, <1>14, <1>15, <1>16, <1>17, <1>18, <1>19, <1>20, <1>21, <1>22, <1>23, <1>24, <1>25, <1>26, <1>27, <1>28, <1>29, <1>30, <1>31, <1>32, <1>33, <1>34, <1>35, <1>36, <1>37, <1>38, <1>39, <1>40, <1>41, <1>42, <1>43, <1>44, <1>45, <1>46, <1>47 DEF Step

\* So does every operation's first step.
LEMMA HandlerType == TypeOK /\ Handler => TypeOK'
<1> SUFFICES ASSUME TypeOK, Handler PROVE TypeOK'
  OBVIOUS
<1>a. op \in Operation /\ st \in State /\ Call \in Operation
  BY CallType DEF TypeOK
<1>1. ASSUME NEW s \in Subs, NEW ns \in (SUBSET Catalog[s]) \ {{}}, AddSubscription(s, ns)
      PROVE  TypeOK'
  <2>1. ns \subseteq Nodes /\ subs[s] \subseteq Nodes BY DEF TypeOK
  <2>2. QED BY <1>1, <2>1, ReturnedType, StoreNodesType DEF AddSubscription
<1>2. ASSUME NEW s \in Subs, NEW ns \in (SUBSET Catalog[s]) \ {{}}, RefreshSubscription(s, ns)
      PROVE  TypeOK'
  <2>1. RefreshedNodes(s, ns) \subseteq Nodes BY DEF TypeOK, RefreshedNodes
  <2>2. QED BY <1>2, <2>1, ReturnedType, StoreNodesType DEF RefreshSubscription
<1>3. ASSUME NEW s \in Subs, RemoveSubscription(s) PROVE TypeOK'
  BY <1>3, RemoveType DEF RemoveSubscription, SubOrNone, NodeOrNone
<1>4. ASSUME NEW s \in Subs, ConnectAuto(s) PROVE TypeOK'
  BY <1>4, SelectAutoType DEF ConnectAuto, SubOrNone
<1>5. ASSUME NEW s \in Subs, NEW n \in Nodes, RemoveSubscriptionNode(s, n) PROVE TypeOK'
  BY <1>5, RemoveType DEF RemoveSubscriptionNode, SubOrNone, NodeOrNone
<1>6. ASSUME NEW s \in Subs, NEW n \in Nodes, ConnectManual(s, n) PROVE TypeOK'
  BY <1>6, PinNodeType DEF ConnectManual, SubOrNone, NodeOrNone
<1>7. CASE RemoveAllSubscriptions
  BY <1>7, RemoveType DEF RemoveAllSubscriptions, SubOrNone, NodeOrNone
<1>8. CASE Disconnect
  BY <1>8, <1>a, TeardownType DEF Disconnect, DownPCs, TypeOK
<1>9. ASSUME NEW ns \in (SUBSET Nodes) \ {{}}, RefreshAndReconnect(ns) PROVE TypeOK'
  <2>1. CASE ~Stored(st.sub)
    BY <1>9, <2>1, AnswerType DEF RefreshAndReconnect
  <2>2. CASE Stored(st.sub)
    <3>1. st.sub \in Subs BY <1>a, <2>2 DEF Stored, State, SubOrNone
    <3>2. RefreshedNodes(st.sub, ns) \subseteq Nodes BY <3>1 DEF TypeOK, RefreshedNodes
    <3>3. [Call EXCEPT !.pc = "reconnect"] \in Operation BY <1>a DEF Operation, PCs
    <3>4. QED BY <1>9, <2>2, <3>1, <3>2, <3>3, ReturnedType, StoreNodesType
                DEF RefreshAndReconnect
  <2>3. QED BY <2>1, <2>2
<1>10. CASE HealthCheck
  <2>1. CASE ~Stored(st.sub)
    BY <1>10, <2>1, ReturnedType DEF HealthCheck, TypeOK
  <2>2. CASE Stored(st.sub)
    <3>1. st.sub \in Subs BY <1>a, <2>2 DEF Stored, State, SubOrNone
    <3>2. \A n \in subs[st.sub] : Commit(st.sub, n, "commit") \in Operation
      BY <1>a, <3>1, CommitType DEF TypeOK, SubOrNone, NodeOrNone
    <3>3. Fallback(Call, cfg, st.sub) \in Operation
      BY <1>a, <3>1, FallbackType DEF SubOrNone
    <3>4. Teardown(Call, "saveDropped") \in Operation
      BY <1>a, TeardownType DEF DownPCs
    <3>5. op' \in {Commit(st.sub, n, "commit") : n \in subs[st.sub]}
                    \cup {Fallback(Call, cfg, st.sub), Teardown(Call, "saveDropped")}
      BY <1>10, <2>2 DEF HealthCheck
    <3>6. op' \in Operation BY <3>2, <3>3, <3>4, <3>5
    <3>7. QED BY <1>10, <3>6 DEF HealthCheck, TypeOK
  <2>3. QED BY <2>1, <2>2
<1>11. CASE RestoreRuntime
  <2>1. [Call EXCEPT !.catch = "restore", !.mode = st.mode,
                     !.ret = IF st.test THEN "ok" ELSE "settings"] \in Operation
    <3>1. st.mode \in Modes BY <1>a DEF State
    <3> DEFINE r == IF st.test THEN "ok" ELSE "settings"
    <3>2. r \in {"ok", "settings"} OBVIOUS
    <3> HIDE DEF r
    <3>3. [Call EXCEPT !.catch = "restore", !.mode = st.mode, !.ret = r] \in Operation
      BY <1>a, <3>1, <3>2 DEF Operation
    <3>4. QED BY <3>3 DEF r
  <2>2. op' \in Operation BY <1>11, <1>a, <2>1, ReapplyType DEF RestoreRuntime
  <2>3. QED BY <1>11, <2>2 DEF RestoreRuntime, TypeOK
<1>12. CASE Refused
  BY <1>12, AnswerType DEF Refused
<1>13. CASE StartZapretTest
  <2>1. [Call EXCEPT !.catch = "test"] \in Operation BY <1>a DEF Operation
  <2>2. op' \in Operation BY <1>13, <2>1, ReturnedType, TestModeType DEF StartZapretTest
  <2>3. QED BY <1>13, <2>2 DEF StartZapretTest, TypeOK
<1>14. CASE StopZapretTest
  <2>1. st.restore \in Selection BY <1>a DEF State
  <2>2. Selecting(Call, st.restore.sub, st.restore.node, st.restore.mode, TRUE, FALSE)
          \in Operation
    BY <1>a, <2>1, SelectingType DEF Selection
  <2>3. Teardown(Call, "saveTestStopped") \in Operation
    BY <1>a, TeardownType DEF DownPCs
  <2>4. op' \in Operation BY <1>14, <2>2, <2>3, ReturnedType DEF StopZapretTest
  <2>5. QED BY <1>14, <2>4 DEF StopZapretTest, TypeOK
<1>b. Teardown(Call, "saveZapretOff") \in Operation
  BY <1>a, TeardownType DEF DownPCs
<1>15. ASSUME NEW b \in BOOLEAN, SetZapretEnabled(b) PROVE TypeOK'
  BY <1>15, <1>b, ReturnedType, SaveProfileType DEF SetZapretEnabled
<1>16. ASSUME NEW b \in BOOLEAN, SetAutoMode(b) PROVE TypeOK'
  <2>0. ASSUME NEW m \in Modes, SaveAutoMode(b, m) PROVE TypeOK'
    <3>1. cfg' \in Settings BY <2>0 DEF SaveAutoMode, TypeOK, Settings, Modes
    <3>2. QED BY <2>0, <3>1, ReturnedType DEF SaveAutoMode, TypeOK
  <2>u. CASE SaveAutoMode(b, cfg.mode)
    BY <2>0, <2>u DEF TypeOK, Settings
  <2>1. CASE b /\ st.connected /\ st.sub # None
    BY <1>16, <2>1, <2>u, <1>a, SelectAutoType DEF SetAutoMode, State
  <2>2. CASE ~b /\ st.connected /\ st.mode = "auto" /\ st.sub # None /\ st.node # None
    BY <1>16, <2>2, <2>u, <1>a, PinNodeType DEF SetAutoMode, State
  <2>3. CASE ~(b /\ st.connected /\ st.sub # None)
             /\ ~(~b /\ st.connected /\ st.mode = "auto" /\ st.sub # None /\ st.node # None)
    BY <1>16, <1>a, <2>0, <2>3 DEF SetAutoMode, TypeOK, Settings, State
  <2>4. QED BY <2>1, <2>2, <2>3
<1>17. ASSUME NEW sel \in Selectors, SetZapretSelectors(sel) PROVE TypeOK'
  <2> DEFINE p == [cfg.profile EXCEPT !.selectors = sel, !.zapret = @ /\ sel # "none"]
  <2>1. TestMode(Call, With(p)) \in Operation BY <1>a, TestModeType
  <2>2. Fallback(Call, With(p), st.sub) \in Operation BY <1>a, FallbackType DEF State
  <2>3. PICK next \in {Returned("ok"), Returned("failed"), Teardown(Call, "saveZapretOff"),
                       TestMode(Call, With(p)), Fallback(Call, With(p), st.sub)} :
          SaveProfile(p, next, "ok")
    BY <1>17 DEF SetZapretSelectors
  <2>4. next \in Operation BY <1>b, <2>1, <2>2, <2>3, ReturnedType
  <2>5. QED BY <2>3, <2>4, SaveProfileType
<1>18. ASSUME NEW d \in BOOLEAN, NEW f \in BOOLEAN, SetRouting(d, f) PROVE TypeOK'
  BY <1>18, <1>a, ReapplyType, SaveProfileType DEF SetRouting
<1>19. QED
  BY <1>1, <1>2, <1>3, <1>4, <1>5, <1>6, <1>7, <1>8, <1>9, <1>10, <1>11, <1>12, <1>13, <1>14, <1>15, <1>16, <1>17, <1>18 DEF Handler
-----------------------------------------------------------------------------
(* The invariant is inductive.                                             *)

\* A point of an operation that asks nothing of the runtime.
Entry(o) ==
    /\ o.catch # "test"
    /\ \/ o.pc \in {"idle", "dnsOff", "reconnect", "saveSettings"}
       \/ o.pc = "leaveZapret" /\ o.sub \in Subs /\ o.node \in Nodes
    /\ o.after \in {"zapOn", "zapTest"} => o.ret \notin {"commit", "commitSettings"}

LEMMA EntryOK == Entry(op') => OpOK'
BY DEF Entry, OpOK, TeardownOK, SelectionOK, ZapretOK, DownPCs, SelectionPCs, ZapretPCs

LEMMA EffectiveZapret ==
    ASSUME NEW s, EffectiveTransport(s) = "zapret"
    PROVE  s.transport = "zapret"
BY DEF EffectiveTransport

LEMMA ReturnedEntry == \A r : Entry(Returned(r))
BY DEF Entry, Returned

LEMMA TeardownEntry ==
    ASSUME NEW o \in Operation, o.catch # "test", NEW after \in DownPCs
    PROVE  Entry(Teardown(o, after))
BY DEF Entry, Teardown, Operation, DownPCs

LEMMA RaisedEntry ==
    ASSUME NEW o \in Operation, o.catch # "test"
    PROVE  Entry(Raised(o))
<1>1. CASE o.catch = "restore"
  <2>1. [o EXCEPT !.catch = "none"] \in Operation BY DEF Operation
  <2>2. [o EXCEPT !.catch = "none"].catch # "test" BY DEF Operation
  <2>3. QED BY <1>1, <2>1, <2>2, TeardownEntry DEF Raised, DownPCs
<1>2. CASE o.catch # "restore"
  BY <1>2, ReturnedEntry DEF Raised
<1>3. QED BY <1>1, <1>2

LEMMA SelectingEntry ==
    ASSUME NEW o \in Operation, o.catch # "test",
           o.after \in {"zapOn", "zapTest"} => o.ret \notin {"commit", "commitSettings"},
           NEW s \in Subs, NEW n \in Nodes, NEW mode, NEW persist, NEW rollback
    PROVE  Entry(Selecting(o, s, n, mode, persist, rollback))
BY DEF Entry, Selecting, Operation

LEMMA CommitEntry ==
    ASSUME NEW s \in Subs, NEW n \in Nodes, NEW ret \in {"commit", "commitSettings"}
    PROVE  Entry(Commit(s, n, ret))
<1>1. [Call EXCEPT !.ret = ret] \in Operation BY CallType DEF Operation
<1>2. /\ [Call EXCEPT !.ret = ret].catch = "none"
      /\ [Call EXCEPT !.ret = ret].after = "done"
  BY DEF Call, Returned
<1>3. QED BY <1>1, <1>2, SelectingEntry DEF Commit

\* An error of any step that leaves the ledger alone.
LEMMA RaisedOK ==
    ASSUME IInv, op' = Raised(op), st' = st
    PROVE  OpOK'
<1>a. op \in Operation BY DEF IInv, TypeOK
<1>1. CASE op.catch # "test"
  BY <1>a, <1>1, RaisedEntry, EntryOK
<1>2. CASE op.catch = "test"
  <2>1. op' = [op EXCEPT !.pc = "testFailed", !.catch = "none"] BY <1>2 DEF Raised
  <2>2. op'.pc = "testFailed" /\ op'.catch = "none" /\ op'.ret = "ok"
    BY <1>a, <1>2, <2>1 DEF Operation, IInv, OpOK, ZapretOK
  <2>3. EffectiveTransport(st)' # "zapret"
    BY <1>2 DEF IInv, OpOK, ZapretOK, EffectiveTransport
  <2>4. QED
    BY <2>2, <2>3 DEF OpOK, TeardownOK, SelectionOK, ZapretOK, DownPCs, SelectionPCs
<1>3. QED BY <1>1, <1>2

LEMMA SelectionFailedOK ==
    ASSUME IInv, op.pc \in SelectionPCs, op' = SelectionFailed(op)
    PROVE  OpOK'
<1>1. op \in Operation /\ op.catch # "test"
  BY DEF IInv, TypeOK, OpOK, SelectionOK
<1>2. Entry(SelectionFailed(op))
  BY <1>1, RaisedEntry, TeardownEntry DEF SelectionFailed, DownPCs
<1>3. QED BY <1>2, EntryOK

\* A successful return that has no second save before it.
LEMMA FinishedOK ==
    ASSUME NEW o \in Operation, o.catch # "test" \/ o.ret = "ok",
           o.ret \notin {"commit", "commitSettings"}, op' = Finished(o)
    PROVE  OpOK'
<1>1. CASE o.ret \in {"ok", "fail"}
  BY <1>1, ReturnedEntry, EntryOK DEF Finished
<1>2. CASE o.ret = "settings"
  <2>1. Entry(op') BY <1>2 DEF Finished, Entry, Operation
  <2>2. QED BY <2>1, EntryOK
<1>3. QED BY <1>1, <1>2 DEF Operation

LEMMA FallbackOK ==
    ASSUME NEW o \in Operation, o.catch # "test", NEW c, NEW s,
           o.ret \notin {"commit", "commitSettings"},
           op' = Fallback(o, c, s), st' = st, rt' = rt
    PROVE  OpOK'
<1> DEFINE f == [o EXCEPT !.sub = s]
<1>1. f.catch # "test" /\ f.ret \notin {"commit", "commitSettings"}
  BY DEF Operation
<1>2. CASE op' = Teardown(f, "saveDirect") \/ op' = Teardown(f, "zapOn")
  <2>1. Entry(op') BY <1>1, <1>2 DEF Entry, Teardown, Operation
  <2>2. QED BY <2>1, EntryOK
<1>3. CASE op' = [f EXCEPT !.pc = "zapOn"] /\ EffectiveTransport(st) = "zapret"
  <2>1. op'.pc = "zapOn" /\ op'.catch # "test" /\ op'.ret \notin {"commit", "commitSettings"}
    BY <1>1, <1>3 DEF Operation
  <2>2. st'.transport = "zapret" BY <1>3, EffectiveZapret
  <2>3. QED
    BY <2>1, <2>2 DEF OpOK, TeardownOK, SelectionOK, ZapretOK, DownPCs, SelectionPCs
<1>4. QED BY <1>2, <1>3 DEF Fallback

LEMMA TestModeOK ==
    ASSUME NEW o \in Operation, o.catch # "test" \/ EffectiveTransport(st) # "zapret",
           o.catch = "test" => o.ret = "ok",
           o.ret \notin {"commit", "commitSettings"}, NEW c,
           op' = TestMode(o, c), st' = st
    PROVE  OpOK'
<1>1. CASE c.profile.selectors # "domains" /\ o.catch # "test"
  BY <1>1, RaisedEntry, EntryOK DEF TestMode
<1>2. CASE c.profile.selectors # "domains" /\ o.catch = "test"
  <2>1. op'.pc = "testFailed" /\ op'.catch = "none" /\ op'.ret = "ok"
    BY <1>2 DEF TestMode, Raised, Operation
  <2>2. EffectiveTransport(st)' # "zapret" BY <1>2 DEF EffectiveTransport
  <2>3. QED
    BY <2>1, <2>2 DEF OpOK, TeardownOK, SelectionOK, ZapretOK, DownPCs, SelectionPCs
<1>3. CASE c.profile.selectors = "domains"
  <2>1. /\ op'.pc = "dnsOff" /\ op'.after = "zapTest"
        /\ op'.catch = o.catch /\ op'.ret = o.ret
    BY <1>3 DEF TestMode, Teardown, Operation
  <2>2. o.catch = "test" => EffectiveTransport(st)' # "zapret" BY DEF EffectiveTransport
  <2>3. QED
    BY <2>1, <2>2 DEF OpOK, TeardownOK, SelectionOK, ZapretOK, DownPCs, SelectionPCs,
                      ZapretPCs
<1>4. QED BY <1>1, <1>2, <1>3

LEMMA ReapplyOK ==
    ASSUME TypeOK, NEW o \in Operation, o.catch # "test", o.after = "done",
           o.ret \notin {"commit", "commitSettings"}, NEW c,
           op' = Reapply(o, c), st' = st, rt' = rt
    PROVE  OpOK'
<1>1. CASE op' = Teardown([o EXCEPT !.catch = "none"], "done")
  <2>1. [o EXCEPT !.catch = "none"] \in Operation BY DEF Operation
  <2>2. [o EXCEPT !.catch = "none"].catch # "test" BY DEF Operation
  <2>3. QED BY <1>1, <2>1, <2>2, TeardownEntry, EntryOK DEF DownPCs
<1>2. CASE op' = TestMode(o, c)
  BY <1>2, TestModeOK
<1>3. CASE op' = Fallback(o, c, st.sub)
  BY <1>3, FallbackOK
<1>4. CASE op' = Raised(o)
  BY <1>4, RaisedEntry, EntryOK
<1>5. CASE /\ HasNode(st.sub, st.node)
           /\ op' = Selecting(o, st.sub, st.node, st.mode, FALSE, FALSE)
  <2>1. st.sub \in Subs BY <1>5 DEF HasNode, TypeOK, State, SubOrNone
  <2>2. st.node \in Nodes BY <1>5, <2>1 DEF HasNode, TypeOK
  <2>3. o.after \in {"zapOn", "zapTest"} => o.ret \notin {"commit", "commitSettings"}
    OBVIOUS
  <2>4. Entry(Selecting(o, st.sub, st.node, st.mode, FALSE, FALSE))
    BY <2>1, <2>2, <2>3, SelectingEntry
  <2>5. QED BY <1>5, <2>4, EntryOK
<1>6. QED BY <1>1, <1>2, <1>3, <1>4, <1>5 DEF Reapply
LEMMA PinNodeOK ==
    ASSUME TypeOK, NEW s \in SubOrNone, NEW n, PinNode(s, n)
    PROVE  OpOK'
<1>1. CASE HasNode(s, n)
  <2>1. PICK m \in SameName(s, n) :
          op' = Selecting([Call EXCEPT !.ret = "settings"], s, m, "manual", TRUE, RollbackWanted)
    BY <1>1 DEF PinNode
  <2>2. s \in Subs BY <1>1 DEF HasNode, SubOrNone
  <2>3. m \in Nodes BY <2>2 DEF SameName, TypeOK
  <2>4. [Call EXCEPT !.ret = "settings"] \in Operation BY CallType DEF Operation
  <2>5. /\ [Call EXCEPT !.ret = "settings"].catch = "none"
        /\ [Call EXCEPT !.ret = "settings"].after = "done"
    BY DEF Call, Returned
  <2>6. Entry(op') BY <2>1, <2>2, <2>3, <2>4, <2>5, SelectingEntry
  <2>7. QED BY <2>6, EntryOK
<1>2. CASE ~HasNode(s, n)
  BY <1>2, ReturnedEntry, EntryOK DEF PinNode, Answer
<1>3. QED BY <1>1, <1>2

LEMMA SelectAutoOK ==
    ASSUME TypeOK, NEW s \in SubOrNone, SelectAuto(s)
    PROVE  OpOK'
<1>1. CASE ~Stored(s)
  BY <1>1, ReturnedEntry, EntryOK DEF SelectAuto, Answer
<1>2. CASE Stored(s) /\ ChooseNode(s)
  <2>1. s \in Subs BY <1>2 DEF Stored, SubOrNone
  <2>2. PICK n \in subs[s] : op' = Commit(s, n, "commitSettings")
    BY <1>2 DEF ChooseNode
  <2>3. n \in Nodes BY <2>1 DEF TypeOK
  <2>4. QED BY <2>1, <2>2, <2>3, CommitEntry, EntryOK
<1>3. CASE ChooseNone(s) /\ cfg.profile.zapret
  <2>1. [Call EXCEPT !.mode = "auto", !.ret = "settings"] \in Operation
    BY CallType DEF Operation, Modes
  <2>2. /\ [Call EXCEPT !.mode = "auto", !.ret = "settings"].catch = "none"
        /\ [Call EXCEPT !.mode = "auto", !.ret = "settings"].ret = "settings"
    BY DEF Call, Returned
  <2>3. QED BY <1>3, <2>1, <2>2, FallbackOK DEF ChooseNone
<1>4. CASE ChooseNone(s) /\ ~cfg.profile.zapret
  BY <1>4, ReturnedEntry, EntryOK DEF ChooseNone
<1>5. QED BY <1>1, <1>2, <1>3, <1>4 DEF SelectAuto

LEMMA RemoveOK ==
    ASSUME NEW active, NEW s \in SubOrNone, NEW n \in NodeOrNone,
           Remove(active, s, n) \/ RemoveUnread(s, n)
    PROVE  OpOK'
<1>1. [Call EXCEPT !.sub = s, !.node = n] \in Operation BY CallType DEF Operation
<1>2. [Call EXCEPT !.sub = s, !.node = n].catch = "none" BY DEF Call, Returned
<1>3. Entry(Teardown([Call EXCEPT !.sub = s, !.node = n], "saveSubs"))
  BY <1>1, <1>2, TeardownEntry DEF DownPCs
<1>4. QED BY <1>3, ReturnedEntry, EntryOK DEF Remove, RemoveUnread, StoreRemoved, Answer

LEMMA StoreNodesOK ==
    ASSUME NEW s, NEW ns, NEW next, Entry(next), StoreNodes(s, ns, next)
    PROVE  OpOK'
BY ReturnedEntry, EntryOK DEF StoreNodes, Answer

-----------------------------------------------------------------------------
LEMMA StepOpOK == IInv /\ Step => OpOK'
<1> SUFFICES ASSUME IInv, Step PROVE OpOK'
  OBVIOUS
<1>a. op \in Operation /\ st \in State /\ rt \in Runtime
  BY DEF IInv, TypeOK
<1>b. OpOK BY DEF IInv
<1>1. CASE StopDNS
  BY <1>a, <1>b, <1>1 DEF StopDNS, Goto, Operation, Runtime, OpOK, TeardownOK,
     SelectionOK, ZapretOK, DownPCs, SelectionPCs, ZapretPCs, EffectiveTransport
<1>2. CASE StopDNSFails
  BY <1>2, RaisedOK DEF StopDNSFails
<1>3. CASE StopXray
  BY <1>a, <1>b, <1>3 DEF StopXray, Goto, Operation, Runtime, OpOK, TeardownOK,
     SelectionOK, ZapretOK, DownPCs, SelectionPCs, ZapretPCs, EffectiveTransport
<1>4. CASE StopXrayFails
  BY <1>4, RaisedOK DEF StopXrayFails
<1>5. CASE StopFirewall
  BY <1>a, <1>b, <1>5 DEF StopFirewall, Goto, Operation, Runtime, OpOK, TeardownOK,
     SelectionOK, ZapretOK, ProxyDown, DownPCs, SelectionPCs, ZapretPCs, EffectiveTransport
<1>6. CASE StopFirewallFails
  BY <1>6, RaisedOK DEF StopFirewallFails
<1>7. CASE StopZapret
  BY <1>a, <1>b, <1>7 DEF StopZapret, Goto, Operation, Runtime, OpOK, TeardownOK,
     SelectionOK, ZapretOK, ProxyDown, AllDown, DownPCs, SelectionPCs, ZapretPCs, EffectiveTransport
<1>8. CASE StopZapretFails
  BY <1>8, RaisedOK DEF StopZapretFails
<1>9. CASE TeardownDone
  BY <1>9, ReturnedEntry, EntryOK DEF TeardownDone
<1>10. CASE LeaveZapret
  BY <1>a, <1>b, <1>10 DEF LeaveZapret, Goto, Operation, Runtime, OpOK, TeardownOK,
     SelectionOK, ZapretOK, DownPCs, SelectionPCs, ZapretPCs, EffectiveTransport
<1>11. CASE PrepareFails
  BY <1>11, RaisedOK DEF PrepareFails
<1>12. CASE LeaveZapretFails
  BY <1>12, RaisedOK DEF LeaveZapretFails
<1>13. CASE ApplyXray
  BY <1>a, <1>b, <1>13 DEF ApplyXray, Candidate, Goto, Operation, Runtime, OpOK, TeardownOK,
     SelectionOK, ZapretOK, DownPCs, SelectionPCs, ZapretPCs, EffectiveTransport
<1>14. CASE ApplyXrayFails
  BY <1>14, SelectionFailedOK DEF ApplyXrayFails, SelectionPCs
<1>15. CASE VerifyXray
  BY <1>a, <1>b, <1>15 DEF VerifyXray, Candidate, Goto, Operation, Runtime, OpOK, TeardownOK,
     SelectionOK, ZapretOK, DownPCs, SelectionPCs, ZapretPCs, EffectiveTransport
<1>16. CASE VerifyXrayFails
  BY <1>a, <1>b, <1>16 DEF VerifyXrayFails, Goto, Operation, Runtime, OpOK, TeardownOK,
     SelectionOK, ZapretOK, DownPCs, SelectionPCs, ZapretPCs, EffectiveTransport
<1>17. CASE RollbackXray
  BY <1>17, RaisedOK DEF RollbackXray
<1>18. CASE RollbackXrayFails
  BY <1>a, <1>b, <1>18 DEF RollbackXrayFails, Goto, Operation, Runtime, OpOK, TeardownOK,
     SelectionOK, ZapretOK, DownPCs, SelectionPCs, ZapretPCs, EffectiveTransport
<1>19. CASE SaveFailedHealth
  BY <1>19, SelectionFailedOK DEF SaveFailedHealth, SelectionPCs
<1>20. CASE SaveFailedHealthFails
  BY <1>20, RaisedOK DEF SaveFailedHealthFails
<1>21. CASE ApplyDNS
  BY <1>a, <1>b, <1>21 DEF ApplyDNS, Candidate, Goto, Operation, Runtime, OpOK, TeardownOK,
     SelectionOK, ZapretOK, DownPCs, SelectionPCs, ZapretPCs, EffectiveTransport
<1>22. CASE ApplyDNSFails
  BY <1>22, SelectionFailedOK DEF ApplyDNSFails, SelectionPCs
<1>23. CASE ApplyFirewall
  BY <1>a, <1>b, <1>23 DEF ApplyFirewall, Candidate, Goto, Operation, Runtime, OpOK, TeardownOK,
     SelectionOK, ZapretOK, DownPCs, SelectionPCs, ZapretPCs, EffectiveTransport
<1>24. CASE ApplyFirewallFails
  BY <1>24, SelectionFailedOK DEF ApplyFirewallFails, SelectionPCs
<1>25. CASE SaveStateFails
  BY <1>25, RaisedOK DEF SaveStateFails
<1>26. CASE SaveConnected
  <2>1. op.pc = "saveConnected" /\ op' = Finished(op) /\ UNCHANGED <<cfg, rt>>
    BY <1>26 DEF SaveConnected, SaveState
  <2>2. op.catch # "test" BY <1>b, <2>1 DEF OpOK, SelectionOK, SelectionPCs
  <2>3. CASE op.ret \in {"commit", "commitSettings"}
    <3>1. op' = [op EXCEPT !.pc = "saveCommit"] BY <2>1, <2>3 DEF Finished
    <3>2. QED
      BY <1>a, <1>b, <2>1, <2>2, <2>3, <3>1 DEF Candidate, Operation, OpOK, TeardownOK,
         SelectionOK, ZapretOK, DownPCs, SelectionPCs, ZapretPCs
  <2>4. CASE op.ret \notin {"commit", "commitSettings"}
    BY <1>a, <2>1, <2>2, <2>4, FinishedOK
  <2>5. QED BY <2>3, <2>4
<1>27. CASE SaveCommit
  <2> DEFINE o == [op EXCEPT !.ret = IF @ = "commitSettings" THEN "settings" ELSE "ok"]
  <2>1. op.pc = "saveCommit" /\ op' = Finished(o)
    BY <1>27 DEF SaveCommit, SaveState
  <2>2. op.catch # "test" BY <1>b, <2>1 DEF OpOK, SelectionOK, SelectionPCs
  <2>3. o \in Operation /\ o.catch = op.catch /\ o.ret \in {"settings", "ok"}
    BY <1>a DEF Operation
  <2> HIDE DEF o
  <2>4. QED BY <2>1, <2>2, <2>3, FinishedOK
<1>28. CASE SaveZapret
  BY <1>a, <1>b, <1>28, FinishedOK DEF SaveZapret, SaveState, OpOK, ZapretOK, ZapretPCs
<1>29. CASE SaveTest
  BY <1>a, <1>b, <1>29, FinishedOK DEF SaveTest, SaveState, OpOK, ZapretOK, ZapretPCs
<1>30. CASE SaveDisconnected
  <2>1. Entry(op')
    BY <1>a, <1>b, <1>30 DEF SaveDisconnected, SaveState, Entry, Operation, OpOK, ZapretOK
  <2>2. QED BY <2>1, EntryOK
<1>31. CASE SaveDirect
  BY <1>a, <1>b, <1>31, RaisedEntry, EntryOK DEF SaveDirect, SaveState, OpOK, ZapretOK
<1>32. CASE SaveFailed
  BY <1>a, <1>b, <1>32, RaisedEntry, EntryOK DEF SaveFailed, SaveState, OpOK, ZapretOK
<1>33. CASE SaveDropped
  BY <1>33, ReturnedEntry, EntryOK DEF SaveDropped, SaveState
<1>34. CASE SaveDroppedAgainFails
  BY <1>34, ReturnedEntry, EntryOK DEF SaveDroppedAgainFails, SaveState
<1>35. CASE SaveRestoreFailed
  BY <1>35, ReturnedEntry, EntryOK DEF SaveRestoreFailed, SaveState
<1>36. CASE SaveZapretOff
  BY <1>36, ReturnedEntry, EntryOK DEF SaveZapretOff, SaveState
<1>37. CASE SaveTestFailed
  BY <1>37, ReturnedEntry, EntryOK DEF SaveTestFailed, SaveState
<1>38. CASE SaveTestStopped
  BY <1>38, ReturnedEntry, EntryOK DEF SaveTestStopped, SaveState
<1>39. CASE SaveMode
  BY <1>39, ReturnedEntry, EntryOK DEF SaveMode
<1>40. CASE SaveModeFails
  BY <1>40, ReturnedEntry, EntryOK DEF SaveModeFails
<1>41. CASE SaveSubscriptions
  BY <1>a, <1>b, <1>41 DEF SaveSubscriptions, AllDown, ProxyDown, Goto, Operation, Runtime, OpOK, TeardownOK,
     SelectionOK, ZapretOK, DownPCs, SelectionPCs, ZapretPCs, EffectiveTransport
<1>42. CASE SaveSubscriptionsFails
  BY <1>42, RaisedOK DEF SaveSubscriptionsFails
<1>43. CASE ApplyZapret
  BY <1>a, <1>b, <1>43 DEF ApplyZapret, ProxyDown, Goto, Operation, Runtime, OpOK, TeardownOK,
     SelectionOK, ZapretOK, DownPCs, SelectionPCs, ZapretPCs, EffectiveTransport
<1>44. CASE ApplyZapretFails
  <2>1. CASE op.pc = "zapTest"
    BY <1>44, <2>1, RaisedOK DEF ApplyZapretFails
  <2>2. CASE op.pc = "zapOn"
    <3>1. op.catch # "test" BY <1>b, <2>2 DEF OpOK, ZapretOK
    <3>2. QED BY <1>a, <1>44, <2>2, <3>1, TeardownEntry, EntryOK DEF ApplyZapretFails, DownPCs
  <2>3. QED BY <1>44, <2>1, <2>2 DEF ApplyZapretFails
<1>45. CASE RestoreRoute
  <2>1. CASE ~HasNode(st.sub, st.node)
    BY <1>45, <2>1, ReturnedEntry, EntryOK DEF RestoreRoute
  <2>2. CASE HasNode(st.sub, st.node)
    <3> DEFINE o == [op EXCEPT !.ret = "fail"]
    <3>1. st.sub \in Subs BY <1>a, <2>2 DEF HasNode, State, SubOrNone
    <3>2. st.node \in Nodes BY <2>2, <3>1 DEF HasNode, IInv, TypeOK
    <3>3. op.catch # "test" BY <1>b, <1>45 DEF RestoreRoute, OpOK, ZapretOK
    <3>4. o \in Operation /\ o.catch # "test" /\ o.ret = "fail"
      BY <1>a, <3>3 DEF Operation
    <3>5. op' = Selecting(o, st.sub, st.node, st.mode, TRUE, FALSE)
      BY <1>45, <2>2 DEF RestoreRoute
    <3> HIDE DEF o
    <3>6. Entry(op') BY <3>1, <3>2, <3>4, <3>5, SelectingEntry
    <3>7. QED BY <3>6, EntryOK
  <2>3. QED BY <2>1, <2>2
<1>46. CASE AbandonTest
  <2>1. ~st.connected
    BY <1>b, <1>46 DEF AbandonTest, IInv, StateOK, OpOK, ZapretOK
  <2>2. op' = Goto("saveTestFailed") /\ st' = st /\ op.pc = "testFailed"
    BY <1>46 DEF AbandonTest
  <2>3. QED
    BY <1>a, <1>b, <2>1, <2>2 DEF Goto, Operation, Runtime, OpOK, TeardownOK,
     SelectionOK, ZapretOK, DownPCs, SelectionPCs, ZapretPCs, EffectiveTransport
<1>47. CASE Reconnect
  BY <1>47, <1>a, PinNodeOK, SelectAutoOK DEF Reconnect, State, IInv
<1>48. QED
  BY <1>1, <1>2, <1>3, <1>4, <1>5, <1>6, <1>7, <1>8, <1>9, <1>10, <1>11, <1>12, <1>13, <1>14, <1>15, <1>16, <1>17, <1>18, <1>19, <1>20, <1>21, <1>22, <1>23, <1>24, <1>25, <1>26, <1>27, <1>28, <1>29, <1>30, <1>31, <1>32, <1>33, <1>34, <1>35, <1>36, <1>37, <1>38, <1>39, <1>40, <1>41, <1>42, <1>43, <1>44, <1>45, <1>46, <1>47 DEF Step

LEMMA HandlerOpOK == TypeOK /\ Handler => OpOK'
<1> SUFFICES ASSUME TypeOK, Handler PROVE OpOK'
  OBVIOUS
<1>a. op \in Operation /\ st \in State
  BY DEF TypeOK
<1>b. Call \in Operation /\ Call.catch = "none" /\ Call.after = "done" /\ Call.ret = "ok"
  BY CallType DEF Call, Returned
<1>c. \A after \in DownPCs : Entry(Teardown(Call, after))
  BY <1>b, TeardownEntry
<1>1. ASSUME NEW s \in Subs, NEW ns \in (SUBSET Catalog[s]) \ {{}}, AddSubscription(s, ns)
      PROVE  OpOK'
  BY <1>1, ReturnedEntry, StoreNodesOK DEF AddSubscription
<1>2. ASSUME NEW s \in Subs, NEW ns \in (SUBSET Catalog[s]) \ {{}}, RefreshSubscription(s, ns)
      PROVE  OpOK'
  BY <1>2, ReturnedEntry, StoreNodesOK DEF RefreshSubscription
<1>3. ASSUME NEW s \in Subs, RemoveSubscription(s) PROVE OpOK'
  BY <1>3, RemoveOK DEF RemoveSubscription, SubOrNone, NodeOrNone
<1>4. ASSUME NEW s \in Subs, ConnectAuto(s) PROVE OpOK'
  BY <1>4, SelectAutoOK DEF ConnectAuto, SubOrNone
<1>5. ASSUME NEW s \in Subs, NEW n \in Nodes, RemoveSubscriptionNode(s, n) PROVE OpOK'
  BY <1>5, RemoveOK DEF RemoveSubscriptionNode, SubOrNone, NodeOrNone
<1>6. ASSUME NEW s \in Subs, NEW n \in Nodes, ConnectManual(s, n) PROVE OpOK'
  BY <1>6, PinNodeOK DEF ConnectManual, SubOrNone
<1>7. CASE RemoveAllSubscriptions
  BY <1>7, RemoveOK DEF RemoveAllSubscriptions, SubOrNone, NodeOrNone
<1>8. CASE Disconnect
  BY <1>8, <1>c, EntryOK DEF Disconnect, DownPCs
<1>9. ASSUME NEW ns \in (SUBSET Nodes) \ {{}}, RefreshAndReconnect(ns) PROVE OpOK'
  <2>1. Entry([Call EXCEPT !.pc = "reconnect"])
    BY <1>b DEF Entry, Operation
  <2>2. QED BY <1>9, <2>1, ReturnedEntry, EntryOK, StoreNodesOK DEF RefreshAndReconnect, Answer
<1>10. CASE HealthCheck
  <2>1. CASE ~Stored(st.sub)
    BY <1>10, <2>1, ReturnedEntry, EntryOK DEF HealthCheck
  <2>2. CASE Stored(st.sub)
    <3>1. st.sub \in Subs BY <1>a, <2>2 DEF Stored, State, SubOrNone
    <3>2. \A n \in subs[st.sub] : Entry(Commit(st.sub, n, "commit"))
      BY <3>1, CommitEntry DEF TypeOK
    <3>3. op' \in {Commit(st.sub, n, "commit") : n \in subs[st.sub]}
                    \cup {Fallback(Call, cfg, st.sub), Teardown(Call, "saveDropped")}
      BY <1>10, <2>2 DEF HealthCheck
    <3>4. CASE op' = Fallback(Call, cfg, st.sub)
      BY <1>10, <1>b, <3>4, FallbackOK DEF HealthCheck
    <3>5. CASE op' # Fallback(Call, cfg, st.sub)
      BY <1>c, <3>2, <3>3, <3>5, EntryOK DEF DownPCs
    <3>6. QED BY <3>4, <3>5
  <2>3. QED BY <2>1, <2>2
<1>11. CASE RestoreRuntime
  <2> DEFINE o == [Call EXCEPT !.catch = "restore", !.mode = st.mode,
                               !.ret = IF st.test THEN "ok" ELSE "settings"]
  <2>1. o.catch = "restore" /\ o.after = "done" /\ o.ret \in {"ok", "settings"}
    BY <1>b DEF Operation
  <2>2. o \in Operation
    <3> DEFINE r == IF st.test THEN "ok" ELSE "settings"
    <3>1. st.mode \in Modes BY <1>a DEF State
    <3>2. r \in {"ok", "settings"} OBVIOUS
    <3> HIDE DEF r
    <3>3. [Call EXCEPT !.catch = "restore", !.mode = st.mode, !.ret = r] \in Operation
      BY <1>b, <3>1, <3>2 DEF Operation
    <3>4. QED BY <3>3 DEF r
  <2>3. op' = Reapply(o, cfg) /\ st' = st /\ rt' = rt BY <1>11 DEF RestoreRuntime
  <2> HIDE DEF o
  <2>4. QED BY <2>1, <2>2, <2>3, ReapplyOK
<1>12. CASE Refused
  BY <1>12, ReturnedEntry, EntryOK DEF Refused, Answer
<1>13. CASE StartZapretTest
  <2>1. CASE EffectiveTransport(st) = "zapret"
    BY <1>13, <2>1, ReturnedEntry, EntryOK DEF StartZapretTest
  <2>2. CASE EffectiveTransport(st) # "zapret"
    <3> DEFINE o == [Call EXCEPT !.catch = "test"]
    <3>1. o \in Operation /\ o.catch = "test" /\ o.ret = "ok" BY <1>b DEF Operation
    <3>2. op' = TestMode(o, cfg) /\ st' = st BY <1>13, <2>2 DEF StartZapretTest
    <3> HIDE DEF o
    <3>3. QED BY <2>2, <3>1, <3>2, TestModeOK
  <2>3. QED BY <2>1, <2>2
<1>14. CASE StopZapretTest
  <2>1. CASE ~(ProxyRestorable(st.restore) /\ HasNode(st.restore.sub, st.restore.node))
    BY <1>14, <2>1, <1>c, ReturnedEntry, EntryOK DEF StopZapretTest, DownPCs
  <2>2. CASE ProxyRestorable(st.restore) /\ HasNode(st.restore.sub, st.restore.node)
    <3>1. st.restore.sub \in Subs
      BY <1>a, <2>2 DEF HasNode, State, Selection, SubOrNone
    <3>2. st.restore.node \in Nodes BY <2>2, <3>1 DEF HasNode, TypeOK
    <3>3. op' = Selecting(Call, st.restore.sub, st.restore.node, st.restore.mode, TRUE, FALSE)
      BY <1>14, <2>2 DEF StopZapretTest
    <3>4. Entry(op') BY <1>b, <3>1, <3>2, <3>3, SelectingEntry
    <3>5. QED BY <3>4, EntryOK
  <2>3. QED BY <2>1, <2>2
<1>15. ASSUME NEW b \in BOOLEAN, SetZapretEnabled(b) PROVE OpOK'
  BY <1>15, <1>c, ReturnedEntry, EntryOK DEF SetZapretEnabled, SaveProfile, DownPCs
<1>16. ASSUME NEW b \in BOOLEAN, SetAutoMode(b) PROVE OpOK'
  BY <1>16, <1>a, SelectAutoOK, PinNodeOK, ReturnedEntry, EntryOK
     DEF SetAutoMode, SaveAutoMode, State
<1>17. ASSUME NEW sel \in Selectors, SetZapretSelectors(sel) PROVE OpOK'
  <2> DEFINE p == [cfg.profile EXCEPT !.selectors = sel, !.zapret = @ /\ sel # "none"]
  <2>1. st' = st /\ rt' = rt BY <1>17 DEF SetZapretSelectors, SaveProfile
  <2>2. op' \in {Returned("ok"), Returned("failed"), Teardown(Call, "saveZapretOff"),
                 TestMode(Call, With(p)), Fallback(Call, With(p), st.sub)}
    BY <1>17 DEF SetZapretSelectors, SaveProfile
  <2>3. CASE op' = TestMode(Call, With(p))
    BY <1>b, <2>1, <2>3, TestModeOK
  <2>4. CASE op' = Fallback(Call, With(p), st.sub)
    BY <1>b, <2>1, <2>4, FallbackOK
  <2>5. CASE op' \in {Returned("ok"), Returned("failed"), Teardown(Call, "saveZapretOff")}
    BY <1>c, <2>5, ReturnedEntry, EntryOK DEF DownPCs
  <2>6. QED BY <2>2, <2>3, <2>4, <2>5
<1>18. ASSUME NEW d \in BOOLEAN, NEW f \in BOOLEAN, SetRouting(d, f) PROVE OpOK'
  <2> DEFINE p == [cfg.profile EXCEPT !.dns = d, !.fw = f]
  <2>1. st' = st /\ rt' = rt BY <1>18 DEF SetRouting, SaveProfile
  <2>2. op' \in {Returned("failed"), Reapply(Call, With(p))}
    BY <1>18 DEF SetRouting, SaveProfile
  <2>3. CASE op' = Reapply(Call, With(p))
    BY <1>b, <2>1, <2>3, ReapplyOK
  <2>4. QED BY <2>2, <2>3, ReturnedEntry, EntryOK
<1>19. QED
  BY <1>1, <1>2, <1>3, <1>4, <1>5, <1>6, <1>7, <1>8, <1>9, <1>10, <1>11, <1>12, <1>13, <1>14, <1>15, <1>16, <1>17, <1>18 DEF Handler

-----------------------------------------------------------------------------
(* Which steps write the ledger.                                           *)

Drops ==
    \/ SaveDisconnected \/ SaveDirect \/ SaveFailed \/ SaveDropped
    \/ SaveDroppedAgainFails \/ SaveRestoreFailed \/ SaveZapretOff
    \/ SaveTestFailed \/ SaveTestStopped

LedgerWritten ==
    \/ st' = st
    \/ SaveConnected \/ SaveCommit \/ SaveZapret \/ SaveTest \/ Drops
    \/ \E s \in Subs : rt' = rt /\ st' = [st EXCEPT !.sub = s, !.mode = "auto"]

LEMMA SelectAutoLedger ==
    ASSUME NEW s \in SubOrNone, SelectAuto(s)
    PROVE  LedgerWritten
BY DEF SelectAuto, ChooseNode, ChooseNone, Stored, SubOrNone, Answer, LedgerWritten

LEMMA PinNodeLedger ==
    ASSUME NEW s, NEW n, PinNode(s, n)
    PROVE  st' = st
BY DEF PinNode, Answer

LEMMA StepLedger == TypeOK /\ Step => LedgerWritten
<1> SUFFICES ASSUME TypeOK, Step PROVE LedgerWritten
  OBVIOUS
<1>1. CASE StopDNS \/ StopDNSFails \/ StopXray \/ StopXrayFails \/ StopFirewall
           \/ StopFirewallFails \/ StopZapret \/ StopZapretFails \/ TeardownDone
  BY <1>1 DEF StopDNS, StopDNSFails, StopXray, StopXrayFails, StopFirewall,
     StopFirewallFails, StopZapret, StopZapretFails, TeardownDone, LedgerWritten
<1>2. CASE LeaveZapret \/ PrepareFails \/ LeaveZapretFails \/ ApplyXray \/ ApplyXrayFails
           \/ VerifyXray \/ VerifyXrayFails \/ RollbackXray \/ RollbackXrayFails
           \/ SaveFailedHealth \/ SaveFailedHealthFails
  BY <1>2 DEF LeaveZapret, PrepareFails, LeaveZapretFails, ApplyXray, ApplyXrayFails,
     VerifyXray, VerifyXrayFails, RollbackXray, RollbackXrayFails, SaveFailedHealth,
     SaveFailedHealthFails, LedgerWritten
<1>3. CASE ApplyDNS \/ ApplyDNSFails \/ ApplyFirewall \/ ApplyFirewallFails
           \/ SaveStateFails \/ SaveMode \/ SaveModeFails \/ SaveSubscriptions
           \/ SaveSubscriptionsFails \/ ApplyZapret \/ ApplyZapretFails
           \/ RestoreRoute \/ AbandonTest
  BY <1>3 DEF ApplyDNS, ApplyDNSFails, ApplyFirewall, ApplyFirewallFails, SaveStateFails,
     SaveMode, SaveModeFails, SaveSubscriptions, SaveSubscriptionsFails, ApplyZapret,
     ApplyZapretFails, RestoreRoute, AbandonTest, LedgerWritten
<1>4. CASE Reconnect
  BY <1>4, PinNodeLedger, SelectAutoLedger DEF Reconnect, TypeOK, State, LedgerWritten
<1>5. CASE SaveConnected \/ SaveCommit \/ SaveZapret \/ SaveTest \/ Drops
  BY <1>5 DEF LedgerWritten
<1>6. QED BY <1>1, <1>2, <1>3, <1>4, <1>5 DEF Step, Drops

LEMMA HandlerLedger == TypeOK /\ Handler => LedgerWritten
<1> SUFFICES ASSUME TypeOK, Handler PROVE LedgerWritten
  OBVIOUS
<1>a. st.sub \in SubOrNone BY DEF TypeOK, State
<1>1. CASE \E s \in Subs : \E ns \in (SUBSET Catalog[s]) \ {{}} :
             AddSubscription(s, ns) \/ RefreshSubscription(s, ns)
  BY <1>1 DEF AddSubscription, RefreshSubscription, StoreNodes, Answer, LedgerWritten
<1>2. CASE \E s \in Subs : RemoveSubscription(s)
  BY <1>2 DEF RemoveSubscription, Remove, RemoveUnread, StoreRemoved, Answer, LedgerWritten
<1>3. CASE \E s \in Subs : ConnectAuto(s)
  BY <1>3, SelectAutoLedger DEF ConnectAuto, SubOrNone
<1>4. CASE \E s \in Subs, n \in Nodes : RemoveSubscriptionNode(s, n)
  BY <1>4 DEF RemoveSubscriptionNode, Remove, RemoveUnread, StoreRemoved, Answer, LedgerWritten
<1>5. CASE \E s \in Subs, n \in Nodes : ConnectManual(s, n)
  BY <1>5, PinNodeLedger DEF ConnectManual, LedgerWritten
<1>6. CASE RemoveAllSubscriptions \/ Disconnect
  BY <1>6 DEF RemoveAllSubscriptions, Remove, RemoveUnread, StoreRemoved, Answer,
     Disconnect, LedgerWritten
<1>7. CASE \E ns \in (SUBSET Nodes) \ {{}} : RefreshAndReconnect(ns)
  BY <1>7 DEF RefreshAndReconnect, StoreNodes, Answer, LedgerWritten
<1>8. CASE HealthCheck \/ RestoreRuntime \/ Refused
           \/ StartZapretTest \/ StopZapretTest
  BY <1>8 DEF HealthCheck, RestoreRuntime, Refused, StartZapretTest,
     StopZapretTest, Answer, LedgerWritten
<1>9. CASE \E b \in BOOLEAN : SetZapretEnabled(b)
  BY <1>9 DEF SetZapretEnabled, SaveProfile, LedgerWritten
<1>10. CASE \E b \in BOOLEAN : SetAutoMode(b)
  BY <1>10, <1>a, PinNodeLedger, SelectAutoLedger DEF SetAutoMode, SaveAutoMode,
     LedgerWritten
<1>11. CASE \E sel \in Selectors : SetZapretSelectors(sel)
  BY <1>11 DEF SetZapretSelectors, SaveProfile, LedgerWritten
<1>12. CASE \E d, f \in BOOLEAN : SetRouting(d, f)
  BY <1>12 DEF SetRouting, SaveProfile, LedgerWritten
<1>13. QED
  BY <1>1, <1>2, <1>3, <1>4, <1>5, <1>6, <1>7, <1>8, <1>9, <1>10, <1>11, <1>12 DEF Handler

LEMMA NextLedger == TypeOK /\ [Next]_vars => LedgerWritten
<1> SUFFICES ASSUME TypeOK, [Next]_vars PROVE LedgerWritten
  OBVIOUS
<1>1. CASE Crash \/ Reboot \/ UNCHANGED vars
  BY <1>1 DEF Crash, Reboot, vars, LedgerWritten
<1>2. QED BY <1>1, StepLedger, HandlerLedger DEF Next

LEMMA LedgerStateOK ==
    ASSUME TypeOK, SelectionOK, StateOK, LedgerWritten
    PROVE  StateOK'
<1>a. st \in State BY DEF TypeOK
<1>1. CASE st' = st
  BY <1>1 DEF StateOK, RestorePoint, ProxyRestorable, EffectiveTransport
<1>2. CASE SaveConnected \/ SaveCommit
  <2>1. st' = ConnectedState /\ op.sub \in Subs /\ op.node \in Nodes
    BY <1>2 DEF SaveConnected, SaveCommit, SaveState, SelectionOK, SelectionPCs
  <2>2. /\ st'.connected /\ st'.transport = "proxy"
        /\ st'.sub = op.sub /\ st'.node = op.node
    BY <1>a, <2>1 DEF ConnectedState, State
  <2>3. QED
    BY <2>1, <2>2 DEF StateOK, RestorePoint, ProxyRestorable, EffectiveTransport
<1>3. CASE SaveZapret \/ SaveTest
  <2>1. st'.transport = "zapret" BY <1>a, <1>3 DEF SaveZapret, SaveTest, SaveState, State
  <2>2. QED BY <2>1 DEF StateOK, EffectiveTransport
<1>4. CASE Drops
  <2>1. ~st'.connected
    BY <1>a, <1>4 DEF Drops, SaveDisconnected, SaveDirect, SaveFailed, SaveDropped,
       SaveDroppedAgainFails, SaveRestoreFailed, SaveZapretOff, SaveTestFailed,
       SaveTestStopped, SaveState, Down, State
  <2>2. QED BY <2>1 DEF StateOK
<1>5. ASSUME NEW s \in Subs, st' = [st EXCEPT !.sub = s, !.mode = "auto"] PROVE StateOK'
  BY <1>a, <1>5 DEF StateOK, RestorePoint, ProxyRestorable, EffectiveTransport, State
<1>6. QED BY <1>1, <1>2, <1>3, <1>4, <1>5 DEF LedgerWritten

-----------------------------------------------------------------------------
LEMMA InitInv == Init => IInv
<1> SUFFICES ASSUME Init PROVE IInv
  OBVIOUS
<1>1. op \in Operation /\ op.pc = "idle" /\ op.catch = "none" /\ op.after = "done"
  BY CallType DEF Init, Call, Returned
<1>2. OpOK
  BY <1>1 DEF OpOK, TeardownOK, SelectionOK, ZapretOK, DownPCs, SelectionPCs, ZapretPCs
<1>a. FreshState \in State
  BY DEF FreshState, State, Selection, NoSelection, SubOrNone, NodeOrNone, Modes, Transports
<1>3. CASE Fresh
  <2>1. TypeOK
    BY <1>1, <1>3, <1>a DEF TypeOK, Fresh, Settings, Modes, Runtime, Files, XrayFiles
  <2>2. StateOK BY <1>3 DEF Fresh, FreshState, StateOK
  <2>3. QED BY <1>2, <2>1, <2>2 DEF IInv
<1>4. CASE Upgraded
  <2> PICK s \in Subs : \E n \in Catalog[s] :
          /\ subs = [r \in Subs |-> IF r = s THEN Catalog[s] ELSE {}]
          /\ st = [FreshState EXCEPT !.sub = s, !.node = n, !.mode = "manual",
                                     !.connected = TRUE]
          /\ cfg \in [profile : Profiles, mode : {"manual"}]
          /\ conf = Files([sub |-> s, node |-> n], [sub |-> s, node |-> n])
          /\ rt = [xray |-> conf.disk, dns |-> cfg.profile.dns, fw |-> cfg.profile.fw,
                   zapret |-> "off"]
    BY <1>4 DEF Upgraded
  <2>1. PICK n \in Catalog[s] :
          /\ subs = [r \in Subs |-> IF r = s THEN Catalog[s] ELSE {}]
          /\ st = [FreshState EXCEPT !.sub = s, !.node = n, !.mode = "manual",
                                     !.connected = TRUE]
          /\ cfg \in [profile : Profiles, mode : {"manual"}]
          /\ conf = Files([sub |-> s, node |-> n], [sub |-> s, node |-> n])
          /\ rt = [xray |-> conf.disk, dns |-> cfg.profile.dns, fw |-> cfg.profile.fw,
                   zapret |-> "off"]
    OBVIOUS
  <2>2. n \in Nodes OBVIOUS
  <2>3. conf \in XrayFiles /\ conf.disk \in Outbound
    BY <2>1, <2>2 DEF Outbound, Files, XrayFiles
  <2>4. subs \in [Subs -> SUBSET Nodes] BY <2>1
  <2>5. st \in State
    BY <1>a, <2>1, <2>2 DEF State, SubOrNone, NodeOrNone, Modes
  <2>6. cfg \in Settings BY <2>1 DEF Settings, Modes
  <2>7. rt \in Runtime BY <2>1, <2>3 DEF Runtime, Profile
  <2>8. StateOK
    BY <2>1, <2>2 DEF FreshState, StateOK, EffectiveTransport, RestorePoint, ProxyRestorable
  <2>9. QED BY <1>1, <1>2, <2>3, <2>4, <2>5, <2>6, <2>7, <2>8 DEF IInv, TypeOK
<1>5. QED BY <1>3, <1>4 DEF Init

LEMMA NextInv == IInv /\ [Next]_vars => IInv'
<1> SUFFICES ASSUME IInv, [Next]_vars PROVE IInv'
  OBVIOUS
<1>a. TypeOK /\ StateOK /\ OpOK /\ SelectionOK BY DEF IInv, OpOK
<1>1. StateOK' BY <1>a, NextLedger, LedgerStateOK
<1>2. CASE Step
  BY <1>a, <1>1, <1>2, StepType, StepOpOK DEF IInv
<1>3. CASE Handler
  BY <1>a, <1>1, <1>3, HandlerType, HandlerOpOK DEF IInv
<1>4. CASE Crash
  BY <1>a, <1>1, <1>4, ReturnedType, ReturnedEntry, EntryOK DEF Crash, IInv, TypeOK
<1>5. CASE Reboot
  <2>0. PICK x \in {conf.disk, None}, d \in {rt.dns, FALSE}, z \in {"off", "marked", "on"} :
          rt' = [xray |-> x, dns |-> d, fw |-> FALSE, zapret |-> z]
    BY <1>5 DEF Reboot
  <2>1. rt' \in Runtime BY <1>a, <2>0 DEF TypeOK, Runtime, XrayFiles
  <2>2. QED
    BY <1>a, <1>1, <1>5, <2>1, ReturnedType, ReturnedEntry, EntryOK DEF Reboot, IInv, TypeOK
<1>6. CASE UNCHANGED vars
  BY <1>a, <1>1, <1>6 DEF vars, IInv, TypeOK, OpOK, TeardownOK, SelectionOK, ZapretOK,
     ProxyDown, AllDown, Candidate, EffectiveTransport
<1>7. QED BY <1>2, <1>3, <1>4, <1>5, <1>6 DEF Next

LEMMA Invariance == Spec => []IInv
BY InitInv, NextInv, PTL DEF Spec

\* Type correctness: the ledger, the runtime and the operation keep their types
\* (internal/app/service.go, every operation).
THEOREM TypeCorrect == Spec => []TypeOK
<1>1. IInv => TypeOK BY DEF IInv
<1>2. QED BY <1>1, Invariance, PTL

\* No step writes a disconnected state.json before the runtime is down
\* (markConnectionFailed, markTransportDirect, disconnect, removeSubscription,
\* persistRestoreFailure), whatever fails and whenever the process dies.
THEOREM DropsWhenDown == Spec => DropOnlyWhenDown
<1>1. IInv /\ [Next]_vars => [st.connected /\ ~st'.connected => AllDown']_vars
  <2> SUFFICES ASSUME IInv, [Next]_vars, st.connected, ~st'.connected PROVE AllDown'
    BY DEF vars
  <2>a. st \in State /\ TeardownOK /\ ZapretOK BY DEF IInv, TypeOK, OpOK
  <2>1. LedgerWritten BY NextLedger DEF IInv
  <2>2. ~(SaveConnected \/ SaveCommit \/ SaveZapret \/ SaveTest)
    BY <2>a DEF SaveConnected, SaveCommit, SaveZapret, SaveTest, SaveState, ConnectedState,
       State
  <2>3. Drops BY <2>a, <2>1, <2>2 DEF LedgerWritten, State
  <2>4. op.pc \in DownPCs /\ rt' = rt
    BY <2>a, <2>3 DEF Drops, SaveDisconnected, SaveDirect, SaveFailed, SaveDropped,
       SaveDroppedAgainFails, SaveRestoreFailed, SaveZapretOff, SaveTestFailed,
       SaveTestStopped, SaveState, DownPCs, ZapretOK
  <2>5. QED BY <2>a, <2>4 DEF TeardownOK, AllDown, ProxyDown
<1>2. QED BY <1>1, Invariance, PTL DEF Spec, DropOnlyWhenDown

\* A proxy connection is recorded only when Xray runs its node and dnsmasq and
\* nftables are as the settings ask (applyNodeSelection, commitAutoSelection).
THEOREM ConnectsWhenServing == Spec => ConnectOnlyWhenServing
<1> DEFINE A == /\ st'.connected /\ st'.transport = "proxy"
                /\ ~st.connected \/ st.transport # "proxy" \/ st'.node # st.node
                => Serving'
<1>1. IInv /\ [Next]_vars => [A]_vars
  <2> SUFFICES ASSUME IInv, [Next]_vars, st'.connected, st'.transport = "proxy",
                      ~st.connected \/ st.transport # "proxy" \/ st'.node # st.node
               PROVE  Serving'
    BY DEF vars
  <2>a. st \in State /\ SelectionOK BY DEF IInv, TypeOK, OpOK
  <2>1. LedgerWritten BY NextLedger DEF IInv
  <2>2. ~(SaveZapret \/ SaveTest)
    <3>1. SaveZapret => st'.transport = "zapret" BY <2>a DEF SaveZapret, SaveState, State
    <3>2. SaveTest => st'.transport = "zapret" BY <2>a DEF SaveTest, SaveState, State
    <3>3. QED BY <3>1, <3>2
  <2>3. ~Drops
    BY <2>a DEF Drops, SaveDisconnected, SaveDirect, SaveFailed, SaveDropped,
       SaveDroppedAgainFails, SaveRestoreFailed, SaveZapretOff, SaveTestFailed,
       SaveTestStopped, SaveState, Down, State
  <2>4. SaveConnected \/ SaveCommit BY <2>a, <2>1, <2>2, <2>3 DEF LedgerWritten, State
  <2>5. /\ st' = ConnectedState /\ rt' = rt /\ cfg' = cfg
        /\ op.pc \in {"saveConnected", "saveCommit"}
    BY <2>4 DEF SaveConnected, SaveCommit, SaveState
  <2>6. st'.sub = op.sub /\ st'.node = op.node BY <2>a, <2>5 DEF ConnectedState, State
  <2>7. QED BY <2>a, <2>5, <2>6 DEF SelectionOK, Candidate, Serving
<1>2. QED BY <1>1, Invariance, PTL DEF Spec, ConnectOnlyWhenServing

\* Zapret is recorded, as a fallback or as a test, only when its service runs and
\* the proxy is gone (activateZapretFallback, applyZapretTestMode).
THEOREM ZapretWhenOn == Spec => ZapretOnlyWhenOn
<1> DEFINE A == st.transport # "zapret" /\ st'.transport = "zapret"
                => rt'.zapret = "on" /\ ProxyDown'
<1>1. IInv /\ [Next]_vars => [A]_vars
  <2> SUFFICES ASSUME IInv, [Next]_vars, st.transport # "zapret", st'.transport = "zapret"
               PROVE  rt'.zapret = "on" /\ ProxyDown'
    BY DEF vars
  <2>a. st \in State /\ ZapretOK BY DEF IInv, TypeOK, OpOK
  <2>1. LedgerWritten BY NextLedger DEF IInv
  <2>2. ~(SaveConnected \/ SaveCommit)
    BY <2>a DEF SaveConnected, SaveCommit, SaveState, ConnectedState, State
  <2>3. ~Drops
    BY <2>a DEF Drops, SaveDisconnected, SaveDirect, SaveFailed, SaveDropped,
       SaveDroppedAgainFails, SaveRestoreFailed, SaveZapretOff, SaveTestFailed,
       SaveTestStopped, SaveState, Down, State
  <2>4. SaveZapret \/ SaveTest BY <2>a, <2>1, <2>2, <2>3 DEF LedgerWritten, State
  <2>5. rt' = rt /\ op.pc \in {"saveZapret", "saveTest"}
    BY <2>4 DEF SaveZapret, SaveTest, SaveState
  <2>6. QED BY <2>a, <2>5 DEF ZapretOK, ProxyDown
<1>2. QED BY <1>1, Invariance, PTL DEF Spec, ZapretOnlyWhenOn

-----------------------------------------------------------------------------
(* The ledger and the router between two operations, when setting up may   *)
(* fail but tearing down and saving do not, and nothing crashes.           *)

\* A ledger whose traffic the proxy carries.
OnProxy == st.connected /\ st.transport # "zapret"

\* The ledger names Zapret, or a test of it, only for a connection.
LedgerOK ==
    /\ st.transport = "zapret" => st.connected
    /\ st.test => st.connected

\* What an operation that has just been decided on asks of the ledger.
Started(o) ==
    /\ o.pc \in {"idle", "reconnect", "dnsOff", "leaveZapret", "zapOn", "testFailed"}
    /\ o.pc = "dnsOff" => /\ o.after # "saveFailed"
                          /\ o.after = "zapTest" /\ o.catch = "none" => st.connected
                          /\ o.after = "zapOn" => o.sub \in Subs
                          /\ o.after = "done" /\ st.connected => st.sub = None
    /\ o.pc = "leaveZapret" /\ ~o.persist => OnProxy /\ o.node = st.node /\ ~o.rollback
    /\ o.pc = "leaveZapret" /\ o.rollback => st.connected
    /\ o.pc = "zapOn" => st.transport = "zapret" /\ o.sub \in Subs
    /\ o.pc = "testFailed" => st.transport # "zapret" /\ o.catch = "none"
    /\ o.catch = "restore" =>
         /\ o.pc \in {"dnsOff", "leaveZapret", "zapOn"}
         /\ o.pc = "dnsOff" => o.after \in {"zapOn", "zapTest", "saveDirect"}
         /\ o.pc = "leaveZapret" => ~o.persist
         /\ o.ret \in {"ok", "settings"}

\* An operation is decided on without touching the router; a selection that
\* finds no healthy node rewrites the ledger's subscription, and ends.
Begins ==
    /\ UNCHANGED <<rt, conf>>
    /\ Started(op')
    /\ \/ st' = st
       \/ /\ op'.pc = "idle"
          /\ \E s \in Subs : st' = [st EXCEPT !.sub = s, !.mode = "auto"]

LEMMA ReturnedStarted == \A r : Started(Returned(r))
BY DEF Started, Returned

LEMMA CallValues ==
    /\ Call \in Operation /\ Call.catch = "none" /\ Call.ret = "ok"
    /\ Call.after = "done" /\ ~Call.persist /\ ~Call.rollback
BY CallType DEF Call, Returned

LEMMA TeardownStarted ==
    ASSUME NEW o \in Operation, o.catch # "restore", NEW after \in DownPCs \ {"saveFailed", "done"}
    PROVE  Started(Teardown(o, after))
BY DEF Started, Teardown, Operation, DownPCs

LEMMA RaisedStarted ==
    ASSUME NEW o \in Operation, o.catch = "test" => st.transport # "zapret"
    PROVE  Started(Raised(o))
<1>1. CASE o.catch = "restore"
  <2>1. [o EXCEPT !.catch = "none"] \in Operation /\ [o EXCEPT !.catch = "none"].catch = "none"
    BY DEF Operation
  <2>2. QED BY <1>1, <2>1, TeardownStarted DEF Raised, DownPCs
<1>2. CASE o.catch = "test"
  BY <1>2 DEF Raised, Started, Operation
<1>3. CASE o.catch \notin {"restore", "test"}
  BY <1>3, ReturnedStarted DEF Raised
<1>4. QED BY <1>1, <1>2, <1>3

\* A selection whose failure is recorded.
LEMMA SelectingStarted ==
    ASSUME NEW o \in Operation, o.catch # "restore", NEW s, NEW n, NEW mode,
           NEW rollback \in BOOLEAN, rollback => st.connected
    PROVE  Started(Selecting(o, s, n, mode, TRUE, rollback))
BY DEF Started, Selecting, Operation

LEMMA CommitStarted ==
    ASSUME st \in State, NEW s, NEW n, NEW ret \in {"commit", "commitSettings"}
    PROVE  Started(Commit(s, n, ret))
<1>1. [Call EXCEPT !.ret = ret] \in Operation BY CallType DEF Operation
<1>2. [Call EXCEPT !.ret = ret].catch = "none" BY CallValues DEF Operation
<1>3. RollbackWanted \in BOOLEAN /\ (RollbackWanted => st.connected)
  BY DEF RollbackWanted, State
<1>4. QED BY <1>1, <1>2, <1>3, SelectingStarted DEF Commit

LEMMA FallbackStarted ==
    ASSUME NEW o \in Operation, o.catch # "test",
           o.catch = "restore" => o.ret \in {"ok", "settings"}, NEW c, NEW s \in Subs
    PROVE  Started(Fallback(o, c, s))
<1> DEFINE f == [o EXCEPT !.sub = s]
<1>1. f.catch = o.catch /\ f.ret = o.ret /\ f.sub = s BY DEF Operation
<1>2. Started(Teardown(f, "saveDirect")) /\ Started(Teardown(f, "zapOn"))
  BY <1>1 DEF Started, Teardown, Operation
<1>3. st.transport = "zapret" => Started([f EXCEPT !.pc = "zapOn"])
  BY <1>1 DEF Started, Operation
<1>4. QED BY <1>2, <1>3, EffectiveZapret DEF Fallback

LEMMA TestModeStarted ==
    ASSUME NEW o \in Operation, NEW c,
           o.catch = "test" => st.transport # "zapret",
           o.catch = "none" => st.connected,
           o.catch = "restore" => o.ret \in {"ok", "settings"}
    PROVE  Started(TestMode(o, c))
<1>1. Started(Raised(o)) BY RaisedStarted
<1>2. Started(Teardown(o, "zapTest")) BY DEF Started, Teardown, Operation
<1>3. QED BY <1>1, <1>2 DEF TestMode

LEMMA ReapplyStarted ==
    ASSUME TypeOK, NEW o \in Operation, o.catch # "test", NEW c,
           o.catch = "restore" => o.ret \in {"ok", "settings"}
    PROVE  Started(Reapply(o, c))
<1>1. (~st.connected \/ st.sub = None)
         => Started(Teardown([o EXCEPT !.catch = "none"], "done"))
  BY DEF Started, Teardown, Operation
<1>2. st.connected => Started(TestMode(o, c)) BY TestModeStarted
<1>3. Stored(st.sub) => Started(Fallback(o, c, st.sub))
  BY FallbackStarted DEF Stored, TypeOK, State, SubOrNone
<1>4. Started(Raised(o)) BY RaisedStarted
<1>5. OnProxy => Started(Selecting(o, st.sub, st.node, st.mode, FALSE, FALSE))
  BY DEF Started, Selecting, Operation
<1>6. QED BY <1>1, <1>2, <1>3, <1>4, <1>5 DEF Reapply, OnProxy, EffectiveTransport

LEMMA PinNodeBegins ==
    ASSUME TypeOK, NEW s, NEW n, PinNode(s, n)
    PROVE  Begins
<1>1. CASE HasNode(s, n)
  <2>1. PICK m \in SameName(s, n) :
          op' = Selecting([Call EXCEPT !.ret = "settings"], s, m, "manual", TRUE, RollbackWanted)
    BY <1>1 DEF PinNode
  <2>2. /\ [Call EXCEPT !.ret = "settings"] \in Operation
        /\ [Call EXCEPT !.ret = "settings"].catch = "none"
    BY CallValues DEF Operation
  <2>3. RollbackWanted \in BOOLEAN /\ (RollbackWanted => st.connected)
    BY DEF RollbackWanted, TypeOK, State
  <2>4. Started(op') BY <2>1, <2>2, <2>3, SelectingStarted
  <2>5. QED BY <1>1, <2>4 DEF PinNode, Begins
<1>2. CASE ~HasNode(s, n)
  BY <1>2, ReturnedStarted DEF PinNode, Answer, Begins
<1>3. QED BY <1>1, <1>2

LEMMA SelectAutoBegins ==
    ASSUME TypeOK, NEW s \in SubOrNone, SelectAuto(s)
    PROVE  Begins
<1>1. CASE ~Stored(s)
  BY <1>1, ReturnedStarted DEF SelectAuto, Answer, Begins
<1>2. CASE ChooseNode(s)
  <2>1. PICK n \in subs[s] : op' = Commit(s, n, "commitSettings") BY <1>2 DEF ChooseNode
  <2>2. Started(op') BY <2>1, CommitStarted DEF TypeOK
  <2>3. QED BY <1>2, <2>2 DEF ChooseNode, Begins
<1>3. CASE Stored(s) /\ ChooseNone(s) /\ cfg.profile.zapret
  <2>0. s \in Subs BY <1>3 DEF Stored, SubOrNone
  <2>1. /\ [Call EXCEPT !.mode = "auto", !.ret = "settings"] \in Operation
        /\ [Call EXCEPT !.mode = "auto", !.ret = "settings"].catch = "none"
    BY CallValues DEF Operation, Modes
  <2>2. op' = Fallback([Call EXCEPT !.mode = "auto", !.ret = "settings"], cfg, s)
    BY <1>3 DEF ChooseNone
  <2>3. Started(op')
    BY <2>0, <2>1, <2>2, FallbackStarted
  <2>4. QED BY <1>3, <2>3 DEF ChooseNone, Begins
<1>4. CASE Stored(s) /\ ChooseNone(s) /\ ~cfg.profile.zapret
  <2>1. s \in Subs BY <1>4 DEF Stored, SubOrNone
  <2>2. op'.pc = "idle" BY <1>4 DEF ChooseNone, Returned
  <2>3. QED BY <1>4, <2>1, <2>2, ReturnedStarted DEF ChooseNone, Begins
<1>5. QED BY <1>1, <1>2, <1>3, <1>4 DEF SelectAuto

\* Every handler only decides on an operation, or answers at once.
LEMMA HandlerBegins == TypeOK /\ LedgerOK /\ Handler => op.pc = "idle" /\ Begins
<1> SUFFICES ASSUME TypeOK, LedgerOK, Handler PROVE op.pc = "idle" /\ Begins
  OBVIOUS
<1>a. op \in Operation /\ st \in State
  BY DEF TypeOK
<1>b. Call \in Operation /\ Call.catch = "none" /\ Call.ret = "ok"
  BY CallValues
<1>c. \A after \in DownPCs \ {"saveFailed", "done"} : Started(Teardown(Call, after))
  BY <1>b, TeardownStarted
<1>d. \A r : Answer(r) => Begins
  BY ReturnedStarted DEF Answer, Begins
<1>e. ASSUME NEW active, NEW s, NEW n, Remove(active, s, n) \/ RemoveUnread(s, n)
      PROVE  Begins
  <2>1. Started(Teardown([Call EXCEPT !.sub = s, !.node = n], "saveSubs"))
    BY DEF Started, Teardown, Call, Returned
  <2>2. QED
    BY <1>e, <1>d, <2>1, ReturnedStarted DEF Remove, RemoveUnread, StoreRemoved, Begins
<1>1. ASSUME NEW s \in Subs, NEW ns \in (SUBSET Catalog[s]) \ {{}},
             AddSubscription(s, ns) \/ RefreshSubscription(s, ns)
      PROVE  op.pc = "idle" /\ Begins
  BY <1>1, <1>d, ReturnedStarted
     DEF AddSubscription, RefreshSubscription, StoreNodes, Begins, Idle
<1>2. ASSUME NEW s \in Subs, RemoveSubscription(s) PROVE op.pc = "idle" /\ Begins
  BY <1>2, <1>e DEF RemoveSubscription, Idle
<1>3. ASSUME NEW s \in Subs, ConnectAuto(s) PROVE op.pc = "idle" /\ Begins
  BY <1>3, SelectAutoBegins DEF ConnectAuto, Idle, SubOrNone
<1>4. ASSUME NEW s \in Subs, NEW n \in Nodes, RemoveSubscriptionNode(s, n)
      PROVE  op.pc = "idle" /\ Begins
  BY <1>4, <1>e DEF RemoveSubscriptionNode, Idle
<1>5. ASSUME NEW s \in Subs, NEW n \in Nodes, ConnectManual(s, n)
      PROVE  op.pc = "idle" /\ Begins
  BY <1>5, PinNodeBegins DEF ConnectManual, Idle
<1>6. CASE RemoveAllSubscriptions
  BY <1>6, <1>e DEF RemoveAllSubscriptions, Idle
<1>7. CASE Disconnect
  BY <1>7, <1>c DEF Disconnect, Idle, Begins, DownPCs
<1>8. ASSUME NEW ns \in (SUBSET Nodes) \ {{}}, RefreshAndReconnect(ns)
      PROVE  op.pc = "idle" /\ Begins
  <2>1. Started([Call EXCEPT !.pc = "reconnect"])
    BY <1>b DEF Started, Operation
  <2>2. QED
    BY <1>8, <1>d, <2>1, ReturnedStarted DEF RefreshAndReconnect, StoreNodes, Begins, Idle
<1>9. CASE HealthCheck
  <2>1. \A n : Started(Commit(st.sub, n, "commit")) BY <1>a, CommitStarted
  <2>2. Stored(st.sub) => Started(Fallback(Call, cfg, st.sub))
    BY <1>a, <1>b, FallbackStarted DEF Stored, State, SubOrNone
  <2>3. Started(Teardown(Call, "saveDropped")) BY <1>c DEF DownPCs
  <2>4. \/ op' \in {Commit(st.sub, n, "commit") : n \in subs[st.sub]}
        \/ Stored(st.sub) /\ op' = Fallback(Call, cfg, st.sub)
        \/ op' \in {Teardown(Call, "saveDropped"), Returned("failed")}
    BY <1>9 DEF HealthCheck
  <2>5. Started(op') BY <2>1, <2>2, <2>3, <2>4, ReturnedStarted
  <2>6. QED BY <1>9, <2>5 DEF HealthCheck, Begins, Idle
<1>10. CASE RestoreRuntime
  <2> DEFINE o == [Call EXCEPT !.catch = "restore", !.mode = st.mode,
                               !.ret = IF st.test THEN "ok" ELSE "settings"]
  <2>1. o.catch = "restore" /\ o.ret \in {"ok", "settings"}
    BY <1>b DEF Operation
  <2>2. o \in Operation
    <3> DEFINE r == IF st.test THEN "ok" ELSE "settings"
    <3>1. st.mode \in Modes BY <1>a DEF State
    <3>2. r \in {"ok", "settings"} OBVIOUS
    <3> HIDE DEF r
    <3>3. [Call EXCEPT !.catch = "restore", !.mode = st.mode, !.ret = r] \in Operation
      BY <1>b, <3>1, <3>2 DEF Operation
    <3>4. QED BY <3>3 DEF r
  <2>3. op' = Reapply(o, cfg) BY <1>10 DEF RestoreRuntime
  <2> HIDE DEF o
  <2>4. Started(op') BY <2>1, <2>2, <2>3, ReapplyStarted
  <2>5. QED BY <1>10, <2>4 DEF RestoreRuntime, Begins, Idle
<1>11. CASE Refused
  BY <1>11, <1>d DEF Refused, Idle
<1>12. CASE StartZapretTest
  <2>1. CASE EffectiveTransport(st) = "zapret"
    BY <1>12, <2>1, ReturnedStarted DEF StartZapretTest, Begins, Idle
  <2>2. CASE EffectiveTransport(st) # "zapret"
    <3> DEFINE o == [Call EXCEPT !.catch = "test"]
    <3>1. o \in Operation /\ o.catch = "test" BY <1>b DEF Operation
    <3>2. op' = TestMode(o, cfg) BY <1>12, <2>2 DEF StartZapretTest
    <3>3. st.transport # "zapret" BY <2>2 DEF EffectiveTransport
    <3> HIDE DEF o
    <3>4. Started(op') BY <3>1, <3>2, <3>3, TestModeStarted
    <3>5. QED BY <1>12, <3>4 DEF StartZapretTest, Begins, Idle
  <2>3. QED BY <2>1, <2>2
<1>13. CASE StopZapretTest
  <2>1. Started(Selecting(Call, st.restore.sub, st.restore.node, st.restore.mode, TRUE, FALSE))
    BY <1>b, SelectingStarted
  <2>2. Started(Teardown(Call, "saveTestStopped")) BY <1>c DEF DownPCs
  <2>3. op' \in {Selecting(Call, st.restore.sub, st.restore.node, st.restore.mode, TRUE, FALSE),
                 Returned("failed"), Teardown(Call, "saveTestStopped")}
    BY <1>13 DEF StopZapretTest
  <2>4. Started(op') BY <2>1, <2>2, <2>3, ReturnedStarted
  <2>5. QED BY <1>13, <2>4 DEF StopZapretTest, Begins, Idle
<1>f. ASSUME NEW p, NEW next, NEW otherwise, Started(next), SaveProfile(p, next, otherwise)
      PROVE  op.pc = "idle" /\ Begins
  BY <1>f, ReturnedStarted DEF SaveProfile, Begins, Idle
<1>14. ASSUME NEW b \in BOOLEAN, SetZapretEnabled(b) PROVE op.pc = "idle" /\ Begins
  <2>1. Started(Teardown(Call, "saveZapretOff")) BY <1>c DEF DownPCs
  <2>2. PICK next \in {Returned("ok"), Teardown(Call, "saveZapretOff")} :
          SaveProfile([cfg.profile EXCEPT !.zapret = b], next, IF b THEN "ok" ELSE "failed")
    BY <1>14 DEF SetZapretEnabled
  <2>3. Started(next) BY <2>1, <2>2, ReturnedStarted
  <2>4. QED BY <1>f, <2>2, <2>3
<1>15. ASSUME NEW b \in BOOLEAN, SetAutoMode(b) PROVE op.pc = "idle" /\ Begins
  <2>1. op.pc = "idle" BY <1>15 DEF SetAutoMode, Idle
  <2>u. ASSUME NEW m, SaveAutoMode(b, m) PROVE Begins
    BY <2>u, ReturnedStarted DEF SaveAutoMode, Begins
  <2>2. CASE b /\ st.connected /\ st.sub # None
    BY <1>15, <1>a, <2>1, <2>u, <2>2, SelectAutoBegins DEF SetAutoMode, State
  <2>3. CASE ~b /\ st.connected /\ st.mode = "auto" /\ st.sub # None /\ st.node # None
    BY <1>15, <2>1, <2>u, <2>3, PinNodeBegins DEF SetAutoMode
  <2>4. CASE ~(b /\ st.connected /\ st.sub # None)
             /\ ~(~b /\ st.connected /\ st.mode = "auto" /\ st.sub # None /\ st.node # None)
    BY <1>15, <2>1, <2>u, <2>4 DEF SetAutoMode
  <2>5. QED BY <2>2, <2>3, <2>4
<1>16. ASSUME NEW sel \in Selectors, SetZapretSelectors(sel)
       PROVE  op.pc = "idle" /\ Begins
  <2> DEFINE p == [cfg.profile EXCEPT !.selectors = sel, !.zapret = @ /\ sel # "none"]
  <2>1. st.test => Started(TestMode(Call, With(p)))
    BY <1>b, TestModeStarted DEF LedgerOK
  <2>2. Stored(st.sub) => Started(Fallback(Call, With(p), st.sub))
    BY <1>a, <1>b, FallbackStarted DEF Stored, State, SubOrNone
  <2>3. Started(Teardown(Call, "saveZapretOff")) BY <1>c DEF DownPCs
  <2>4. \E next :
          /\ SaveProfile(p, next, "ok")
          /\ \/ next \in {Returned("ok"), Returned("failed"), Teardown(Call, "saveZapretOff")}
             \/ st.test /\ next = TestMode(Call, With(p))
             \/ Stored(st.sub) /\ next = Fallback(Call, With(p), st.sub)
    BY <1>16 DEF SetZapretSelectors
  <2>5. QED BY <1>f, <2>1, <2>2, <2>3, <2>4, ReturnedStarted
<1>17. ASSUME NEW d \in BOOLEAN, NEW f \in BOOLEAN, SetRouting(d, f)
       PROVE  op.pc = "idle" /\ Begins
  <2> DEFINE p == [cfg.profile EXCEPT !.dns = d, !.fw = f]
  <2>1. Started(Reapply(Call, With(p))) BY <1>b, ReapplyStarted
  <2>2. QED BY <1>17, <1>f, <2>1 DEF SetRouting
<1>18. QED
  BY <1>1, <1>2, <1>3, <1>4, <1>5, <1>6, <1>7, <1>8, <1>9, <1>10, <1>11, <1>12, <1>13,
     <1>14, <1>15, <1>16, <1>17 DEF Handler

-----------------------------------------------------------------------------
(* What an operation under way owes the ledger, when tearing down and      *)
(* saving do not fail and nothing crashes.                                 *)

\* Where nothing has been done yet, or everything.
Settled == {"idle", "reconnect", "saveSettings", "leaveZapret", "testFailed"}

\* How an operation was called, at each of its points.
CallOK ==
    /\ op.pc \in TeardownPCs /\ op.after = "zapTest" /\ op.catch = "none" => st.connected
    /\ op.pc = "zapTest" /\ op.catch = "none" => st.connected
    /\ op.pc \in SelectionPCs /\ ~op.persist
         => OnProxy /\ op.node = st.node /\ ~op.rollback
    /\ op.pc \in SelectionPCs /\ op.rollback => st.connected
    /\ op.pc = "rollback" => op.rollback

\* Without a connection nothing is in place, unless it is being put there.
DownOK ==
    /\ op.pc \in Settled \ {"testFailed"} /\ ~st.connected => AllDown
    /\ op.pc = "testFailed" /\ ~st.connected => ProxyDown
    /\ op.pc = "saveTestFailed" => AllDown

\* The node that serves is the ledger's.
OwnNode ==
    OnProxy => /\ rt.xray = None \/ rt.xray.node = st.node
               /\ conf.good # None /\ conf.good.node = st.node

\* A switch to another node, until the ledger names that node or drops the
\* connection.
Switching ==
    \/ op.persist /\ op.pc \in {"verify", "rollback", "saveHealth", "dns", "fw",
                                "saveConnected", "saveCommit"}
    \/ op.after = "saveFailed" /\ op.pc \in TeardownPCs \cup {"saveFailed"}

NodeOK ==
    /\ op.pc \in {"verify", "dns", "fw", "saveConnected", "saveCommit"} => conf.good = Candidate
    /\ op.pc \in {"xrayApply", "verify", "rollback"} /\ op.rollback /\ OnProxy
         => op.snap # None /\ op.snap.node = st.node
    /\ ~Switching => OwnNode

QuietInv == LedgerOK /\ CallOK /\ DownOK /\ NodeOK

\* An operation that is over, but for settings.json.
LEMMA SettledQuiet ==
    ASSUME LedgerOK', OwnNode', ~st'.connected => AllDown',
           op'.pc \in {"idle", "reconnect", "saveSettings"}
    PROVE  QuietInv'
BY DEF QuietInv, CallOK, DownOK, NodeOK, Settled, Switching, SelectionPCs, TeardownPCs

LEMMA TeardownQuiet ==
    ASSUME LedgerOK', NEW o \in Operation, NEW after, op' = Teardown(o, after),
           after # "saveFailed" => OwnNode',
           after = "zapTest" /\ o.catch = "none" => st'.connected
    PROVE  QuietInv'
<1>1. op'.pc = "dnsOff" /\ op'.after = after /\ op'.catch = o.catch
  BY DEF Teardown, Operation
<1>2. QED
  BY <1>1 DEF QuietInv, CallOK, DownOK, NodeOK, Settled, Switching, SelectionPCs, TeardownPCs

\* An error return leaves the ledger's node in place; the caller that records
\* no failure had a connection.
LEMMA RaisedQuiet ==
    ASSUME LedgerOK', OwnNode', NEW o \in Operation, op' = Raised(o),
           o.catch = "none" /\ ~st'.connected => AllDown',
           o.catch = "test" /\ ~st'.connected => ProxyDown'
    PROVE  QuietInv'
<1>1. CASE o.catch = "restore"
  <2>1. [o EXCEPT !.catch = "none"] \in Operation BY DEF Operation
  <2>2. op' = Teardown([o EXCEPT !.catch = "none"], "saveRestoreFailed")
    BY <1>1 DEF Raised
  <2>3. QED BY <2>1, <2>2, TeardownQuiet
<1>2. CASE o.catch = "test"
  <2>1. op'.pc = "testFailed" BY <1>2 DEF Raised, Operation
  <2>2. QED
    BY <1>2, <2>1 DEF QuietInv, CallOK, DownOK, NodeOK, Settled, Switching, SelectionPCs,
                      TeardownPCs
<1>3. CASE o.catch = "none"
  <2>1. op'.pc = "idle" BY <1>3 DEF Raised, Returned
  <2>2. QED BY <1>3, <2>1, SettledQuiet
<1>4. QED BY <1>1, <1>2, <1>3 DEF Operation

\* A selection that fails records the failure, or leaves the node it found.
LEMMA SelectionFailedQuiet ==
    ASSUME IInv, QuietInv, op.pc \in SelectionPCs, op' = SelectionFailed(op), st' = st,
           ~op.persist => OwnNode'
    PROVE  QuietInv'
<1>a. op \in Operation /\ LedgerOK' /\ op.catch # "test"
  BY DEF IInv, TypeOK, OpOK, SelectionOK, QuietInv, LedgerOK
<1>1. CASE op.persist
  <2>1. op' = Teardown(op, "saveFailed") BY <1>1 DEF SelectionFailed
  <2>2. QED BY <1>a, <2>1, TeardownQuiet
<1>2. CASE ~op.persist
  <2>1. op' = Raised(op) BY <1>2 DEF SelectionFailed
  <2>2. st'.connected BY <1>2 DEF QuietInv, CallOK, OnProxy
  <2>3. QED BY <1>a, <1>2, <2>1, <2>2, RaisedQuiet
<1>3. QED BY <1>1, <1>2

\* A failing ApplyConfig leaves only nodes it found or was given.
LEMMA ApplyFailuresNode ==
    ASSUME NEW x \in Outbound \cup {None}, NEW f \in XrayFiles, NEW c \in Outbound,
           NEW r \in ApplyFailures(x, f, c), NEW n,
           x = None \/ x.node = n, f.good # None, f.good.node = n, c.node = n
    PROVE  /\ r[1] = None \/ r[1].node = n
           /\ r[2].good # None /\ r[2].good.node = n
<1> DEFINE restored == Files(f.good, f.good)
           written  == Files(c, IF f.good = None THEN c ELSE f.good)
<1>1. restored.good = f.good /\ written.good = f.good BY DEF Files
<1> HIDE DEF restored, written
<1>2. r \in {<<x, f>>, <<f.good, restored>>} \cup ({x, None, c} \X {restored, written})
  BY DEF ApplyFailures, restored, written
<1>3. QED BY <1>1, <1>2

LEMMA BeginsQuiet ==
    ASSUME IInv, QuietInv, op.pc \in {"idle", "reconnect"}, Begins
    PROVE  QuietInv'
<1>1. OwnNode BY DEF QuietInv, NodeOK, Switching, TeardownPCs
<1>2. st.connected \/ AllDown BY DEF QuietInv, DownOK, Settled
<1>3. CASE st' = st
  <2>1. LedgerOK' /\ OwnNode' /\ (st'.connected \/ AllDown')
    BY <1>1, <1>2, <1>3 DEF Begins, QuietInv, LedgerOK, OwnNode, OnProxy, AllDown, ProxyDown
  <2>2. Started(op') BY DEF Begins
  <2>3. /\ op'.pc \in SelectionPCs => op'.pc = "leaveZapret"
        /\ op'.pc \in TeardownPCs => op'.pc = "dnsOff"
    BY <2>2 DEF Started, SelectionPCs, TeardownPCs
  <2>4. CallOK' BY <1>3, <2>2, <2>3 DEF CallOK, Started, OnProxy
  <2>5. DownOK' BY <2>1, <2>2 DEF DownOK, Started, AllDown
  <2>6. ~Switching' BY <2>2 DEF Started, Switching, TeardownPCs
  <2>7. NodeOK' BY <2>1, <2>2, <2>6 DEF NodeOK, Started
  <2>8. QED BY <2>1, <2>4, <2>5, <2>7 DEF QuietInv
<1>4. ASSUME op'.pc = "idle", NEW s \in Subs, st' = [st EXCEPT !.sub = s, !.mode = "auto"]
      PROVE  QuietInv'
  <2>1. /\ st'.connected = st.connected /\ st'.transport = st.transport
        /\ st'.test = st.test /\ st'.node = st.node
    BY <1>4 DEF IInv, TypeOK, State
  <2>2. LedgerOK' /\ OwnNode' /\ (st'.connected \/ AllDown')
    BY <1>1, <1>2, <2>1 DEF Begins, QuietInv, LedgerOK, OwnNode, OnProxy, AllDown, ProxyDown
  <2>3. QED BY <1>4, <2>2, SettledQuiet
<1>5. QED BY <1>3, <1>4 DEF Begins

\* The faults under which this is kept: any step of setting a route up may fail.
SetupFaultsOnly == Faults \subseteq SetupFaults

LEMMA NoTeardownFault ==
    ASSUME SetupFaultsOnly, NEW f \in TeardownFaults \cup {"load", "save", "crash", "reboot"}
    PROVE  ~Fails(f)
BY DEF SetupFaultsOnly, SetupFaults, TeardownFaults, Fails

LEMMA StepQuiet == SetupFaultsOnly /\ IInv /\ QuietInv /\ Step => QuietInv'
<1> SUFFICES ASSUME SetupFaultsOnly, IInv, QuietInv, Step PROVE QuietInv'
  OBVIOUS
<1>a. op \in Operation /\ st \in State /\ rt \in Runtime /\ conf \in XrayFiles
  BY DEF IInv, TypeOK
<1>b. TeardownOK /\ SelectionOK /\ ZapretOK BY DEF IInv, OpOK
<1>c. LedgerOK /\ CallOK /\ DownOK /\ NodeOK BY DEF QuietInv
<1>d. ~Fails("save") /\ ~Fails("dnsOff") /\ ~Fails("stop") /\ ~Fails("fwOff") /\ ~Fails("zapOff")
  BY NoTeardownFault DEF TeardownFaults
<1>e. st' = st => LedgerOK' BY <1>c DEF LedgerOK
<1>f. OwnNode /\ st' = st /\ conf' = conf /\ rt'.xray \in {rt.xray, None} => OwnNode'
  BY DEF OwnNode, OnProxy
<1>1. CASE StopDNS
  <2>1. /\ op.pc = "dnsOff" /\ op'.pc = "xrayStop" /\ op'.after = op.after /\ op'.catch = op.catch
        /\ st' = st /\ conf' = conf /\ rt'.xray = rt.xray
    BY <1>a, <1>1 DEF StopDNS, Goto, Operation, Runtime
  <2>2. QED
    BY <1>c, <1>e, <1>f, <2>1 DEF QuietInv, CallOK, DownOK, NodeOK, Switching, Settled, TeardownPCs,
       SelectionPCs
<1>2. CASE StopDNSFails \/ StopXrayFails \/ StopFirewallFails \/ StopZapretFails
           \/ LeaveZapretFails \/ SaveStateFails \/ SaveFailedHealthFails
           \/ SaveDroppedAgainFails \/ SaveModeFails \/ SaveSubscriptionsFails
  BY <1>d, <1>2 DEF StopDNSFails, StopXrayFails, StopFirewallFails, StopZapretFails,
     LeaveZapretFails, DisableZapretFails, SaveStateFails, SaveFailedHealthFails,
     SaveDroppedAgainFails, SaveModeFails, SaveSubscriptionsFails
<1>3. CASE StopXray
  <2>1. /\ op.pc = "xrayStop" /\ op'.pc = "fwOff" /\ op'.after = op.after /\ op'.catch = op.catch
        /\ st' = st /\ conf' = conf /\ rt'.xray = None
    BY <1>a, <1>3 DEF StopXray, Goto, Operation, Runtime
  <2>2. QED
    BY <1>c, <1>e, <1>f, <2>1 DEF QuietInv, CallOK, DownOK, NodeOK, Switching, Settled, TeardownPCs,
       SelectionPCs
<1>5. CASE StopFirewall
  <2>1. /\ op.pc = "fwOff" /\ op'.after = op.after /\ op'.catch = op.catch
        /\ op'.pc = (IF op.after \in {"zapOn", "zapTest"} THEN op.after ELSE "zapOff")
        /\ st' = st /\ conf' = conf /\ rt'.xray = rt.xray
    BY <1>a, <1>5 DEF StopFirewall, Goto, Operation, Runtime
  <2>2. QED
    BY <1>c, <1>e, <1>f, <2>1 DEF QuietInv, CallOK, DownOK, NodeOK, Switching, Settled, TeardownPCs,
       SelectionPCs
<1>7. CASE StopZapret
  <2>1. /\ op.pc = "zapOff" /\ op'.after = op.after /\ op'.pc = op.after
        /\ st' = st /\ conf' = conf /\ rt'.xray = rt.xray
    BY <1>a, <1>7 DEF StopZapret, Goto, Operation, Runtime
  <2>2. op.after \in DownPCs BY <1>b, <2>1 DEF TeardownOK
  <2>3. QED
    BY <1>c, <1>e, <1>f, <2>1, <2>2 DEF QuietInv, CallOK, DownOK, NodeOK, Switching, Settled,
       TeardownPCs, SelectionPCs, DownPCs
<1>g. /\ op.pc \notin {"verify", "rollback", "saveHealth", "dns", "fw", "saveConnected",
                       "saveCommit", "saveFailed"} \cup TeardownPCs => OwnNode
      /\ op.pc \in SelectionPCs /\ ~op.persist => OwnNode
  BY <1>c DEF NodeOK, Switching, SelectionPCs, TeardownPCs
<1>9. CASE TeardownDone
  <2>1. op.pc = "done" /\ op'.pc = "idle" /\ UNCHANGED <<st, rt, conf>>
    BY <1>9 DEF TeardownDone, Returned
  <2>2. AllDown' BY <1>b, <2>1 DEF TeardownOK, DownPCs, AllDown, ProxyDown
  <2>3. OwnNode' BY <1>f, <1>g, <2>1 DEF TeardownPCs
  <2>4. QED BY <1>e, <2>1, <2>2, <2>3, SettledQuiet
<1>10. CASE LeaveZapret
  <2>1. /\ op.pc = "leaveZapret" /\ op'.pc = "xrayApply" /\ op'.persist = op.persist
        /\ op'.rollback = op.rollback /\ op'.node = op.node
        /\ op'.snap = (IF op.rollback THEN conf.good ELSE None)
        /\ st' = st /\ conf' = conf /\ rt'.xray = rt.xray
    BY <1>a, <1>10 DEF LeaveZapret, Operation, Runtime
  <2>2. OwnNode BY <1>g, <2>1 DEF TeardownPCs
  <2>3. OwnNode' BY <1>f, <2>1, <2>2
  <2>4. CallOK' /\ DownOK'
    BY <1>c, <2>1 DEF CallOK, DownOK, Settled, TeardownPCs, SelectionPCs, OnProxy
  <2>5. NodeOK' BY <2>1, <2>2, <2>3 DEF NodeOK, OwnNode, OnProxy
  <2>6. QED BY <1>e, <2>1, <2>4, <2>5 DEF QuietInv
<1>11. CASE PrepareFails
  <2>1. op.pc = "leaveZapret" /\ op' = Raised(op) /\ UNCHANGED <<st, rt, conf>>
    BY <1>11 DEF PrepareFails
  <2>2. OwnNode' BY <1>f, <1>g, <2>1 DEF TeardownPCs
  <2>3. ~st'.connected => AllDown'
    BY <1>c, <2>1 DEF DownOK, Settled, AllDown, ProxyDown
  <2>4. op.catch # "test" BY <1>b, <2>1 DEF SelectionOK, SelectionPCs
  <2>5. QED BY <1>a, <1>e, <2>1, <2>2, <2>3, <2>4, RaisedQuiet
<1>13. CASE ApplyXray
  <2>1. /\ op.pc = "xrayApply" /\ op'.pc = "verify" /\ op'.persist = op.persist
        /\ op'.rollback = op.rollback /\ op'.node = op.node /\ op'.snap = op.snap
        /\ Candidate' = Candidate /\ Candidate.node = op.node
        /\ st' = st /\ conf'.good = Candidate /\ rt'.xray = Candidate
    BY <1>a, <1>13 DEF ApplyXray, Goto, Candidate, Operation, Runtime, Files
  <2>2. Candidate \in Outbound BY <1>b, <2>1 DEF SelectionOK, SelectionPCs, Candidate, Outbound
  <2>3. Candidate # None BY <2>2 DEF Outbound
  <2>4. CallOK' /\ DownOK'
    BY <1>c, <2>1 DEF CallOK, DownOK, Settled, TeardownPCs, SelectionPCs, OnProxy
  <2>5. ~op.persist => OwnNode'
    BY <1>c, <2>1, <2>3 DEF CallOK, SelectionPCs, OwnNode, OnProxy
  <2>6. NodeOK' BY <1>c, <2>1, <2>5 DEF NodeOK, Switching, OnProxy
  <2>7. QED BY <1>e, <2>1, <2>4, <2>6 DEF QuietInv
<1>14. CASE ApplyXrayFails
  <2>1. op.pc = "xrayApply" /\ op' = SelectionFailed(op) /\ st' = st
    BY <1>14 DEF ApplyXrayFails
  <2>2. PICK r \in ApplyFailures(rt.xray, conf, Candidate) :
          rt' = [rt EXCEPT !.xray = r[1]] /\ conf' = r[2]
    BY <1>14 DEF ApplyXrayFails
  <2>3. Candidate \in Outbound /\ Candidate.node = op.node
    BY <1>b, <2>1 DEF SelectionOK, SelectionPCs, Candidate, Outbound
  <2>4. ASSUME ~op.persist PROVE OwnNode'
    <3>1. op.node = st.node /\ OnProxy
      BY <1>c, <2>1, <2>4 DEF CallOK, SelectionPCs
    <3>2. OwnNode BY <1>g, <2>1 DEF TeardownPCs
    <3>3. /\ r[1] = None \/ r[1].node = st.node
          /\ r[2].good # None /\ r[2].good.node = st.node
      BY <1>a, <2>3, <3>1, <3>2, ApplyFailuresNode DEF OwnNode, Runtime
    <3>4. rt'.xray = r[1] BY <1>a, <2>2 DEF Runtime
    <3>5. QED BY <2>1, <2>2, <3>3, <3>4 DEF OwnNode
  <2>5. QED BY <2>1, <2>4, SelectionFailedQuiet DEF SelectionPCs
<1>15. CASE VerifyXray
  <2>1. /\ op.pc = "verify" /\ op'.pc = "dns" /\ op'.persist = op.persist
        /\ op'.rollback = op.rollback /\ op'.node = op.node /\ op'.sub = op.sub
        /\ UNCHANGED <<st, rt, conf>>
    BY <1>a, <1>15 DEF VerifyXray, Goto, Operation
  <2>2. CallOK' /\ DownOK'
    BY <1>c, <2>1 DEF CallOK, DownOK, Settled, TeardownPCs, SelectionPCs, OnProxy
  <2>3. NodeOK'
    BY <1>c, <1>f, <1>g, <2>1 DEF NodeOK, Switching, Candidate, SelectionPCs
  <2>4. QED BY <1>e, <2>1, <2>2, <2>3 DEF QuietInv
<1>16. CASE VerifyXrayFails
  <2>1. /\ op.pc = "verify" /\ op'.pc \in {"rollback", "saveHealth"}
        /\ op'.pc = "rollback" => op.rollback
        /\ op'.persist = op.persist /\ op'.snap = op.snap
        /\ op'.rollback = op.rollback /\ op'.node = op.node
        /\ st' = st /\ conf' = conf /\ rt'.xray \in {rt.xray, None}
    BY <1>a, <1>16 DEF VerifyXrayFails, Goto, Operation, Runtime
  <2>2. CallOK' /\ DownOK'
    BY <1>c, <2>1 DEF CallOK, DownOK, Settled, TeardownPCs, SelectionPCs, OnProxy
  <2>3. NodeOK'
    BY <1>c, <1>f, <1>g, <2>1 DEF NodeOK, Switching, SelectionPCs, OnProxy
  <2>4. QED BY <1>e, <2>1, <2>2, <2>3 DEF QuietInv
<1>17. CASE RollbackXray
  <2>1. /\ op.pc = "rollback" /\ op' = Raised(op) /\ st' = st
        /\ rt'.xray = op.snap /\ conf'.good = op.snap
    BY <1>a, <1>17 DEF RollbackXray, Runtime, Files
  <2>2. op.rollback /\ st'.connected BY <1>c, <2>1 DEF CallOK, SelectionPCs
  <2>3. OwnNode' BY <1>c, <2>1, <2>2 DEF NodeOK, OwnNode, OnProxy
  <2>4. QED BY <1>a, <1>e, <2>1, <2>2, <2>3, RaisedQuiet
<1>18. CASE RollbackXrayFails
  <2>1. /\ op.pc = "rollback" /\ op'.pc = "saveHealth" /\ op'.persist = op.persist
        /\ op'.rollback = op.rollback /\ op'.node = op.node /\ st' = st
    BY <1>a, <1>18 DEF RollbackXrayFails, Goto, Operation
  <2>2. op.persist BY <1>c, <2>1 DEF CallOK, SelectionPCs
  <2>3. CallOK' /\ DownOK'
    BY <1>c, <2>1, <2>2 DEF CallOK, DownOK, Settled, TeardownPCs, SelectionPCs, OnProxy
  <2>4. NodeOK' BY <2>1, <2>2 DEF NodeOK, Switching
  <2>5. QED BY <1>e, <2>1, <2>3, <2>4 DEF QuietInv
<1>19. CASE SaveFailedHealth \/ ApplyDNSFails \/ ApplyFirewallFails
  <2>1. /\ op.pc \in SelectionPCs /\ op' = SelectionFailed(op) /\ st' = st /\ conf' = conf
        /\ rt'.xray = rt.xray
    BY <1>a, <1>19 DEF SaveFailedHealth, ApplyDNSFails, ApplyFirewallFails, SelectionPCs, Runtime
  <2>2. ~op.persist => OwnNode' BY <1>f, <1>g, <2>1
  <2>3. QED BY <2>1, <2>2, SelectionFailedQuiet
<1>21. CASE ApplyDNS \/ ApplyFirewall
  <2>1. /\ op.pc \in {"dns", "fw"} /\ op'.pc \in {"fw", "saveConnected"}
        /\ op'.persist = op.persist /\ op'.rollback = op.rollback
        /\ op'.node = op.node /\ op'.sub = op.sub
        /\ st' = st /\ conf' = conf /\ rt'.xray = rt.xray
    BY <1>a, <1>21 DEF ApplyDNS, ApplyFirewall, Goto, Operation, Runtime
  <2>2. CallOK' /\ DownOK'
    BY <1>c, <2>1 DEF CallOK, DownOK, Settled, TeardownPCs, SelectionPCs, OnProxy
  <2>3. NodeOK'
    BY <1>c, <1>f, <1>g, <2>1 DEF NodeOK, Switching, Candidate, SelectionPCs
  <2>4. QED BY <1>e, <2>1, <2>2, <2>3 DEF QuietInv
<1>26. CASE SaveConnected \/ SaveCommit
  <2>1. /\ op.pc \in {"saveConnected", "saveCommit"} /\ st' = ConnectedState
        /\ rt' = rt /\ conf' = conf
    BY <1>26 DEF SaveConnected, SaveCommit, SaveState
  <2>2. /\ st'.connected /\ st'.transport = "proxy" /\ ~st'.test /\ st'.node = op.node
    BY <1>a, <2>1 DEF ConnectedState, State
  <2>3. conf.good = Candidate /\ rt.xray = Candidate
    BY <1>b, <1>c, <2>1 DEF NodeOK, SelectionOK
  <2>4. Candidate \in Outbound /\ Candidate.node = op.node
    BY <1>b, <2>1 DEF SelectionOK, SelectionPCs, Candidate, Outbound
  <2>5. Candidate # None BY <2>4 DEF Outbound
  <2>6. LedgerOK' /\ OwnNode'
    BY <2>1, <2>2, <2>3, <2>4, <2>5 DEF LedgerOK, OwnNode
  <2>7. \/ op'.pc \in {"idle", "saveSettings"}
        \/ /\ op'.pc = "saveCommit" /\ op'.persist = op.persist /\ op'.rollback = op.rollback
           /\ op'.node = op.node /\ op'.sub = op.sub
    <3>1. \A o \in Operation : \/ Finished(o).pc \in {"idle", "saveSettings"}
                              \/ Finished(o) = [o EXCEPT !.pc = "saveCommit"]
      BY DEF Finished, Returned, Operation
    <3>2. CASE SaveConnected
      BY <1>a, <3>1, <3>2 DEF SaveConnected, SaveState, Operation
    <3>3. CASE SaveCommit
      <4> DEFINE o == [op EXCEPT !.ret = IF @ = "commitSettings" THEN "settings" ELSE "ok"]
      <4>1. o \in Operation /\ o.ret \in {"settings", "ok"} BY <1>a DEF Operation
      <4>2. op' = Finished(o) BY <3>3 DEF SaveCommit, SaveState
      <4> HIDE DEF o
      <4>3. QED BY <4>1, <4>2 DEF Finished, Returned, Operation
    <3>4. QED BY <1>26, <3>2, <3>3
  <2>8. CASE op'.pc \in {"idle", "saveSettings"}
    BY <2>2, <2>6, <2>8, SettledQuiet
  <2>9. CASE /\ op'.pc = "saveCommit" /\ op'.persist = op.persist /\ op'.rollback = op.rollback
             /\ op'.node = op.node /\ op'.sub = op.sub
    <3>1. CallOK' /\ DownOK'
      BY <1>c, <2>1, <2>2, <2>9 DEF CallOK, DownOK, Settled, TeardownPCs, SelectionPCs, OnProxy
    <3>2. NodeOK' BY <2>1, <2>3, <2>6, <2>9 DEF NodeOK, Candidate
    <3>3. QED BY <2>6, <3>1, <3>2 DEF QuietInv
  <2>10. QED BY <2>7, <2>8, <2>9
<1>28. CASE SaveZapret \/ SaveTest
  <2>1. /\ op.pc \in {"saveZapret", "saveTest"} /\ op' = Finished(op)
        /\ st'.connected /\ st'.transport = "zapret"
    BY <1>a, <1>28 DEF SaveZapret, SaveTest, SaveState, State
  <2>2. LedgerOK' /\ OwnNode' BY <2>1 DEF LedgerOK, OwnNode, OnProxy
  <2>3. op.ret \notin {"commit", "commitSettings"} BY <1>b, <2>1 DEF ZapretOK, ZapretPCs
  <2>4. op'.pc \in {"idle", "saveSettings"}
    BY <1>a, <2>1, <2>3 DEF Finished, Returned, Operation
  <2>5. QED BY <2>1, <2>2, <2>4, SettledQuiet
<1>h. ASSUME NEW sub, NEW node, NEW mode, st' = Down(st, sub, node, mode)
      PROVE  LedgerOK' /\ OwnNode' /\ ~st'.connected
  <2>1. ~st'.connected /\ st'.transport = "direct" /\ ~st'.test
    BY <1>a, <1>h DEF Down, State
  <2>2. QED BY <2>1 DEF LedgerOK, OwnNode, OnProxy
<1>30. CASE SaveDisconnected
  <2>1. op.pc = "saveDisconnected" /\ op'.pc = "saveSettings" /\ rt' = rt
    BY <1>a, <1>30 DEF SaveDisconnected, SaveState, Operation
  <2>2. AllDown' BY <1>b, <2>1 DEF TeardownOK, DownPCs, AllDown, ProxyDown
  <2>3. LedgerOK' /\ OwnNode' BY <1>30, <1>h DEF SaveDisconnected, SaveState
  <2>4. QED BY <2>1, <2>2, <2>3, SettledQuiet
<1>31. CASE SaveDirect \/ SaveFailed
  <2>1. op.pc \in {"saveDirect", "saveFailed"} /\ op' = Raised(op) /\ rt' = rt
    BY <1>31 DEF SaveDirect, SaveFailed, SaveState
  <2>2. AllDown' BY <1>b, <2>1 DEF TeardownOK, DownPCs, AllDown, ProxyDown
  <2>3. LedgerOK' /\ OwnNode' BY <1>31, <1>h DEF SaveDirect, SaveFailed, SaveState
  <2>4. ProxyDown' BY <2>2 DEF AllDown
  <2>5. QED BY <1>a, <2>1, <2>2, <2>3, <2>4, RaisedQuiet
<1>33. CASE SaveDropped \/ SaveRestoreFailed \/ SaveZapretOff \/ SaveTestFailed \/ SaveTestStopped
  <2>1. /\ op.pc \in {"saveDropped", "saveRestoreFailed", "saveZapretOff", "saveTestFailed",
                      "saveTestStopped"}
        /\ op'.pc = "idle" /\ rt' = rt
    BY <1>33 DEF SaveDropped, SaveRestoreFailed, SaveZapretOff, SaveTestFailed,
       SaveTestStopped, SaveState, Returned
  <2>2. AllDown' BY <1>b, <1>c, <2>1 DEF TeardownOK, DownOK, DownPCs, AllDown, ProxyDown
  <2>3. LedgerOK' /\ OwnNode'
    BY <1>33, <1>h DEF SaveDropped, SaveRestoreFailed, SaveZapretOff, SaveTestFailed,
       SaveTestStopped, SaveState
  <2>4. QED BY <2>1, <2>2, <2>3, SettledQuiet
<1>39. CASE SaveMode
  <2>1. op.pc = "saveSettings" /\ op'.pc = "idle" /\ UNCHANGED <<st, rt, conf>>
    BY <1>39 DEF SaveMode, Returned
  <2>2. OwnNode' BY <1>f, <1>g, <2>1 DEF TeardownPCs
  <2>3. ~st'.connected => AllDown'
    BY <1>c, <2>1 DEF DownOK, Settled, AllDown, ProxyDown
  <2>4. QED BY <1>e, <2>1, <2>2, <2>3, SettledQuiet
<1>41. CASE SaveSubscriptions
  <2>1. op.pc = "saveSubs" /\ op'.pc = "saveDisconnected" /\ UNCHANGED <<st, rt, conf>>
    BY <1>a, <1>41 DEF SaveSubscriptions, Goto, Operation
  <2>2. OwnNode' BY <1>f, <1>g, <2>1 DEF TeardownPCs
  <2>3. QED
    BY <1>e, <2>1, <2>2 DEF QuietInv, CallOK, DownOK, NodeOK, Settled, TeardownPCs, SelectionPCs
<1>43. CASE ApplyZapret
  <2>1. /\ op.pc \in {"zapOn", "zapTest"} /\ op'.pc \in {"saveZapret", "saveTest"}
        /\ st' = st /\ conf' = conf /\ rt'.xray = rt.xray
    BY <1>a, <1>43 DEF ApplyZapret, Goto, Operation, Runtime
  <2>2. OwnNode' BY <1>f, <1>g, <2>1 DEF TeardownPCs
  <2>3. QED
    BY <1>e, <2>1, <2>2 DEF QuietInv, CallOK, DownOK, NodeOK, Settled, TeardownPCs, SelectionPCs
<1>44. CASE ApplyZapretFails
  <2>1. /\ op.pc \in {"zapOn", "zapTest"} /\ st' = st /\ conf' = conf
        /\ rt'.xray = rt.xray /\ rt'.dns = rt.dns /\ rt'.fw = rt.fw
    BY <1>a, <1>44 DEF ApplyZapretFails, Runtime
  <2>2. OwnNode' BY <1>f, <1>g, <2>1 DEF TeardownPCs
  <2>3. CASE op.pc = "zapOn"
    <3>1. op' = Teardown(op, "saveDirect") BY <1>44, <2>3 DEF ApplyZapretFails
    <3>2. QED BY <1>a, <1>e, <2>1, <2>2, <3>1, TeardownQuiet
  <2>4. CASE op.pc = "zapTest"
    <3>1. op' = Raised(op) BY <1>44, <2>4 DEF ApplyZapretFails
    <3>2. op.catch = "none" => st'.connected BY <1>c, <2>1, <2>4 DEF CallOK
    <3>3. ProxyDown' BY <1>b, <2>1, <2>4 DEF ZapretOK, ProxyDown
    <3>4. QED BY <1>a, <1>e, <2>1, <2>2, <3>1, <3>2, <3>3, RaisedQuiet
  <2>5. QED BY <2>1, <2>3, <2>4
<1>45. CASE RestoreRoute
  <2>1. op.pc = "testFailed" /\ UNCHANGED <<st, rt, conf>>
    BY <1>45 DEF RestoreRoute
  <2>2. st'.connected
    BY <1>45, <2>1 DEF RestoreRoute, RestorePoint, ProxyRestorable
  <2>3. OwnNode' BY <1>f, <1>g, <2>1 DEF TeardownPCs
  <2>4. \/ op'.pc = "idle"
        \/ op'.pc = "leaveZapret" /\ op'.persist /\ ~op'.rollback
    BY <1>a, <1>45 DEF RestoreRoute, Selecting, Returned, Operation
  <2>5. QED
    BY <1>e, <2>1, <2>2, <2>3, <2>4 DEF QuietInv, CallOK, DownOK, NodeOK, Settled, TeardownPCs,
       SelectionPCs
<1>46. CASE AbandonTest
  <2>1. /\ op.pc = "testFailed" /\ op'.pc = "saveTestFailed" /\ st' = st
        /\ rt'.xray = rt.xray /\ rt'.dns = rt.dns /\ rt'.fw = rt.fw /\ rt'.zapret = "off"
    BY <1>a, <1>d, <1>46 DEF AbandonTest, DisableZapretFails, Goto, Operation, Runtime
  <2>2. ~st.connected
    BY <1>b, <1>46 DEF AbandonTest, IInv, StateOK, ZapretOK
  <2>3. ProxyDown BY <1>c, <2>1, <2>2 DEF DownOK
  <2>4. AllDown' BY <2>1, <2>3 DEF AllDown, ProxyDown
  <2>5. QED
    BY <1>e, <2>1, <2>2, <2>4 DEF QuietInv, CallOK, DownOK, NodeOK, OwnNode, OnProxy, Settled,
       TeardownPCs, SelectionPCs
<1>47. CASE Reconnect
  <2>1. op.pc = "reconnect" /\ st.sub \in SubOrNone
    BY <1>a, <1>47 DEF Reconnect, State
  <2>2. Begins
    BY <1>47, <2>1, PinNodeBegins, SelectAutoBegins DEF Reconnect, IInv
  <2>3. QED BY <2>1, <2>2, BeginsQuiet
<1>48. QED
  BY <1>1, <1>2, <1>3, <1>5, <1>7, <1>9, <1>10, <1>11, <1>13, <1>14, <1>15, <1>16, <1>17, <1>18,
     <1>19, <1>21, <1>26, <1>28, <1>30, <1>31, <1>33, <1>39, <1>41, <1>43, <1>44, <1>45, <1>46,
     <1>47 DEF Step

LEMMA InitQuiet == Init => QuietInv
<1> SUFFICES ASSUME Init PROVE QuietInv
  OBVIOUS
<1>1. op.pc = "idle" BY DEF Init, Call, Returned
<1>2. LedgerOK /\ OwnNode /\ (~st.connected => AllDown)
  <2>1. CASE Fresh
    BY <2>1 DEF Fresh, FreshState, LedgerOK, OwnNode, OnProxy, AllDown, ProxyDown
  <2>2. CASE Upgraded
    <3>1. PICK s \in Subs, n \in Nodes :
            /\ st = [FreshState EXCEPT !.sub = s, !.node = n, !.mode = "manual",
                                       !.connected = TRUE]
            /\ conf = Files([sub |-> s, node |-> n], [sub |-> s, node |-> n])
            /\ rt = [xray |-> conf.disk, dns |-> cfg.profile.dns, fw |-> cfg.profile.fw,
                     zapret |-> "off"]
      BY <2>2 DEF Upgraded
    <3>2. /\ st.connected /\ st.transport = "direct" /\ ~st.test /\ st.node = n
          /\ rt.xray.node = n /\ conf.good = [sub |-> s, node |-> n]
      BY <3>1 DEF FreshState, Files
    <3>3. conf.good \in [sub : Subs, node : Nodes] BY <3>2
    <3>4. conf.good # None /\ conf.good.node = n BY <3>2, <3>3
    <3>5. QED BY <3>2, <3>4 DEF LedgerOK, OwnNode
  <2>3. QED BY <2>1, <2>2 DEF Init
<1>3. QED
  BY <1>1, <1>2 DEF QuietInv, CallOK, DownOK, NodeOK, Settled, Switching, SelectionPCs, TeardownPCs

LEMMA NextQuiet == SetupFaultsOnly /\ IInv /\ QuietInv /\ [Next]_vars => QuietInv'
<1> SUFFICES ASSUME SetupFaultsOnly, IInv, QuietInv, [Next]_vars PROVE QuietInv'
  OBVIOUS
<1>1. CASE Step
  BY <1>1, StepQuiet
<1>2. CASE Handler
  <2>1. op.pc = "idle" /\ Begins BY <1>2, HandlerBegins DEF IInv, QuietInv
  <2>2. QED BY <2>1, BeginsQuiet
<1>3. CASE Crash \/ Reboot
  BY <1>3, NoTeardownFault DEF Crash, Reboot
<1>4. CASE UNCHANGED vars
  BY <1>4 DEF vars, QuietInv, LedgerOK, CallOK, DownOK, NodeOK, Switching, OwnNode, OnProxy,
     Candidate, AllDown, ProxyDown
<1>5. QED BY <1>1, <1>2, <1>3, <1>4 DEF Next

LEMMA QuietInvariance == ASSUME SetupFaultsOnly PROVE Spec => [](IInv /\ QuietInv)
<1>1. IInv /\ QuietInv /\ [Next]_vars => IInv' /\ QuietInv'
  BY NextInv, NextQuiet
<1>2. Init => IInv /\ QuietInv BY InitInv, InitQuiet
<1>3. QED BY <1>1, <1>2, PTL DEF Spec

\* However the steps of setting a route up fail, an operation that ends leaves a
\* disconnected ledger only over a router with no part of any route in place
\* (markConnectionFailed, markTransportDirect, startZapretTest's restoration);
\* tearing down and saving are assumed not to fail, and the process not to die.
THEOREM DisconnectedDown ==
    ASSUME SetupFaultsOnly PROVE Spec => []DisconnectedMeansDown
<1>1. QuietInv => DisconnectedMeansDown
  BY DEF QuietInv, DownOK, Settled, DisconnectedMeansDown, Idle
<1>2. QED BY <1>1, QuietInvariance, PTL

\* Under the same faults a failed switch leaves neither the failed candidate
\* running nor its config to return to: what runs, and the last-known-good
\* config, are the node's the ledger names (applyNodeSelection,
\* handleNodeSelectionFailure, the rollback).
THEOREM HonestNode ==
    ASSUME SetupFaultsOnly PROVE Spec => []NodeHonest
<1>1. QuietInv => NodeHonest
  BY DEF QuietInv, NodeOK, Switching, TeardownPCs, OwnNode, OnProxy, NodeHonest, Idle,
     EffectiveTransport
<1>2. QED BY <1>1, QuietInvariance, PTL

-----------------------------------------------------------------------------
(* Which transport is in place, when only the steps before verification    *)
(* and the router's DNS and firewall may fail.                             *)

TransportFaultsOnly == Faults \subseteq {"prepare", "apply", "dnsOn", "fwOn"}

\* Where the ledger says the traffic goes, it goes; a test counts as Zapret even
\* after a teardown that its state.json does not show.
InPlace ==
    IF ~st.connected THEN AllDown
    ELSE IF st.transport = "zapret" THEN ProxyDown /\ (st.test \/ rt.zapret = "on")
    ELSE rt.zapret = "off"

TransportOK ==
    /\ op.pc \in Settled => InPlace
    /\ op.pc \in SelectionPCs \ {"leaveZapret"} => rt.zapret = "off"
    /\ op.pc \in {"zapOn", "zapTest", "saveZapret", "saveTest"} => ProxyDown
    /\ op.pc \notin {"rollback", "saveHealth"}
    /\ ExclusiveTransports

\* Only a Zapret test is a connection without a subscription.
Named == st.connected /\ st.sub = None => st.test /\ st.transport = "zapret"

SubOK ==
    /\ Named
    /\ op.pc \in {"zapOn", "saveZapret"} => op.sub \in Subs
    /\ op.pc \in TeardownPCs /\ op.after = "zapOn" => op.sub \in Subs
    /\ op.pc \in TeardownPCs /\ op.after = "done" /\ st.connected => st.sub = None
    /\ op.pc = "done" /\ st.connected => st.sub = None

TransportInv == TransportOK /\ SubOK

LEMMA SettledTransport ==
    ASSUME Named', InPlace', op'.pc \in Settled
    PROVE  TransportInv'
<1>1. ExclusiveTransports' BY DEF InPlace, AllDown, ProxyDown, ExclusiveTransports
<1>2. QED
  BY <1>1 DEF TransportInv, TransportOK, SubOK, Settled, SelectionPCs, TeardownPCs

LEMMA TeardownTransport ==
    ASSUME Named', ExclusiveTransports', NEW o \in Operation, NEW after,
           op' = Teardown(o, after), after \notin {"zapOn", "done"}
    PROVE  TransportInv'
<1>1. op'.pc = "dnsOff" /\ op'.after = after BY DEF Teardown, Operation
<1>2. QED
  BY <1>1 DEF TransportInv, TransportOK, SubOK, Settled, SelectionPCs, TeardownPCs

LEMMA RaisedTransport ==
    ASSUME Named', InPlace', NEW o \in Operation, op' = Raised(o)
    PROVE  TransportInv'
<1>1. CASE o.catch = "restore"
  <2>1. [o EXCEPT !.catch = "none"] \in Operation BY DEF Operation
  <2>2. op' = Teardown([o EXCEPT !.catch = "none"], "saveRestoreFailed")
    BY <1>1 DEF Raised
  <2>3. ExclusiveTransports' BY DEF InPlace, AllDown, ProxyDown, ExclusiveTransports
  <2>4. QED BY <2>1, <2>2, <2>3, TeardownTransport
<1>2. CASE o.catch # "restore"
  <2>1. op'.pc \in {"idle", "testFailed"} BY <1>2 DEF Raised, Returned, Operation
  <2>2. QED BY <2>1, SettledTransport DEF Settled
<1>3. QED BY <1>1, <1>2

LEMMA SelectionFailedTransport ==
    ASSUME IInv, QuietInv, TransportInv, op.pc \in SelectionPCs, op' = SelectionFailed(op),
           st' = st, rt'.zapret = "off"
    PROVE  TransportInv'
<1>a. op \in Operation /\ Named'
  BY DEF IInv, TypeOK, TransportInv, SubOK, Named
<1>1. CASE op.persist
  <2>1. op' = Teardown(op, "saveFailed") BY <1>1 DEF SelectionFailed
  <2>2. ExclusiveTransports' BY DEF ExclusiveTransports
  <2>3. QED BY <1>a, <2>1, <2>2, TeardownTransport
<1>2. CASE ~op.persist
  <2>1. op' = Raised(op) BY <1>2 DEF SelectionFailed
  <2>2. InPlace' BY <1>2 DEF QuietInv, CallOK, OnProxy, InPlace
  <2>3. QED BY <1>a, <2>1, <2>2, RaisedTransport
<1>3. QED BY <1>1, <1>2

LEMMA BeginsTransport ==
    ASSUME IInv, QuietInv, TransportInv, op.pc \in {"idle", "reconnect"}, Begins
    PROVE  TransportInv'
<1>1. InPlace BY DEF TransportInv, TransportOK, Settled
<1>2. CASE st' = st
  <2>1. Named' /\ InPlace' /\ ExclusiveTransports'
    BY <1>1, <1>2 DEF Begins, TransportInv, TransportOK, SubOK, Named, InPlace, AllDown,
       ProxyDown, ExclusiveTransports
  <2>2. Started(op') BY DEF Begins
  <2>3. op'.pc = "zapOn" => ProxyDown' /\ op'.sub \in Subs
    BY <1>1, <1>2, <2>2 DEF Begins, Started, InPlace, QuietInv, LedgerOK, ProxyDown
  <2>4. CASE op'.pc \in Settled
    BY <2>1, <2>4, SettledTransport
  <2>5. CASE op'.pc \in {"dnsOff", "zapOn"}
    BY <1>2, <2>1, <2>2, <2>3, <2>5 DEF Started, TransportInv, TransportOK, SubOK, Settled,
       SelectionPCs, TeardownPCs
  <2>6. QED BY <2>2, <2>4, <2>5 DEF Started, Settled
<1>3. ASSUME op'.pc = "idle", NEW s \in Subs, st' = [st EXCEPT !.sub = s, !.mode = "auto"]
      PROVE  TransportInv'
  <2>1. /\ st'.connected = st.connected /\ st'.transport = st.transport
        /\ st'.test = st.test /\ st'.sub = s
    BY <1>3 DEF IInv, TypeOK, State
  <2>2. Named' /\ InPlace'
    BY <1>1, <2>1 DEF Begins, Named, InPlace, AllDown, ProxyDown
  <2>3. QED BY <1>3, <2>2, SettledTransport DEF Settled
<1>4. QED BY <1>2, <1>3 DEF Begins

LEMMA StepTransport ==
    ASSUME TransportFaultsOnly, IInv, QuietInv, TransportInv, Step
    PROVE  TransportInv'
<1>a. op \in Operation /\ st \in State /\ rt \in Runtime
  BY DEF IInv, TypeOK
<1>b. TeardownOK /\ SelectionOK /\ ZapretOK BY DEF IInv, OpOK
<1>c. TransportOK /\ SubOK BY DEF TransportInv
<1>d. \A f \in {"load", "save", "dnsOff", "stop", "fwOff", "zapOff", "zapOn", "run"} : ~Fails(f)
  BY DEF TransportFaultsOnly, Fails
<1>e. st' = st => Named' BY <1>c DEF SubOK, Named
<1>f. st' = st /\ rt' = rt => (InPlace' <=> InPlace)
  BY DEF InPlace, AllDown, ProxyDown
<1>1. CASE StopDNS \/ StopXray
  <2>1. /\ op.pc \in {"dnsOff", "xrayStop"} /\ op'.pc \in {"xrayStop", "fwOff"}
        /\ op'.after = op.after /\ op'.sub = op.sub
        /\ st' = st /\ rt'.zapret = rt.zapret /\ rt'.xray \in {rt.xray, None}
    BY <1>a, <1>1 DEF StopDNS, StopXray, Goto, Operation, Runtime
  <2>2. QED
    BY <1>c, <1>e, <2>1 DEF TransportInv, TransportOK, SubOK, Settled, SelectionPCs, TeardownPCs,
       ExclusiveTransports
<1>2. CASE StopDNSFails \/ StopXrayFails \/ StopFirewallFails \/ StopZapretFails
           \/ LeaveZapretFails \/ SaveStateFails \/ SaveFailedHealthFails
           \/ SaveDroppedAgainFails \/ SaveModeFails \/ SaveSubscriptionsFails
           \/ VerifyXrayFails \/ ApplyZapretFails
  BY <1>d, <1>2 DEF StopDNSFails, StopXrayFails, StopFirewallFails, StopZapretFails,
     LeaveZapretFails, DisableZapretFails, SaveStateFails, SaveFailedHealthFails,
     SaveDroppedAgainFails, SaveModeFails, SaveSubscriptionsFails, VerifyXrayFails,
     ApplyZapretFails
<1>3. CASE RollbackXray \/ RollbackXrayFails \/ SaveFailedHealth
  BY <1>c, <1>3 DEF RollbackXray, RollbackXrayFails, SaveFailedHealth, TransportOK
<1>5. CASE StopFirewall
  <2>1. /\ op.pc = "fwOff" /\ op'.after = op.after /\ op'.sub = op.sub
        /\ op'.pc = (IF op.after \in {"zapOn", "zapTest"} THEN op.after ELSE "zapOff")
        /\ st' = st /\ rt'.xray = rt.xray /\ rt'.dns = rt.dns /\ ~rt'.fw
    BY <1>a, <1>5 DEF StopFirewall, Goto, Operation, Runtime
  <2>2. ProxyDown' BY <1>b, <2>1 DEF TeardownOK, ProxyDown
  <2>3. ExclusiveTransports' BY <2>2 DEF ProxyDown, ExclusiveTransports
  <2>4. QED
    BY <1>c, <1>e, <2>1, <2>2, <2>3 DEF TransportInv, TransportOK, SubOK, Settled, SelectionPCs,
       TeardownPCs
<1>7. CASE StopZapret
  <2>1. /\ op.pc = "zapOff" /\ op'.after = op.after /\ op'.pc = op.after
        /\ st' = st /\ rt'.zapret = "off"
    BY <1>a, <1>7 DEF StopZapret, Goto, Operation, Runtime
  <2>2. op.after \in DownPCs BY <1>b, <2>1 DEF TeardownOK
  <2>3. QED
    BY <1>c, <1>e, <2>1, <2>2 DEF TransportInv, TransportOK, SubOK, Settled, SelectionPCs,
       TeardownPCs, DownPCs, ExclusiveTransports
<1>9. CASE TeardownDone
  <2>1. op.pc = "done" /\ op'.pc = "idle" /\ UNCHANGED <<st, rt>>
    BY <1>9 DEF TeardownDone, Returned
  <2>2. AllDown' BY <1>b, <2>1 DEF TeardownOK, DownPCs, AllDown, ProxyDown
  <2>3. st.connected => st.test BY <1>c, <2>1 DEF SubOK, Named
  <2>4. InPlace' BY <2>1, <2>2, <2>3 DEF InPlace, AllDown
  <2>5. QED BY <1>e, <2>1, <2>4, SettledTransport DEF Settled
<1>10. CASE LeaveZapret
  <2>1. op.pc = "leaveZapret" /\ op'.pc = "xrayApply" /\ st' = st
    BY <1>a, <1>10 DEF LeaveZapret, Operation
  <2>2. InPlace BY <1>c, <2>1 DEF TransportOK, Settled
  <2>3. rt'.zapret = "off"
    <3>1. CASE EffectiveTransport(st) = "zapret"
      BY <1>a, <1>10, <3>1 DEF LeaveZapret, Runtime
    <3>2. CASE EffectiveTransport(st) # "zapret"
      <4>1. st.transport # "zapret" BY <3>2 DEF EffectiveTransport
      <4>2. QED BY <1>10, <2>2, <3>2, <4>1 DEF LeaveZapret, InPlace, AllDown
    <3>3. QED BY <3>1, <3>2
  <2>4. QED
    BY <1>e, <2>1, <2>3 DEF TransportInv, TransportOK, SubOK, Settled, SelectionPCs,
       TeardownPCs, ExclusiveTransports
<1>11. CASE PrepareFails
  <2>1. op.pc = "leaveZapret" /\ op' = Raised(op) /\ UNCHANGED <<st, rt>>
    BY <1>11 DEF PrepareFails
  <2>2. InPlace' BY <1>c, <1>f, <2>1 DEF TransportOK, Settled
  <2>3. QED BY <1>a, <1>e, <2>1, <2>2, RaisedTransport
<1>13. CASE ApplyXray \/ VerifyXray \/ ApplyDNS \/ ApplyFirewall
  <2>1. /\ op.pc \in SelectionPCs \ {"leaveZapret"}
        /\ op'.pc \in {"verify", "dns", "fw", "saveConnected"}
        /\ st' = st /\ rt'.zapret = rt.zapret
    BY <1>a, <1>13 DEF ApplyXray, VerifyXray, ApplyDNS, ApplyFirewall, Goto, SelectionPCs,
       Operation, Runtime
  <2>2. rt'.zapret = "off" BY <1>c, <2>1 DEF TransportOK
  <2>3. QED
    BY <1>e, <2>1, <2>2 DEF TransportInv, TransportOK, SubOK, Settled, SelectionPCs,
       TeardownPCs, ExclusiveTransports
<1>14. CASE ApplyXrayFails \/ ApplyDNSFails \/ ApplyFirewallFails
  <2>1. /\ op.pc \in SelectionPCs \ {"leaveZapret"} /\ op' = SelectionFailed(op) /\ st' = st
        /\ rt'.zapret = rt.zapret
    BY <1>a, <1>14 DEF ApplyXrayFails, ApplyDNSFails, ApplyFirewallFails, SelectionPCs, Runtime
  <2>2. rt'.zapret = "off" BY <1>c, <2>1 DEF TransportOK
  <2>3. QED BY <2>1, <2>2, SelectionFailedTransport
<1>26. CASE SaveConnected \/ SaveCommit
  <2>1. /\ op.pc \in {"saveConnected", "saveCommit"} /\ st' = ConnectedState /\ rt' = rt
        /\ op'.pc \in {"idle", "saveSettings", "saveCommit"}
    <3>1. \A o \in Operation : Finished(o).pc \in {"idle", "saveSettings", "saveCommit"}
      BY DEF Finished, Returned, Operation
    <3>2. [op EXCEPT !.ret = IF @ = "commitSettings" THEN "settings" ELSE "ok"] \in Operation
      BY <1>a DEF Operation
    <3>3. QED BY <1>a, <1>26, <3>1, <3>2 DEF SaveConnected, SaveCommit, SaveState
  <2>2. /\ st'.connected /\ st'.transport = "proxy" /\ st'.sub = op.sub
    BY <1>a, <2>1 DEF ConnectedState, State
  <2>3. rt'.zapret = "off" BY <1>c, <2>1 DEF TransportOK, SelectionPCs
  <2>4. op.sub # None BY <1>b, <2>1 DEF SelectionOK, SelectionPCs
  <2>5. Named' /\ InPlace' BY <2>2, <2>3, <2>4 DEF Named, InPlace
  <2>6. CASE op'.pc = "saveCommit"
    BY <2>3, <2>5, <2>6 DEF TransportInv, TransportOK, SubOK, Settled, SelectionPCs,
       TeardownPCs, ExclusiveTransports
  <2>7. QED BY <2>1, <2>5, <2>6, SettledTransport DEF Settled
<1>28. CASE SaveZapret \/ SaveTest
  <2>1. /\ op.pc \in {"saveZapret", "saveTest"} /\ op' = Finished(op) /\ rt' = rt
        /\ st'.connected /\ st'.transport = "zapret"
    BY <1>a, <1>28 DEF SaveZapret, SaveTest, SaveState, State
  <2>2. op.ret \notin {"commit", "commitSettings"} BY <1>b, <2>1 DEF ZapretOK, ZapretPCs
  <2>3. op'.pc \in {"idle", "saveSettings"}
    BY <1>a, <2>1, <2>2 DEF Finished, Returned, Operation
  <2>4. ProxyDown' /\ rt'.zapret = "on"
    BY <1>b, <1>c, <2>1 DEF TransportOK, ZapretOK, ProxyDown
  <2>5. Named'
    <3>1. SaveTest => st'.test BY <1>a DEF SaveTest, SaveState, State
    <3>2. SaveZapret => st'.sub = op.sub /\ op.sub \in Subs
      BY <1>a, <1>c DEF SaveZapret, SaveState, State, SubOK
    <3>3. QED BY <1>28, <2>1, <3>1, <3>2 DEF Named
  <2>6. QED BY <2>1, <2>3, <2>4, <2>5, SettledTransport DEF InPlace, Settled
<1>h. ASSUME AllDown', NEW sub, NEW node, NEW mode, st' = Down(st, sub, node, mode)
      PROVE  Named' /\ InPlace'
  <2>1. ~st'.connected BY <1>a, <1>h DEF Down, State
  <2>2. QED BY <1>h, <2>1 DEF Named, InPlace
<1>30. CASE SaveDisconnected
  <2>1. op.pc = "saveDisconnected" /\ op'.pc = "saveSettings" /\ rt' = rt
    BY <1>a, <1>30 DEF SaveDisconnected, SaveState, Operation
  <2>2. AllDown' BY <1>b, <2>1 DEF TeardownOK, DownPCs, AllDown, ProxyDown
  <2>3. Named' /\ InPlace' BY <1>30, <1>h, <2>2 DEF SaveDisconnected, SaveState
  <2>4. QED BY <2>1, <2>3, SettledTransport DEF Settled
<1>31. CASE SaveDirect \/ SaveFailed
  <2>1. op.pc \in {"saveDirect", "saveFailed"} /\ op' = Raised(op) /\ rt' = rt
    BY <1>31 DEF SaveDirect, SaveFailed, SaveState
  <2>2. AllDown' BY <1>b, <2>1 DEF TeardownOK, DownPCs, AllDown, ProxyDown
  <2>3. Named' /\ InPlace' BY <1>31, <1>h, <2>2 DEF SaveDirect, SaveFailed, SaveState
  <2>4. QED BY <1>a, <2>1, <2>3, RaisedTransport
<1>33. CASE SaveDropped \/ SaveRestoreFailed \/ SaveZapretOff \/ SaveTestFailed \/ SaveTestStopped
  <2>1. /\ op.pc \in {"saveDropped", "saveRestoreFailed", "saveZapretOff", "saveTestFailed",
                      "saveTestStopped"}
        /\ op'.pc = "idle" /\ rt' = rt
    BY <1>33 DEF SaveDropped, SaveRestoreFailed, SaveZapretOff, SaveTestFailed,
       SaveTestStopped, SaveState, Returned
  <2>2. AllDown'
    BY <1>b, <2>1 DEF QuietInv, TeardownOK, DownOK, DownPCs, AllDown, ProxyDown
  <2>3. Named' /\ InPlace'
    BY <1>33, <1>h, <2>2 DEF SaveDropped, SaveRestoreFailed, SaveZapretOff, SaveTestFailed,
       SaveTestStopped, SaveState
  <2>4. QED BY <2>1, <2>3, SettledTransport DEF Settled
<1>39. CASE SaveMode
  <2>1. op.pc = "saveSettings" /\ op'.pc = "idle" /\ UNCHANGED <<st, rt>>
    BY <1>39 DEF SaveMode, Returned
  <2>2. InPlace' BY <1>c, <1>f, <2>1 DEF TransportOK, Settled
  <2>3. QED BY <1>e, <2>1, <2>2, SettledTransport DEF Settled
<1>41. CASE SaveSubscriptions
  <2>1. op.pc = "saveSubs" /\ op'.pc = "saveDisconnected" /\ UNCHANGED <<st, rt>>
    BY <1>a, <1>41 DEF SaveSubscriptions, Goto, Operation
  <2>2. QED
    BY <1>c, <1>e, <2>1 DEF TransportInv, TransportOK, SubOK, Settled, SelectionPCs, TeardownPCs,
       ExclusiveTransports
<1>43. CASE ApplyZapret
  <2>1. /\ op.pc \in {"zapOn", "zapTest"} /\ op'.sub = op.sub
        /\ op'.pc = (IF op.pc = "zapOn" THEN "saveZapret" ELSE "saveTest")
        /\ st' = st /\ rt'.xray = rt.xray /\ rt'.dns = rt.dns /\ rt'.fw = rt.fw
    BY <1>a, <1>43 DEF ApplyZapret, Goto, Operation, Runtime
  <2>2. ProxyDown' BY <1>c, <2>1 DEF TransportOK, ProxyDown
  <2>3. ExclusiveTransports' BY <2>2 DEF ProxyDown, ExclusiveTransports
  <2>4. QED
    BY <1>c, <1>e, <2>1, <2>2, <2>3 DEF TransportInv, TransportOK, SubOK, Settled, SelectionPCs,
       TeardownPCs
<1>45. CASE RestoreRoute
  <2>1. op.pc = "testFailed" /\ op'.pc \in {"idle", "leaveZapret"} /\ UNCHANGED <<st, rt>>
    BY <1>a, <1>45 DEF RestoreRoute, Selecting, Returned, Operation
  <2>2. InPlace' BY <1>c, <1>f, <2>1 DEF TransportOK, Settled
  <2>3. QED BY <1>e, <2>1, <2>2, SettledTransport DEF Settled
<1>46. CASE AbandonTest
  <2>1. /\ op.pc = "testFailed" /\ op'.pc = "saveTestFailed" /\ st' = st /\ rt'.zapret = "off"
    BY <1>a, <1>d, <1>46 DEF AbandonTest, DisableZapretFails, Goto, Operation, Runtime
  <2>2. QED
    BY <1>e, <2>1 DEF TransportInv, TransportOK, SubOK, Settled, SelectionPCs, TeardownPCs,
       ExclusiveTransports
<1>47. CASE Reconnect
  <2>1. op.pc = "reconnect" /\ st.sub \in SubOrNone
    BY <1>a, <1>47 DEF Reconnect, State
  <2>2. Begins
    BY <1>47, <2>1, PinNodeBegins, SelectAutoBegins DEF Reconnect, IInv
  <2>3. QED BY <2>1, <2>2, BeginsTransport
<1>48. QED
  BY <1>1, <1>2, <1>3, <1>5, <1>7, <1>9, <1>10, <1>11, <1>13, <1>14, <1>26, <1>28, <1>30,
     <1>31, <1>33, <1>39, <1>41, <1>43, <1>45, <1>46, <1>47 DEF Step

LEMMA InitTransport == Init => TransportInv
<1> SUFFICES ASSUME Init PROVE TransportInv
  OBVIOUS
<1>1. op.pc = "idle" BY DEF Init, Call, Returned
<1>2. Named /\ InPlace
  <2>1. CASE Fresh
    BY <2>1 DEF Fresh, FreshState, Named, InPlace, AllDown, ProxyDown
  <2>2. CASE Upgraded
    <3>1. PICK s \in Subs, n \in Nodes :
            /\ st = [FreshState EXCEPT !.sub = s, !.node = n, !.mode = "manual",
                                       !.connected = TRUE]
            /\ rt = [xray |-> conf.disk, dns |-> cfg.profile.dns, fw |-> cfg.profile.fw,
                     zapret |-> "off"]
      BY <2>2 DEF Upgraded
    <3>2. st.connected /\ st.transport = "direct" /\ st.sub = s /\ rt.zapret = "off"
      BY <3>1 DEF FreshState
    <3>3. QED BY <3>2 DEF Named, InPlace
  <2>3. QED BY <2>1, <2>2 DEF Init
<1>3. ExclusiveTransports BY <1>2 DEF InPlace, AllDown, ProxyDown, ExclusiveTransports
<1>4. QED
  BY <1>1, <1>2, <1>3 DEF TransportInv, TransportOK, SubOK, Settled, SelectionPCs, TeardownPCs

LEMMA TransportSetup == TransportFaultsOnly => SetupFaultsOnly
BY DEF TransportFaultsOnly, SetupFaultsOnly, SetupFaults

LEMMA NextTransport ==
    ASSUME TransportFaultsOnly, IInv, QuietInv, TransportInv, [Next]_vars
    PROVE  TransportInv'
<1>1. CASE Step
  BY <1>1, StepTransport
<1>2. CASE Handler
  <2>1. op.pc = "idle" /\ Begins BY <1>2, HandlerBegins DEF IInv, QuietInv
  <2>2. QED BY <2>1, BeginsTransport
<1>3. CASE Crash \/ Reboot
  BY <1>3, TransportSetup, NoTeardownFault DEF Crash, Reboot
<1>4. CASE UNCHANGED vars
  BY <1>4 DEF vars, TransportInv, TransportOK, SubOK, Named, InPlace, ExclusiveTransports,
     AllDown, ProxyDown
<1>5. QED BY <1>1, <1>2, <1>3, <1>4 DEF Next

LEMMA TransportInvariance ==
    ASSUME TransportFaultsOnly PROVE Spec => [](QuietInv /\ TransportInv)
<1>1. IInv /\ QuietInv /\ TransportInv /\ [Next]_vars => TransportInv'
  BY NextTransport
<1>2. Init => TransportInv BY InitTransport
<1>3. Spec => [](IInv /\ QuietInv) BY TransportSetup, QuietInvariance
<1>4. QED BY <1>1, <1>2, <1>3, PTL DEF Spec

\* While a switch can fail only before its verification or at the router's DNS
\* and firewall, active_transport names what carries the traffic between
\* operations: under zapret the service runs and no part of the proxy is left,
\* under proxy Zapret is off (activateZapretFallback, applyNodeSelection).
THEOREM HonestTransport ==
    ASSUME TransportFaultsOnly PROVE Spec => []TransportHonest
<1>1. QuietInv /\ TransportInv => TransportHonest
  BY DEF TransportInv, TransportOK, InPlace, Settled, TransportHonest, Idle, EffectiveTransport
<1>2. QED BY <1>1, TransportInvariance, PTL

\* And the two transports are never in place together, not even between two
\* steps of a switch (stopProxyTransport before ZapretManager.Apply,
\* ZapretManager.Disable before RuntimeBackend.ApplyConfig).
THEOREM TransportsExclusive ==
    ASSUME TransportFaultsOnly PROVE Spec => []ExclusiveTransports
<1>1. TransportInv => ExclusiveTransports BY DEF TransportInv, TransportOK
<1>2. QED BY <1>1, TransportInvariance, PTL

-----------------------------------------------------------------------------
(* The daemon's restoration, whatever fails.                               *)

\* What restoreRuntime may still be doing when it has not failed.
RestoreOK ==
    op.catch = "restore" =>
      /\ op.pc \in TeardownPCs \cup SelectionPCs
                     \cup {"saveDirect", "saveSettings", "zapOn", "zapTest", "saveZapret", "saveTest"}
      /\ op.pc \in TeardownPCs => op.after \in {"zapOn", "zapTest", "saveDirect"}
      /\ op.pc \in SelectionPCs => ~op.persist
      /\ op.ret \in {"ok", "settings"}

LEMMA RaisedRestore ==
    ASSUME NEW o \in Operation
    PROVE  /\ Raised(o).catch = "none"
           /\ Raised(o).pc = "idle" => Raised(o).result = "failed"
<1>1. CASE o.catch = "restore"
  BY <1>1 DEF Raised, Teardown, Operation
<1>2. CASE o.catch = "test"
  BY <1>2 DEF Raised, Operation
<1>3. CASE o.catch = "none"
  BY <1>3 DEF Raised, Returned
<1>4. QED BY <1>1, <1>2, <1>3 DEF Operation

LEMMA BeginsRestore == Begins => RestoreOK'
BY DEF Begins, Started, RestoreOK, TeardownPCs, SelectionPCs

\* A step of the restoration goes on with it, or hands an error to the caller.
LEMMA StepRestore == ASSUME IInv, RestoreOK, Step PROVE RestoreOK'
<1>a. op \in Operation BY DEF IInv, TypeOK
<1>b. TeardownOK /\ SelectionOK /\ ZapretOK BY DEF IInv, OpOK
<1>c. op' = Raised(op) => op'.catch = "none" BY <1>a, RaisedRestore
<1>d. \A r : Returned(r).catch = "none" BY DEF Returned
<1>e. ASSUME op' = Finished(op)
      PROVE  \/ op'.catch = "none"
             \/ /\ op'.catch = op.catch /\ op'.ret = op.ret /\ op.ret \notin {"ok", "fail"}
                /\ op'.pc = (IF op.ret = "settings" THEN "saveSettings" ELSE "saveCommit")
  <2>1. CASE op.ret \in {"ok", "fail"}
    BY <1>d, <1>e, <2>1 DEF Finished
  <2>2. CASE op.ret = "settings"
    BY <1>a, <1>e, <2>2 DEF Finished, Operation
  <2>3. CASE op.ret \notin {"ok", "fail", "settings"}
    BY <1>a, <1>e, <2>3 DEF Finished, Operation
  <2>4. QED BY <2>1, <2>2, <2>3
<1>1. CASE StopDNSFails \/ StopXrayFails \/ StopFirewallFails \/ StopZapretFails \/ TeardownDone
           \/ PrepareFails \/ LeaveZapretFails \/ RollbackXray \/ SaveFailedHealthFails
           \/ SaveStateFails \/ SaveDirect \/ SaveFailed \/ SaveDropped \/ SaveDroppedAgainFails
           \/ SaveRestoreFailed \/ SaveZapretOff \/ SaveTestFailed \/ SaveTestStopped
           \/ SaveMode \/ SaveModeFails \/ SaveSubscriptionsFails
  <2>1. op'.catch = "none"
    BY <1>1, <1>c, <1>d DEF StopDNSFails, StopXrayFails, StopFirewallFails, StopZapretFails,
       TeardownDone, PrepareFails, LeaveZapretFails, RollbackXray, SaveFailedHealthFails,
       SaveStateFails, SaveDirect, SaveFailed, SaveDropped, SaveDroppedAgainFails,
       SaveRestoreFailed, SaveZapretOff, SaveTestFailed, SaveTestStopped, SaveMode,
       SaveModeFails, SaveSubscriptionsFails, SaveState
  <2>2. QED BY <2>1 DEF RestoreOK
<1>2. CASE StopDNS \/ StopXray \/ StopFirewall \/ StopZapret
  <2>1. /\ op.pc \in TeardownPCs /\ op'.after = op.after /\ op'.catch = op.catch
        /\ op'.ret = op.ret /\ op'.pc \in TeardownPCs \cup {op.after}
    BY <1>a, <1>2 DEF StopDNS, StopXray, StopFirewall, StopZapret, Goto, TeardownPCs, Operation
  <2>2. QED BY <2>1 DEF RestoreOK, TeardownPCs, SelectionPCs
<1>3. CASE LeaveZapret \/ ApplyXray \/ VerifyXray \/ VerifyXrayFails \/ RollbackXrayFails
           \/ ApplyDNS \/ ApplyFirewall
  <2>1. /\ op.pc \in SelectionPCs /\ op'.persist = op.persist /\ op'.catch = op.catch
        /\ op'.ret = op.ret /\ op'.pc \in SelectionPCs
    BY <1>a, <1>3 DEF LeaveZapret, ApplyXray, VerifyXray, VerifyXrayFails, RollbackXrayFails,
       ApplyDNS, ApplyFirewall, Goto, SelectionPCs, Operation
  <2>2. QED BY <2>1 DEF RestoreOK, TeardownPCs, SelectionPCs
<1>4. CASE ApplyXrayFails \/ SaveFailedHealth \/ ApplyDNSFails \/ ApplyFirewallFails
  <2>1. op.pc \in SelectionPCs /\ op' = SelectionFailed(op)
    BY <1>4 DEF ApplyXrayFails, SaveFailedHealth, ApplyDNSFails, ApplyFirewallFails, SelectionPCs
  <2>2. CASE op.persist
    <3>1. op.catch # "restore" BY <2>1, <2>2 DEF RestoreOK
    <3>2. op'.catch = op.catch
      BY <1>a, <2>1, <2>2 DEF SelectionFailed, Teardown, Operation
    <3>3. QED BY <3>1, <3>2 DEF RestoreOK
  <2>3. CASE ~op.persist
    BY <1>c, <2>1, <2>3 DEF SelectionFailed, RestoreOK
  <2>4. QED BY <2>2, <2>3
<1>5. CASE SaveConnected \/ SaveZapret \/ SaveTest
  <2>1. op' = Finished(op) BY <1>5 DEF SaveConnected, SaveZapret, SaveTest, SaveState
  <2>2. QED BY <1>e, <2>1 DEF RestoreOK, TeardownPCs, SelectionPCs
<1>6. CASE SaveCommit
  <2> DEFINE o == [op EXCEPT !.ret = IF @ = "commitSettings" THEN "settings" ELSE "ok"]
  <2>1. o \in Operation /\ o.catch = op.catch /\ o.ret \in {"ok", "settings"}
    BY <1>a DEF Operation
  <2>2. op' = Finished(o) BY <1>6 DEF SaveCommit, SaveState
  <2> HIDE DEF o
  <2>3. \/ op'.catch = "none"
        \/ op'.pc = "saveSettings" /\ op'.ret = "settings"
    BY <1>d, <2>1, <2>2 DEF Finished, Operation
  <2>4. QED BY <2>3 DEF RestoreOK, TeardownPCs, SelectionPCs
<1>7. CASE SaveDisconnected \/ SaveSubscriptions \/ RestoreRoute \/ AbandonTest
  <2>1. op.pc \in {"saveDisconnected", "saveSubs", "testFailed"}
    BY <1>7 DEF SaveDisconnected, SaveSubscriptions, RestoreRoute, AbandonTest, SaveState
  <2>2. op.catch # "restore" BY <2>1 DEF RestoreOK, TeardownPCs, SelectionPCs
  <2>3. SaveDisconnected \/ SaveSubscriptions \/ AbandonTest => op'.catch = op.catch
    BY <1>a DEF SaveDisconnected, SaveSubscriptions, AbandonTest, SaveState, Goto, Operation
  <2>4. RestoreRoute => op'.catch \in {op.catch, "none"}
    BY <1>a, <1>d DEF RestoreRoute, Selecting, Operation
  <2>5. QED BY <1>7, <2>2, <2>3, <2>4 DEF RestoreOK
<1>8. CASE ApplyZapret
  BY <1>a, <1>8 DEF ApplyZapret, Goto, Operation, RestoreOK, TeardownPCs, SelectionPCs
<1>9. CASE ApplyZapretFails
  <2>1. CASE op.pc = "zapOn"
    <3>1. op' = Teardown(op, "saveDirect") BY <1>9, <2>1 DEF ApplyZapretFails
    <3>2. QED
      BY <1>a, <3>1 DEF Teardown, Operation, RestoreOK, TeardownPCs, SelectionPCs
  <2>2. CASE op.pc = "zapTest"
    BY <1>c, <1>9, <2>2 DEF ApplyZapretFails, RestoreOK
  <2>3. QED BY <1>9, <2>1, <2>2 DEF ApplyZapretFails
<1>10. CASE Reconnect
  <2>1. Begins
    BY <1>10, PinNodeBegins, SelectAutoBegins DEF Reconnect, IInv, TypeOK, State
  <2>2. QED BY <2>1, BeginsRestore
<1>11. QED
  BY <1>1, <1>2, <1>3, <1>4, <1>5, <1>6, <1>7, <1>8, <1>9, <1>10 DEF Step

LEMMA LedgerWrittenOK == ASSUME TypeOK, LedgerOK, LedgerWritten PROVE LedgerOK'
<1>a. st \in State BY DEF TypeOK
<1>1. CASE SaveConnected \/ SaveCommit
  BY <1>a, <1>1 DEF SaveConnected, SaveCommit, SaveState, ConnectedState, State, LedgerOK
<1>2. CASE SaveZapret \/ SaveTest
  BY <1>a, <1>2 DEF SaveZapret, SaveTest, SaveState, State, LedgerOK
<1>3. CASE Drops
  <2>1. ~st'.test /\ st'.transport = "direct"
    BY <1>a, <1>3 DEF Drops, SaveDisconnected, SaveDirect, SaveFailed, SaveDropped,
       SaveDroppedAgainFails, SaveRestoreFailed, SaveZapretOff, SaveTestFailed,
       SaveTestStopped, SaveState, Down, State
  <2>2. QED BY <2>1 DEF LedgerOK
<1>4. CASE st' = st
  BY <1>4 DEF LedgerOK
<1>5. CASE \E s \in Subs : rt' = rt /\ st' = [st EXCEPT !.sub = s, !.mode = "auto"]
  BY <1>a, <1>5 DEF State, LedgerOK
<1>6. QED BY <1>1, <1>2, <1>3, <1>4, <1>5 DEF LedgerWritten

\* The route the ledger names is there.
Restored ==
    /\ st.connected
    /\ st.transport # "zapret" => Serving
    /\ st.transport = "zapret" => rt.zapret = "on"

\* Only settings.json may be left to save.
RestoredOK == op.catch = "restore" /\ op.pc = "saveSettings" => Restored

RestoreInv == IInv /\ LedgerOK /\ RestoreOK /\ RestoredOK

\* The saves that record a route record one that is there.
LEMMA SavedRestored ==
    ASSUME IInv, SaveConnected \/ SaveCommit \/ SaveZapret \/ SaveTest
    PROVE  Restored'
<1>a. op \in Operation /\ st \in State /\ SelectionOK /\ ZapretOK
  BY DEF IInv, TypeOK, OpOK
<1>1. CASE SaveConnected \/ SaveCommit
  <2>1. /\ st' = ConnectedState /\ rt' = rt /\ cfg' = cfg
        /\ op.pc \in {"saveConnected", "saveCommit"}
    BY <1>1 DEF SaveConnected, SaveCommit, SaveState
  <2>2. /\ st'.sub = op.sub /\ st'.node = op.node /\ st'.connected /\ st'.transport = "proxy"
    BY <1>a, <2>1 DEF ConnectedState, State
  <2>3. QED BY <1>a, <2>1, <2>2 DEF SelectionOK, Candidate, Serving, Restored
<1>2. CASE SaveZapret \/ SaveTest
  <2>1. /\ rt' = rt /\ op.pc \in {"saveZapret", "saveTest"}
        /\ st'.connected /\ st'.transport = "zapret"
    BY <1>a, <1>2 DEF SaveZapret, SaveTest, SaveState, State
  <2>2. QED BY <1>a, <2>1 DEF ZapretOK, Restored
<1>3. QED BY <1>1, <1>2

\* Where a step can lead a restoration: not back to the caller, unless the route
\* is there.
LEMMA StepRestored ==
    ASSUME RestoreInv, Step, op.catch = "restore",
           \/ op'.pc = "idle" /\ op'.result = "ok"
           \/ op'.pc = "saveSettings" /\ op'.catch = "restore"
    PROVE  Restored'
<1>a. op \in Operation /\ TypeOK /\ RestoreOK BY DEF RestoreInv, IInv, TypeOK
<1>b. op' = Raised(op) => op'.catch = "none" /\ ~(op'.pc = "idle" /\ op'.result = "ok")
  BY <1>a, RaisedRestore
<1>1. CASE StopDNSFails \/ StopXrayFails \/ StopFirewallFails \/ StopZapretFails
           \/ PrepareFails \/ LeaveZapretFails \/ RollbackXray \/ SaveFailedHealthFails
           \/ SaveStateFails \/ SaveDirect \/ SaveFailed \/ SaveSubscriptionsFails
  BY <1>b, <1>1 DEF StopDNSFails, StopXrayFails, StopFirewallFails, StopZapretFails,
     PrepareFails, LeaveZapretFails, RollbackXray, SaveFailedHealthFails,
     SaveStateFails, SaveDirect, SaveFailed, SaveSubscriptionsFails, SaveState
<1>2. CASE StopDNS \/ StopXray \/ StopFirewall \/ StopZapret \/ LeaveZapret \/ ApplyXray
           \/ VerifyXray \/ VerifyXrayFails \/ RollbackXrayFails \/ ApplyDNS \/ ApplyFirewall
           \/ ApplyZapret
  <2>1. op'.pc \in TeardownPCs \cup SelectionPCs \cup {op.after, "saveZapret", "saveTest"}
    BY <1>a, <1>2 DEF StopDNS, StopXray, StopFirewall, StopZapret, LeaveZapret, ApplyXray,
       VerifyXray, VerifyXrayFails, RollbackXrayFails, ApplyDNS, ApplyFirewall, ApplyZapret,
       Goto, SelectionPCs, TeardownPCs, Operation
  <2>2. QED
    BY <1>a, <2>1 DEF SelectionPCs, TeardownPCs, Operation, DownPCs
<1>3. CASE ApplyXrayFails \/ SaveFailedHealth \/ ApplyDNSFails \/ ApplyFirewallFails
  <2>1. op.pc \in SelectionPCs /\ op' = SelectionFailed(op)
    BY <1>3 DEF ApplyXrayFails, SaveFailedHealth, ApplyDNSFails, ApplyFirewallFails, SelectionPCs
  <2>2. ~op.persist BY <1>a, <2>1 DEF RestoreOK
  <2>3. QED BY <1>b, <2>1, <2>2 DEF SelectionFailed
<1>4. CASE SaveConnected \/ SaveCommit \/ SaveZapret \/ SaveTest
  BY <1>4, SavedRestored DEF RestoreInv
<1>5. CASE TeardownDone \/ SaveDropped \/ SaveDroppedAgainFails \/ SaveRestoreFailed
           \/ SaveZapretOff \/ SaveTestFailed \/ SaveTestStopped \/ SaveDisconnected
           \/ SaveSubscriptions \/ RestoreRoute \/ AbandonTest \/ Reconnect
  <2>1. op.pc \in {"done", "saveDropped", "saveRestoreFailed", "saveZapretOff", "saveTestFailed",
                   "saveTestStopped", "saveDisconnected", "saveSubs", "testFailed", "reconnect"}
    BY <1>5 DEF TeardownDone, SaveDropped, SaveDroppedAgainFails, SaveRestoreFailed,
       SaveZapretOff, SaveTestFailed, SaveTestStopped, SaveDisconnected,
       SaveSubscriptions, RestoreRoute, AbandonTest, Reconnect, SaveState
  <2>2. QED BY <1>a, <2>1 DEF RestoreOK, TeardownPCs, SelectionPCs
<1>6. CASE SaveMode \/ SaveModeFails
  <2>1. op.pc = "saveSettings" /\ st' = st /\ rt' = rt /\ cfg'.profile = cfg.profile
    BY <1>a, <1>6 DEF SaveMode, SaveModeFails, TypeOK, Settings
  <2>2. Restored BY <2>1 DEF RestoreInv, RestoredOK
  <2>3. QED BY <2>1, <2>2 DEF Restored, Serving
<1>7. CASE ApplyZapretFails
  <2>1. op' = Teardown(op, "saveDirect") \/ op' = Raised(op)
    BY <1>7 DEF ApplyZapretFails
  <2>2. QED BY <1>a, <1>b, <2>1 DEF Teardown, Operation
<1>8. QED
  BY <1>1, <1>2, <1>3, <1>4, <1>5, <1>6, <1>7 DEF Step

\* No step makes a restoration of another operation.
LEMMA StepCatches ==
    ASSUME TypeOK, Step, ~Reconnect
    PROVE  op'.catch \in {op.catch, "none"}
<1>a. op \in Operation BY DEF TypeOK
<1>b. \A r : Returned(r).catch = "none" BY DEF Returned
<1>c. Raised(op).catch = "none" BY <1>a, RaisedRestore
<1>d. \A after : Teardown(op, after).catch = op.catch BY <1>a DEF Teardown, Operation
<1>1. CASE StopDNSFails \/ StopXrayFails \/ StopFirewallFails \/ StopZapretFails \/ TeardownDone
           \/ PrepareFails \/ LeaveZapretFails \/ RollbackXray \/ SaveFailedHealthFails
           \/ SaveStateFails \/ SaveDirect \/ SaveFailed \/ SaveDropped \/ SaveDroppedAgainFails
           \/ SaveRestoreFailed \/ SaveZapretOff \/ SaveTestFailed \/ SaveTestStopped
           \/ SaveMode \/ SaveModeFails \/ SaveSubscriptionsFails
  BY <1>1, <1>b, <1>c DEF StopDNSFails, StopXrayFails, StopFirewallFails, StopZapretFails,
     TeardownDone, PrepareFails, LeaveZapretFails, RollbackXray, SaveFailedHealthFails,
     SaveStateFails, SaveDirect, SaveFailed, SaveDropped, SaveDroppedAgainFails,
     SaveRestoreFailed, SaveZapretOff, SaveTestFailed, SaveTestStopped, SaveMode,
     SaveModeFails, SaveSubscriptionsFails, SaveState
<1>2. CASE StopDNS \/ StopXray \/ StopFirewall \/ StopZapret \/ LeaveZapret \/ ApplyXray
           \/ VerifyXray \/ VerifyXrayFails \/ RollbackXrayFails \/ ApplyDNS \/ ApplyFirewall
           \/ ApplyZapret \/ SaveDisconnected \/ SaveSubscriptions \/ AbandonTest
  BY <1>a, <1>2 DEF StopDNS, StopXray, StopFirewall, StopZapret, LeaveZapret, ApplyXray,
     VerifyXray, VerifyXrayFails, RollbackXrayFails, ApplyDNS, ApplyFirewall, ApplyZapret,
     SaveDisconnected, SaveSubscriptions, AbandonTest, SaveState, Goto, Operation
<1>3. CASE ApplyXrayFails \/ SaveFailedHealth \/ ApplyDNSFails \/ ApplyFirewallFails
           \/ ApplyZapretFails
  BY <1>c, <1>d, <1>3 DEF ApplyXrayFails, SaveFailedHealth, ApplyDNSFails, ApplyFirewallFails,
     ApplyZapretFails, SelectionFailed
<1>4. CASE SaveConnected \/ SaveCommit \/ SaveZapret \/ SaveTest
  <2>1. \A o \in Operation : Finished(o).catch \in {o.catch, "none"}
    BY <1>b DEF Finished, Operation
  <2>2. [op EXCEPT !.ret = IF @ = "commitSettings" THEN "settings" ELSE "ok"] \in Operation
    BY <1>a DEF Operation
  <2>3. [op EXCEPT !.ret = IF @ = "commitSettings" THEN "settings" ELSE "ok"].catch = op.catch
    BY <1>a DEF Operation
  <2>4. QED
    BY <1>a, <1>4, <2>1, <2>2, <2>3 DEF SaveConnected, SaveCommit, SaveZapret, SaveTest, SaveState
<1>5. CASE RestoreRoute
  BY <1>a, <1>b, <1>5 DEF RestoreRoute, Selecting, Operation
<1>6. QED
  BY <1>1, <1>2, <1>3, <1>4, <1>5 DEF Step

LEMMA NextRestore == ASSUME RestoreInv, [Next]_vars PROVE RestoreInv'
<1>a. IInv /\ TypeOK /\ LedgerOK /\ RestoreOK /\ op \in Operation
  BY DEF RestoreInv, IInv, TypeOK
<1>1. IInv' BY <1>a, NextInv
<1>2. LedgerOK' BY <1>a, NextLedger, LedgerWrittenOK
<1>3. CASE Step
  <2>1. RestoreOK' BY <1>a, <1>3, StepRestore
  <2>2. RestoredOK'
    <3> SUFFICES ASSUME op'.catch = "restore", op'.pc = "saveSettings" PROVE Restored'
      BY DEF RestoredOK
    <3>1. CASE op.catch = "restore"
      BY <1>3, <3>1, StepRestored
    <3>2. CASE op.catch # "restore" /\ ~Reconnect
      BY <1>a, <1>3, <3>2, StepCatches
    <3>3. CASE Reconnect
      <4>1. Begins
        BY <1>a, <3>3, PinNodeBegins, SelectAutoBegins DEF Reconnect, TypeOK, State
      <4>2. QED BY <4>1 DEF Begins, Started
    <3>4. QED BY <3>1, <3>2, <3>3
  <2>3. QED BY <1>1, <1>2, <2>1, <2>2 DEF RestoreInv
<1>4. CASE Handler
  <2>1. Begins BY <1>4, <1>a, HandlerBegins
  <2>2. op'.pc # "saveSettings" BY <2>1 DEF Begins, Started
  <2>3. QED BY <1>1, <1>2, <2>1, <2>2, BeginsRestore DEF RestoreInv, RestoredOK
<1>5. CASE Crash \/ Reboot
  BY <1>1, <1>2, <1>5 DEF Crash, Reboot, Returned, RestoreInv, RestoreOK, RestoredOK
<1>6. CASE UNCHANGED vars
  BY <1>1, <1>2, <1>6 DEF vars, RestoreInv, RestoreOK, RestoredOK, Restored, Serving
<1>7. QED BY <1>3, <1>4, <1>5, <1>6 DEF Next

LEMMA RestoreInvariance == Spec => []RestoreInv
<1>1. Init => RestoreInv
  <2> SUFFICES ASSUME Init PROVE RestoreInv
    OBVIOUS
  <2>1. op.catch = "none" BY DEF Init, Call, Returned
  <2>2. LedgerOK BY InitQuiet DEF QuietInv
  <2>3. QED BY <2>1, <2>2, InitInv DEF RestoreInv, RestoreOK, RestoredOK
<1>2. RestoreInv /\ [Next]_vars => RestoreInv' BY NextRestore
<1>3. QED BY <1>1, <1>2, PTL DEF Spec

\* When the daemon has set up again the route the ledger names, that route is
\* there, whatever a crash or a reboot had left behind and whatever else fails
\* (restoreRuntime).
THEOREM RestorationReestablishes == Spec => RestoreReestablishes
<1> DEFINE A == op.catch = "restore" /\ op'.pc = "idle" /\ op'.result = "ok"
                => /\ st'.connected
                   /\ st'.transport # "zapret" => Serving'
                   /\ st'.transport = "zapret" => rt'.zapret = "on"
<1>1. RestoreInv /\ [Next]_vars => [A]_vars
  <2> SUFFICES ASSUME RestoreInv, [Next]_vars, op.catch = "restore", op'.pc = "idle",
                      op'.result = "ok"
               PROVE  Restored'
    BY DEF Restored, vars
  <2>1. op.pc # "idle" BY DEF RestoreInv, RestoreOK, TeardownPCs, SelectionPCs
  <2>2. ~Handler BY <2>1, HandlerBegins DEF RestoreInv, IInv
  <2>3. ~Crash /\ ~Reboot /\ ~UNCHANGED vars
    BY <2>1 DEF Crash, Reboot, Returned, vars
  <2>4. QED BY <2>2, <2>3, StepRestored DEF Next
<1>2. QED BY <1>1, RestoreInvariance, PTL DEF Spec, RestoreReestablishes

-----------------------------------------------------------------------------
(* What the stored subscriptions lose.                                     *)

\* The nodes of the subscription that the ledger names stay, with the node, unless
\* the ledger could not be read.
Kept(s) ==
    st.sub = s /\ HasNode(s, st.node) /\ op'.result # "unread" => subs'[s] # {}

LEMMA StepSubscriptions == Step => subs' = subs \/ SaveSubscriptions
<1> SUFFICES ASSUME Step, ~SaveSubscriptions PROVE subs' = subs
  OBVIOUS
<1>1. CASE StopDNS \/ StopDNSFails \/ StopXray \/ StopXrayFails \/ StopFirewall
           \/ StopFirewallFails \/ StopZapret \/ StopZapretFails \/ TeardownDone
           \/ LeaveZapret \/ PrepareFails \/ LeaveZapretFails \/ ApplyXray \/ ApplyXrayFails
           \/ VerifyXray \/ VerifyXrayFails \/ RollbackXray \/ RollbackXrayFails
           \/ SaveFailedHealth \/ SaveFailedHealthFails
  BY <1>1 DEF StopDNS, StopDNSFails, StopXray, StopXrayFails, StopFirewall,
     StopFirewallFails, StopZapret, StopZapretFails, TeardownDone, LeaveZapret, PrepareFails,
     LeaveZapretFails, ApplyXray, ApplyXrayFails, VerifyXray, VerifyXrayFails, RollbackXray,
     RollbackXrayFails, SaveFailedHealth, SaveFailedHealthFails
<1>2. CASE ApplyDNS \/ ApplyDNSFails \/ ApplyFirewall \/ ApplyFirewallFails
           \/ SaveStateFails \/ SaveMode \/ SaveModeFails
           \/ SaveSubscriptionsFails \/ ApplyZapret \/ ApplyZapretFails
           \/ RestoreRoute \/ AbandonTest
  BY <1>2 DEF ApplyDNS, ApplyDNSFails, ApplyFirewall, ApplyFirewallFails, SaveStateFails,
     SaveMode, SaveModeFails, SaveSubscriptionsFails, ApplyZapret, ApplyZapretFails,
     RestoreRoute, AbandonTest
<1>3. CASE SaveConnected \/ SaveCommit \/ SaveZapret \/ SaveTest \/ SaveDisconnected
           \/ SaveDirect \/ SaveFailed \/ SaveDropped \/ SaveDroppedAgainFails
           \/ SaveRestoreFailed \/ SaveZapretOff \/ SaveTestFailed \/ SaveTestStopped
  BY <1>3 DEF SaveConnected, SaveCommit, SaveZapret, SaveTest, SaveDisconnected,
     SaveDirect, SaveFailed, SaveDropped, SaveDroppedAgainFails, SaveRestoreFailed,
     SaveZapretOff, SaveTestFailed, SaveTestStopped, SaveState
<1>4. CASE Reconnect
  BY <1>4 DEF Reconnect, PinNode, SelectAuto, ChooseNode, ChooseNone, Answer
<1>5. QED BY <1>1, <1>2, <1>3, <1>4 DEF Step

\* An operation that answers at once takes no node from under the ledger.
LEMMA HandlerKeeps ==
    ASSUME TypeOK, Handler, NEW s \in Subs
    PROVE  Kept(s)
<1>a. ASSUME NEW r \in Subs, NEW ns, NEW next, ns # {}, StoreNodes(r, ns, next)
      PROVE  Kept(s)
  BY <1>a DEF StoreNodes, Answer, Kept, HasNode, TypeOK
<1>b. subs' = subs => Kept(s) BY DEF Kept, HasNode
<1>u. op' = Returned("unread") => Kept(s) BY DEF Kept, Returned
<1>c. ASSUME NEW r \in Subs, NEW n \in NodeOrNone, NEW active \in BOOLEAN,
             ~active => ~(st.sub = r /\ (n = None \/ st.node = n)),
             Remove(active, r, n) \/ RemoveUnread(r, n)
      PROVE  Kept(s)
  <2>1. CASE subs' = subs BY <1>b, <2>1
  <2>2. CASE subs' = Removed(r, n) /\ ~active
    <3>1. r # None OBVIOUS
    <3>2. CASE st.sub = s /\ HasNode(s, st.node)
      <4>1. s = r => n # None /\ st.node # n BY <1>c, <2>2, <3>2
      <4>2. subs'[s] = (IF s = r THEN subs[s] \ {n} ELSE subs[s])
        BY <2>2, <3>1, <4>1 DEF Removed
      <4>3. st.node \in subs[s] BY <3>2 DEF HasNode
      <4>4. st.node \in subs'[s] BY <4>1, <4>2, <4>3
      <4>5. QED BY <4>4 DEF Kept
    <3>3. QED BY <3>2 DEF Kept
  <2>3. CASE RemoveUnread(r, n)
    BY <2>1, <2>3, <1>u DEF RemoveUnread, StoreRemoved, Answer
  <2>4. QED BY <1>c, <2>1, <2>2, <2>3 DEF Remove, StoreRemoved, Answer
<1>1. ASSUME NEW r \in Subs, NEW ns \in (SUBSET Catalog[r]) \ {{}},
             AddSubscription(r, ns) \/ RefreshSubscription(r, ns)
      PROVE  Kept(s)
  <2>1. ns # {} OBVIOUS
  <2>2. AddSubscription(r, ns) => Kept(s)
    BY <1>a, <2>1 DEF AddSubscription
  <2>3. RefreshSubscription(r, ns) => Kept(s)
    BY <1>a, <2>1 DEF RefreshSubscription, RefreshedNodes, Stored
  <2>4. QED BY <1>1, <2>2, <2>3
<1>2. ASSUME NEW r \in Subs, RemoveSubscription(r) PROVE Kept(s)
  <2>1. Remove(st.sub = r, r, None) \/ RemoveUnread(r, None)
    BY <1>2 DEF RemoveSubscription
  <2>2. QED BY <1>c, <2>1 DEF NodeOrNone
<1>3. ASSUME NEW r \in Subs, NEW n \in Nodes, RemoveSubscriptionNode(r, n) PROVE Kept(s)
  <2>1. Remove(st.sub = r /\ st.node = n, r, n) \/ RemoveUnread(r, n)
    BY <1>3 DEF RemoveSubscriptionNode
  <2>2. n # None OBVIOUS
  <2>3. QED BY <1>c, <2>1, <2>2 DEF NodeOrNone
<1>4. CASE RemoveAllSubscriptions
  <2>1. CASE subs' = subs BY <1>b, <2>1
  <2>2. CASE st.sub = None BY <2>2 DEF Kept
  <2>3. QED
    BY <1>4, <1>u, <2>1, <2>2
       DEF RemoveAllSubscriptions, Remove, RemoveUnread, StoreRemoved, Answer
<1>5. ASSUME NEW ns \in (SUBSET Nodes) \ {{}}, RefreshAndReconnect(ns) PROVE Kept(s)
  <2>1. CASE ~Stored(st.sub)
    BY <1>5, <1>b, <2>1 DEF RefreshAndReconnect, Answer
  <2>2. CASE Stored(st.sub)
    <3>1. st.sub \in Subs BY <2>2 DEF Stored, TypeOK, State, SubOrNone
    <3>2. RefreshedNodes(st.sub, ns) # {} BY <1>5, <2>2 DEF RefreshedNodes, Stored
    <3>3. PICK next : StoreNodes(st.sub, RefreshedNodes(st.sub, ns), next)
      BY <1>5, <2>2 DEF RefreshAndReconnect
    <3>4. QED BY <1>a, <3>1, <3>2, <3>3
  <2>3. QED BY <2>1, <2>2
<1>6. CASE \/ Disconnect \/ HealthCheck \/ RestoreRuntime \/ Refused
           \/ StartZapretTest \/ StopZapretTest
           \/ \E r \in Subs : ConnectAuto(r)
           \/ \E r \in Subs, n \in Nodes : ConnectManual(r, n)
  <2>1. subs' = subs
    BY <1>6 DEF Disconnect, HealthCheck, RestoreRuntime, Refused,
       StartZapretTest, StopZapretTest, ConnectAuto, ConnectManual, PinNode, SelectAuto,
       ChooseNode, ChooseNone, Answer
  <2>2. QED BY <1>b, <2>1
<1>7. CASE \/ \E b \in BOOLEAN : SetZapretEnabled(b) \/ SetAutoMode(b)
           \/ \E sel \in Selectors : SetZapretSelectors(sel)
           \/ \E d, f \in BOOLEAN : SetRouting(d, f)
  <2>1. subs' = subs
    BY <1>7 DEF SetZapretEnabled, SetAutoMode, SetZapretSelectors, SetRouting, SaveProfile,
       SaveAutoMode, PinNode, SelectAuto, ChooseNode, ChooseNone, Answer
  <2>2. QED BY <1>b, <2>1
<1>8. QED BY <1>1, <1>2, <1>3, <1>4, <1>5, <1>6, <1>7 DEF Handler

\* While Xray runs a node of the subscription the ledger names, no step empties
\* that subscription, whatever fails: removeSubscription, removeSubscriptionNode and
\* removeAllSubscriptions disconnect first, except when the ledger cannot be read.
THEOREM RemovalsDisconnect == Spec => RemovalDisconnects
<1> DEFINE A == \A s \in Subs :
                  /\ rt.xray # None /\ rt.xray.sub = s /\ st.sub = s /\ HasNode(s, st.node)
                  /\ op'.result # "unread"
                  => subs'[s] # {}
<1>1. IInv /\ [Next]_vars => [A]_vars
  <2> SUFFICES ASSUME IInv, [Next]_vars, NEW s \in Subs, rt.xray # None, st.sub = s,
                      HasNode(s, st.node), op'.result # "unread"
               PROVE  subs'[s] # {}
    BY DEF vars
  <2>1. ~SaveSubscriptions
    BY DEF SaveSubscriptions, IInv, OpOK, TeardownOK, DownPCs, AllDown, ProxyDown
  <2>2. CASE subs' = subs
    BY <2>2 DEF HasNode
  <2>3. CASE Handler
    BY <2>3, HandlerKeeps DEF IInv, Kept
  <2>4. CASE Crash \/ Reboot \/ UNCHANGED vars
    BY <2>2, <2>4 DEF Crash, Reboot, vars
  <2>5. QED BY <2>1, <2>2, <2>3, <2>4, StepSubscriptions DEF Next
<1>2. QED BY <1>1, Invariance, PTL DEF Spec, RemovalDisconnects
=============================================================================
