-------------------------- MODULE RouteFluxService --------------------------
(***************************************************************************)
(* The application service of RouteFlux (internal/app): the operations     *)
(* that choose a route for the router, and the ledger they keep of it.     *)
(*                                                                         *)
(* The ledger is three JSON files (subscriptions, state, settings).  What  *)
(* the router does is decided elsewhere: by the Xray process, the dnsmasq  *)
(* configuration, the nftables table and the Zapret service.  Nothing      *)
(* updates the two together, so an operation is a program of small steps,  *)
(* each of which may fail, and the process may die between any two.  The   *)
(* properties relate the ledger to the runtime across those steps.         *)
(*                                                                         *)
(* One operation runs at a time (FileStore.WithWriteLock, see StoreLock    *)
(* for what that lock does and does not exclude).  op is its program       *)
(* counter and its local variables.                                        *)
(***************************************************************************)
EXTENDS XrayOutcomes

CONSTANTS
    Subs,        \* subscription ids
    Nodes,       \* node ids
    Catalog,     \* the nodes a subscription's source may list
    ServerList,  \* the subscription of pasted nodes ("server-list"), or None
    NameOf,      \* the display name of a node; names may repeat
    Profiles,    \* the settings a user may choose: records of Profile
    Faults       \* the external steps that may fail, a subset of FaultNames

SetupFaults    == {"prepare", "apply", "run", "rollback", "dnsOn", "fwOn", "zapOn"}
TeardownFaults == {"dnsOff", "stop", "fwOff", "zapOff"}
FaultNames     == SetupFaults \cup TeardownFaults \cup {"load", "save", "crash", "reboot"}

Selectors == {"none", "cidrs", "domains"}

\* The part of settings.json that steers an operation: Zapret fallback enabled
\* and its selectors, local DNS runtime wanted, transparent routing wanted.
Profile ==
    [zapret : BOOLEAN, selectors : Selectors, dns : BOOLEAN, fw : BOOLEAN]

ASSUME NoneAssumption     ==
    None \notin Subs /\ None \notin Nodes /\ None \notin [sub : Subs, node : Nodes]
ASSUME CatalogAssumption  == Catalog \in [Subs -> SUBSET Nodes]
ASSUME ServerAssumption   == ServerList \in Subs \cup {None}
ASSUME ProfilesAssumption == Profiles \subseteq Profile
ASSUME FaultsAssumption   == Faults \subseteq FaultNames

VARIABLES
    subs,   \* subscriptions.json: the stored nodes, {} when not stored
    st,     \* state.json
    cfg,    \* settings.json: a profile and the selection mode
    rt,     \* what runs on the router
    conf,   \* the Xray config on disk, and the last-known-good one
    op      \* the operation holding the write lock

vars == <<subs, st, cfg, rt, conf, op>>

-----------------------------------------------------------------------------
Modes      == {"disconnected", "manual", "auto"}
Transports == {"direct", "proxy", "zapret"}
SubOrNone  == Subs \cup {None}
NodeOrNone == Nodes \cup {None}
Outbound   == [sub : Subs, node : Nodes]

Selection  == [sub : SubOrNone, node : NodeOrNone, mode : Modes,
               connected : BOOLEAN, transport : Transports]
State      == [sub : SubOrNone, node : NodeOrNone, mode : Modes,
               connected : BOOLEAN, transport : Transports,
               test : BOOLEAN, restore : Selection]
Settings   == [profile : Profiles, mode : Modes]
XrayFiles  == [disk : Outbound \cup {None}, good : Outbound \cup {None}]
Runtime    == [xray : Outbound \cup {None}, dns : BOOLEAN, fw : BOOLEAN,
               zapret : {"off", "marked", "on"}]

TeardownPCs  == {"dnsOff", "xrayStop", "fwOff", "zapOff"}
SelectionPCs == {"leaveZapret", "xrayApply", "verify", "rollback", "saveHealth",
                 "dns", "fw", "saveConnected", "saveCommit"}
ZapretPCs    == {"zapOn", "zapTest", "saveZapret", "saveTest", "testFailed"}
DownPCs      == {"saveSubs", "saveDisconnected", "saveDirect", "saveFailed",
                 "saveDropped", "saveRestoreFailed", "saveTestStopped",
                 "saveZapretOff", "done"}
PCs          == {"idle", "reconnect", "saveTestFailed", "saveSettings"}
                  \cup TeardownPCs \cup SelectionPCs \cup ZapretPCs \cup DownPCs

\* "unread": a removal went through without having read the ledger.
Results == {"none", "ok", "unread", "failed", "crashed"}

Operation ==
    [pc : PCs, result : Results,
     sub : SubOrNone, node : NodeOrNone, mode : Modes,
     persist  : BOOLEAN,   \* applyNodeSelectionOptions.persistFailure
     rollback : BOOLEAN,   \* applyNodeSelectionOptions.rollbackOnVerificationFail
     snap  : Outbound \cup {None},                  \* the captured rollback config
     after : DownPCs \cup {"zapOn", "zapTest"},     \* what follows a teardown
     catch : {"none", "restore", "test"},           \* who handles an error
     ret   : {"ok", "fail", "settings", "commit", "commitSettings"}]

\* The idle operation; result is the outcome of the last one.
Returned(result) ==
    [pc |-> "idle", result |-> result, sub |-> None, node |-> None,
     mode |-> "disconnected", persist |-> FALSE, rollback |-> FALSE,
     snap |-> None, after |-> "done", catch |-> "none", ret |-> "ok"]

Call == Returned("none")

Fails(f) == f \in Faults

-----------------------------------------------------------------------------
(* The ledger.                                                             *)

NoSelection == [sub |-> None, node |-> None, mode |-> "disconnected",
                connected |-> FALSE, transport |-> "direct"]

\* effectiveActiveTransport: a state written before active_transport existed
\* reads as proxy when it is connected to a node.
EffectiveTransport(s) ==
    IF /\ s.transport = "direct" /\ s.connected
       /\ s.sub # None /\ s.node # None /\ s.mode # "disconnected"
    THEN "proxy" ELSE s.transport

\* Mutant: the whole state is kept as the restore point.
RestoreWholeState(s) == s

RestorePoint(s) ==
    [sub |-> s.sub, node |-> s.node, mode |-> s.mode,
     connected |-> s.connected, transport |-> EffectiveTransport(s)]

ProxyRestorable(p) ==
    p.connected /\ p.transport = "proxy" /\ p.sub # None /\ p.node # None

\* selectionOptionsForState: roll back only to a connection that exists.
RollbackWanted == st.connected /\ st.sub # None /\ st.node # None

Stored(s)      == s # None /\ subs[s] # {}
HasNode(s, n)  == s # None /\ n \in subs[s]
Enabled(c)     == c.profile.zapret /\ c.profile.selectors = "domains"

\* The state after a write that ends the connection, and clearZapretTestState.
Down(s, sub, node, mode) ==
    [s EXCEPT !.sub = sub, !.node = node, !.mode = mode, !.connected = FALSE,
              !.transport = "direct", !.test = FALSE, !.restore = NoSelection]

-----------------------------------------------------------------------------
(* Control: what an operation does next.                                   *)

Goto(pc) == [op EXCEPT !.pc = pc]

\* Mutant: the teardown forgets the DNS runtime.
TeardownWithoutDNS(o, after) == [o EXCEPT !.pc = "xrayStop", !.after = after]

\* Stop the proxy transport (dns, xray, firewall), then Zapret unless Zapret
\* is what comes next, then continue at after.
Teardown(o, after) == [o EXCEPT !.pc = "dnsOff", !.after = after]

\* Mutant: a failing restore is restored again.
RaisedForever(o) ==
    CASE o.catch = "restore" -> Teardown(o, "saveRestoreFailed")
      [] o.catch = "test" -> [o EXCEPT !.pc = "testFailed", !.catch = "none"]
      [] OTHER -> Returned("failed")

\* An error return: to restoreRuntime, which records the failure, to
\* startZapretTest, which restores the previous route, or to the caller.
Raised(o) ==
    CASE o.catch = "restore" ->
           Teardown([o EXCEPT !.catch = "none"], "saveRestoreFailed")
      [] o.catch = "test" -> [o EXCEPT !.pc = "testFailed", !.catch = "none"]
      [] OTHER -> Returned("failed")

\* applyNodeSelection with its options.
Selecting(o, s, n, mode, persist, rollback) ==
    [o EXCEPT !.pc = "leaveZapret", !.sub = s, !.node = n, !.mode = mode,
              !.persist = persist, !.rollback = rollback]

\* Mutant: a failed selection is reported and left as it is.
SelectionAbandoned(o) == Raised(o)

\* handleNodeSelectionFailure: markConnectionFailed when the caller wants the
\* failure recorded, otherwise the error alone.
SelectionFailed(o) == IF o.persist THEN Teardown(o, "saveFailed") ELSE Raised(o)

\* A successful return, through the caller's remaining writes.
Finished(o) ==
    CASE o.ret = "ok"       -> Returned("ok")
      [] o.ret = "fail"     -> Returned("failed")
      [] o.ret = "settings" -> [o EXCEPT !.pc = "saveSettings"]
      [] OTHER              -> [o EXCEPT !.pc = "saveCommit"]

\* Mutant: Zapret is started beside the proxy.
FallbackBesideProxy(o, c, s) ==
    IF ~Enabled(c) THEN Teardown([o EXCEPT !.sub = s], "saveDirect")
    ELSE [o EXCEPT !.sub = s, !.pc = "zapOn"]

\* activateZapretFallback; without a usable Zapret it is markTransportDirect.
Fallback(o, c, s) ==
    LET f == [o EXCEPT !.sub = s]
    IN  IF ~Enabled(c) THEN Teardown(f, "saveDirect")
        ELSE IF EffectiveTransport(st) = "zapret" THEN [f EXCEPT !.pc = "zapOn"]
        ELSE Teardown(f, "zapOn")

\* applyZapretTestMode up to its first command.
TestMode(o, c) ==
    IF c.profile.selectors = "domains" THEN Teardown(o, "zapTest") ELSE Raised(o)

\* reapplyCurrentConnection.
Reapply(o, c) ==
    IF ~st.connected \/ st.sub = None THEN Teardown([o EXCEPT !.catch = "none"], "done")
    ELSE IF st.test THEN TestMode(o, c)
    ELSE IF EffectiveTransport(st) = "zapret"
         THEN IF Stored(st.sub) THEN Fallback(o, c, st.sub) ELSE Raised(o)
    ELSE IF HasNode(st.sub, st.node)
         THEN Selecting(o, st.sub, st.node, st.mode, FALSE, FALSE)
    ELSE Raised(o)

\* commitAutoSelection: applyNodeSelection, then a second save of the state.
Commit(s, n, ret) ==
    Selecting([Call EXCEPT !.ret = ret], s, n, "auto", TRUE, RollbackWanted)

SameName(s, n) == {m \in subs[s] : NameOf[m] = NameOf[n]}

-----------------------------------------------------------------------------
(* Steps: tearing the runtime down (stopProxyTransport, disconnectRuntime). *)

StopDNS ==
    /\ op.pc = "dnsOff"
    /\ rt' = [rt EXCEPT !.dns = FALSE]
    /\ op' = Goto("xrayStop")
    /\ UNCHANGED <<subs, st, cfg, conf>>

StopDNSFails ==
    /\ op.pc = "dnsOff" /\ Fails("dnsOff")
    /\ \E d \in {rt.dns, FALSE} : rt' = [rt EXCEPT !.dns = d]
    /\ op' = Raised(op)
    /\ UNCHANGED <<subs, st, cfg, conf>>

StopXray ==
    /\ op.pc = "xrayStop"
    /\ rt' = [rt EXCEPT !.xray = None]
    /\ op' = Goto("fwOff")
    /\ UNCHANGED <<subs, st, cfg, conf>>

StopXrayFails ==
    /\ op.pc = "xrayStop" /\ Fails("stop")
    /\ \E x \in {rt.xray, None} : rt' = [rt EXCEPT !.xray = x]
    /\ op' = Raised(op)
    /\ UNCHANGED <<subs, st, cfg, conf>>

StopFirewall ==
    /\ op.pc = "fwOff"
    /\ rt' = [rt EXCEPT !.fw = FALSE]
    /\ op' = Goto(IF op.after \in {"zapOn", "zapTest"} THEN op.after ELSE "zapOff")
    /\ UNCHANGED <<subs, st, cfg, conf>>

StopFirewallFails ==
    /\ op.pc = "fwOff" /\ Fails("fwOff")
    /\ \E f \in {rt.fw, FALSE} : rt' = [rt EXCEPT !.fw = f]
    /\ op' = Raised(op)
    /\ UNCHANGED <<subs, st, cfg, conf>>

\* ZapretManager.Disable fails only past its marker check; the service may be
\* stopped by then, with the marker and RouteFlux's files still in place.
DisableZapretFails ==
    /\ Fails("zapOff") /\ rt.zapret # "off"
    /\ \E z \in {rt.zapret, "marked"} : rt' = [rt EXCEPT !.zapret = z]

StopZapret ==
    /\ op.pc = "zapOff"
    /\ rt' = [rt EXCEPT !.zapret = "off"]
    /\ op' = Goto(op.after)
    /\ UNCHANGED <<subs, st, cfg, conf>>

StopZapretFails ==
    /\ op.pc = "zapOff" /\ DisableZapretFails
    /\ op' = Raised(op)
    /\ UNCHANGED <<subs, st, cfg, conf>>

\* A teardown nothing is recorded for: the ledger already says disconnected.
TeardownDone ==
    /\ op.pc = "done"
    /\ op' = Returned("ok")
    /\ UNCHANGED <<subs, st, cfg, rt, conf>>

-----------------------------------------------------------------------------
(* Steps: applyNodeSelection.                                              *)

\* Mutant: the selection does not leave Zapret.
KeepZapret ==
    /\ op.pc = "leaveZapret"
    /\ op' = [op EXCEPT !.pc = "xrayApply", !.snap = IF op.rollback THEN conf.good ELSE None]
    /\ UNCHANGED <<subs, st, cfg, rt, conf>>

\* IPv6, the DNS bootstrap, then Zapret off when the ledger says it carries the
\* traffic.  The rollback config is captured just before the apply.
LeaveZapret ==
    /\ op.pc = "leaveZapret"
    /\ rt' = IF EffectiveTransport(st) = "zapret" THEN [rt EXCEPT !.zapret = "off"] ELSE rt
    /\ op' = [op EXCEPT !.pc = "xrayApply", !.snap = IF op.rollback THEN conf.good ELSE None]
    /\ UNCHANGED <<subs, st, cfg, conf>>

PrepareFails ==
    /\ op.pc = "leaveZapret" /\ (Fails("prepare") \/ Fails("load"))
    /\ op' = Raised(op)
    /\ UNCHANGED <<subs, st, cfg, rt, conf>>

LeaveZapretFails ==
    /\ op.pc = "leaveZapret" /\ EffectiveTransport(st) = "zapret"
    /\ DisableZapretFails
    /\ op' = Raised(op)
    /\ UNCHANGED <<subs, st, cfg, conf>>

Candidate == [sub |-> op.sub, node |-> op.node]

\* RuntimeBackend.ApplyConfig: the new config runs and becomes last-known-good.
ApplyXray ==
    /\ op.pc = "xrayApply"
    /\ rt' = [rt EXCEPT !.xray = Candidate]
    /\ conf' = Files(Candidate, Candidate)
    /\ op' = Goto("verify")
    /\ UNCHANGED <<subs, st, cfg>>

\* What a failing ApplyConfig leaves is XrayBackend's contract.
ApplyXrayFails ==
    /\ op.pc = "xrayApply" /\ Fails("apply")
    /\ \E r \in ApplyFailures(rt.xray, conf, Candidate) :
          rt' = [rt EXCEPT !.xray = r[1]] /\ conf' = r[2]
    /\ op' = SelectionFailed(op)
    /\ UNCHANGED <<subs, st, cfg>>

\* ensureBackendRunning.
VerifyXray ==
    /\ op.pc = "verify"
    /\ op' = Goto("dns")
    /\ UNCHANGED <<subs, st, cfg, rt, conf>>

VerifyXrayFails ==
    /\ op.pc = "verify" /\ Fails("run")
    /\ \E x \in {rt.xray, None} : rt' = [rt EXCEPT !.xray = x]
    /\ op' = Goto(IF op.rollback /\ op.snap # None THEN "rollback" ELSE "saveHealth")
    /\ UNCHANGED <<subs, st, cfg, conf>>

\* Mutant: the rollback leaves the failed candidate as last-known-good.
RollbackKeepsCandidate ==
    /\ op.pc = "rollback"
    /\ rt' = [rt EXCEPT !.xray = op.snap]
    /\ op' = Raised(op)
    /\ UNCHANGED <<subs, st, cfg, conf>>

\* RollbackConfig, then persistPreservedConnection: the state that is saved is
\* the one loaded when the operation began, so the ledger does not change.
RollbackXray ==
    /\ op.pc = "rollback"
    /\ rt' = [rt EXCEPT !.xray = op.snap]
    /\ conf' = Files(op.snap, op.snap)
    /\ op' = Raised(op)
    /\ UNCHANGED <<subs, st, cfg>>

RollbackXrayFails ==
    /\ op.pc = "rollback" /\ Fails("rollback")
    /\ \E r \in RollbackFailures(rt.xray, conf, op.snap) :
          rt' = [rt EXCEPT !.xray = r[1]] /\ conf' = r[2]
    /\ op' = Goto("saveHealth")
    /\ UNCHANGED <<subs, st, cfg>>

\* persistVerificationFailureHealth; when its save fails nothing is torn down.
SaveFailedHealth ==
    /\ op.pc = "saveHealth"
    /\ op' = SelectionFailed(op)
    /\ UNCHANGED <<subs, st, cfg, rt, conf>>

SaveFailedHealthFails ==
    /\ op.pc = "saveHealth" /\ Fails("save")
    /\ op' = Raised(op)
    /\ UNCHANGED <<subs, st, cfg, rt, conf>>

ApplyDNS ==
    /\ op.pc = "dns"
    /\ rt' = [rt EXCEPT !.dns = cfg.profile.dns]
    /\ op' = Goto("fw")
    /\ UNCHANGED <<subs, st, cfg, conf>>

ApplyDNSFails ==
    /\ op.pc = "dns" /\ Fails(IF cfg.profile.dns THEN "dnsOn" ELSE "dnsOff")
    /\ \E d \in {rt.dns, cfg.profile.dns} : rt' = [rt EXCEPT !.dns = d]
    /\ op' = SelectionFailed(op)
    /\ UNCHANGED <<subs, st, cfg, conf>>

ApplyFirewall ==
    /\ op.pc = "fw"
    /\ rt' = [rt EXCEPT !.fw = cfg.profile.fw]
    /\ op' = Goto("saveConnected")
    /\ UNCHANGED <<subs, st, cfg, conf>>

\* Mutant: a firewall that could not be loaded is only logged.
ApplyFirewallLogged ==
    /\ op.pc = "fw" /\ Fails(IF cfg.profile.fw THEN "fwOn" ELSE "fwOff")
    /\ \E f \in {rt.fw, FALSE, cfg.profile.fw} : rt' = [rt EXCEPT !.fw = f]
    /\ op' = Goto("saveConnected")
    /\ UNCHANGED <<subs, st, cfg, conf>>

\* FirewallManager.Apply deletes the old table before it loads the new one.
ApplyFirewallFails ==
    /\ op.pc = "fw" /\ Fails(IF cfg.profile.fw THEN "fwOn" ELSE "fwOff")
    /\ \E f \in {rt.fw, FALSE, cfg.profile.fw} : rt' = [rt EXCEPT !.fw = f]
    /\ op' = SelectionFailed(op)
    /\ UNCHANGED <<subs, st, cfg, conf>>

-----------------------------------------------------------------------------
(* Steps: writing the ledger.                                              *)

\* A save of state.json: it succeeds and the operation goes on at next, or it
\* fails, as the load before it may, and the operation returns the error.
SaveState(pc, s, next) ==
    /\ op.pc = pc
    /\ st' = s
    /\ op' = next
    /\ UNCHANGED <<subs, cfg, rt, conf>>

SaveStateFails ==
    /\ op.pc \in {"saveConnected", "saveCommit", "saveZapret", "saveTest",
                  "saveDisconnected", "saveDirect", "saveFailed", "saveDropped",
                  "saveRestoreFailed", "saveTestStopped", "saveZapretOff",
                  "saveTestFailed"}
    /\ Fails("save")
    /\ op' = Raised(op)
    /\ UNCHANGED <<subs, st, cfg, rt, conf>>

ConnectedState ==
    [st EXCEPT !.sub = op.sub, !.node = op.node, !.mode = op.mode,
               !.connected = TRUE, !.transport = "proxy",
               !.test = FALSE, !.restore = NoSelection]

SaveConnected == SaveState("saveConnected", ConnectedState, Finished(op))

\* The second save of commitAutoSelection.
SaveCommit ==
    SaveState("saveCommit", ConnectedState,
              Finished([op EXCEPT !.ret = IF @ = "commitSettings" THEN "settings" ELSE "ok"]))

\* activateZapretFallback keeps the node: Zapret has none of its own.
SaveZapret ==
    SaveState("saveZapret",
              [st EXCEPT !.sub = op.sub, !.mode = "auto", !.connected = TRUE,
                         !.transport = "zapret", !.test = FALSE, !.restore = NoSelection],
              Finished(op))

SaveTest ==
    SaveState("saveTest",
              [st EXCEPT !.connected = TRUE, !.transport = "zapret", !.test = TRUE,
                         !.restore = IF st.test THEN @ ELSE RestorePoint(st)],
              Finished(op))

SaveDisconnected ==
    SaveState("saveDisconnected", Down(st, None, None, "disconnected"),
              [op EXCEPT !.pc = "saveSettings", !.mode = "disconnected"])

\* markTransportDirect returns an error even when it saved.
SaveDirect ==
    SaveState("saveDirect", Down(st, op.sub, st.node, "auto"), Raised(op))

\* markConnectionFailed under a selection.
SaveFailed ==
    SaveState("saveFailed", Down(st, op.sub, op.node, op.mode), Raised(op))

\* persistAutoFailure: the state is saved twice with the same selection.
SaveDropped ==
    SaveState("saveDropped", Down(st, st.sub, st.node, "auto"), Returned("ok"))

SaveDroppedAgainFails ==
    /\ Fails("save")
    /\ SaveState("saveDropped", Down(st, st.sub, st.node, "auto"), Returned("failed"))

SaveRestoreFailed ==
    SaveState("saveRestoreFailed", Down(st, st.sub, st.node, st.mode), Returned("failed"))

SaveZapretOff ==
    SaveState("saveZapretOff", Down(st, st.sub, st.node, st.mode), Returned("ok"))

SaveTestFailed ==
    SaveState("saveTestFailed", Down(st, st.sub, st.node, st.mode), Returned("failed"))

SaveTestStopped ==
    SaveState("saveTestStopped",
              Down(st, st.restore.sub, st.restore.node, st.restore.mode), Returned("ok"))

\* The selection mode in settings.json follows the state, best effort.
SaveMode ==
    /\ op.pc = "saveSettings"
    /\ cfg' = [cfg EXCEPT !.mode = op.mode]
    /\ op' = Returned("ok")
    /\ UNCHANGED <<subs, st, rt, conf>>

SaveModeFails ==
    /\ op.pc = "saveSettings" /\ Fails("save")
    /\ op' = Returned("ok")
    /\ UNCHANGED <<subs, st, cfg, rt, conf>>

\* What subscriptions.json holds once op.sub, its node op.node, or (no
\* subscription given) everything has been removed.
Removed(s, n) ==
    [r \in Subs |-> IF s = None \/ (r = s /\ n = None) THEN {}
                   ELSE IF r = s THEN subs[r] \ {n} ELSE subs[r]]

SaveSubscriptions ==
    /\ op.pc = "saveSubs"
    /\ subs' = Removed(op.sub, op.node)
    /\ op' = Goto("saveDisconnected")
    /\ UNCHANGED <<st, cfg, rt, conf>>

SaveSubscriptionsFails ==
    /\ op.pc = "saveSubs" /\ Fails("save")
    /\ op' = Raised(op)
    /\ UNCHANGED <<subs, st, cfg, rt, conf>>

-----------------------------------------------------------------------------
(* Steps: Zapret.                                                          *)

ApplyZapret ==
    /\ op.pc \in {"zapOn", "zapTest"}
    /\ rt' = [rt EXCEPT !.zapret = "on"]
    /\ op' = Goto(IF op.pc = "zapOn" THEN "saveZapret" ELSE "saveTest")
    /\ UNCHANGED <<subs, st, cfg, conf>>

\* Mutant: the service's state after the start is not checked.
ApplyZapretUnchecked ==
    /\ op.pc \in {"zapOn", "zapTest"} /\ Fails("zapOn")
    /\ \E z \in {rt.zapret, "marked", "on"} : rt' = [rt EXCEPT !.zapret = z]
    /\ op' = Goto(IF op.pc = "zapOn" THEN "saveZapret" ELSE "saveTest")
    /\ UNCHANGED <<subs, st, cfg, conf>>

\* It may fail before the marker is written, after, or after the service came up.
ApplyZapretFails ==
    /\ op.pc \in {"zapOn", "zapTest"} /\ Fails("zapOn")
    /\ \E z \in {rt.zapret, "marked", "on"} : rt' = [rt EXCEPT !.zapret = z]
    /\ op' = IF op.pc = "zapOn" THEN Teardown(op, "saveDirect") ELSE Raised(op)
    /\ UNCHANGED <<subs, st, cfg, conf>>

\* startZapretTest could not start the test: restoreZapretTestSelection when
\* there was a proxy connection, otherwise Zapret off (its error ignored).
RestoreRoute ==
    /\ op.pc = "testFailed" /\ ProxyRestorable(RestorePoint(st))
    /\ op' = IF HasNode(st.sub, st.node)
             THEN Selecting([op EXCEPT !.ret = "fail"], st.sub, st.node, st.mode, TRUE, FALSE)
             ELSE Returned("failed")
    /\ UNCHANGED <<subs, st, cfg, rt, conf>>

AbandonTest ==
    /\ op.pc = "testFailed" /\ ~ProxyRestorable(RestorePoint(st))
    /\ \/ rt' = [rt EXCEPT !.zapret = "off"]
       \/ DisableZapretFails
    /\ op' = Goto("saveTestFailed")
    /\ UNCHANGED <<subs, st, cfg, conf>>

-----------------------------------------------------------------------------
(* Operations on the stored subscriptions.                                 *)

Idle == op.pc = "idle"

Answer(result) ==
    /\ op' = Returned(result)
    /\ UNCHANGED <<subs, st, cfg, rt, conf>>

\* subscriptions.json is replaced; nothing else depends on the outcome.
StoreNodes(s, ns, next) ==
    \/ /\ subs' = [subs EXCEPT ![s] = ns]
       /\ op' = next
       /\ UNCHANGED <<st, cfg, rt, conf>>
    \/ Fails("save") /\ Answer("failed")

\* A source is parsed to at least one node or refused.  Pasted nodes join the
\* server list; any other source becomes a subscription of its own.
AddSubscription(s, ns) ==
    /\ Idle
    /\ s = ServerList \/ subs[s] = {}
    /\ StoreNodes(s, IF s = ServerList THEN subs[s] \cup ns ELSE ns, Returned("ok"))

\* A refresh fetches the source again; the server list has none to fetch.
RefreshedNodes(s, ns) == IF s = ServerList THEN subs[s] ELSE ns

RefreshSubscription(s, ns) ==
    /\ Idle /\ Stored(s)
    /\ StoreNodes(s, RefreshedNodes(s, ns), Returned("ok"))

StoreRemoved(s, n, result) ==
    \/ /\ subs' = Removed(s, n)
       /\ op' = Returned(result)
       /\ UNCHANGED <<st, cfg, rt, conf>>
    \/ Fails("save") /\ Answer("failed")

\* Mutant: the active subscription is removed like any other.
RemoveStoredOnly(active, s, n) == StoreRemoved(s, n, "ok")

\* Disconnect first when the ledger names what is removed as active, then store.
Remove(active, s, n) ==
    IF active THEN /\ op' = Teardown([Call EXCEPT !.sub = s, !.node = n], "saveSubs")
                   /\ UNCHANGED <<subs, st, cfg, rt, conf>>
    ELSE StoreRemoved(s, n, "ok")

\* A ledger that cannot be read names nothing as active.
RemoveUnread(s, n) == Fails("load") /\ StoreRemoved(s, n, "unread")

RemoveSubscription(s) ==
    /\ Idle /\ Stored(s)
    /\ Remove(st.sub = s, s, None) \/ RemoveUnread(s, None)

RemoveSubscriptionNode(s, n) ==
    /\ Idle /\ HasNode(s, n)
    /\ Remove(st.sub = s /\ st.node = n, s, n) \/ RemoveUnread(s, n)

RemoveAllSubscriptions ==
    /\ Idle /\ \E s \in Subs : Stored(s)
    /\ Remove(st.sub # None, None, None) \/ RemoveUnread(None, None)

-----------------------------------------------------------------------------
(* Operations that choose a route.                                         *)

\* connectManual: the best of the nodes that share the chosen node's name.
PinNode(s, n) ==
    IF HasNode(s, n)
    THEN /\ \E m \in SameName(s, n) :
              op' = Selecting([Call EXCEPT !.ret = "settings"], s, m, "manual",
                              TRUE, RollbackWanted)
         /\ UNCHANGED <<subs, st, cfg, rt, conf>>
    ELSE Answer("failed")

\* connectAuto when the probes leave a healthy node, which scores best.
ChooseNode(s) ==
    /\ \E n \in subs[s] : op' = Commit(s, n, "commitSettings")
    /\ UNCHANGED <<subs, st, cfg, rt, conf>>

\* connectAuto when no node is healthy.
ChooseNone(s) ==
    IF cfg.profile.zapret
    THEN /\ op' = Fallback([Call EXCEPT !.mode = "auto", !.ret = "settings"], cfg, s)
         /\ UNCHANGED <<subs, st, cfg, rt, conf>>
    ELSE /\ \/ st' = [st EXCEPT !.sub = s, !.mode = "auto"]
            \/ Fails("save") /\ st' = st
         /\ op' = Returned("failed")
         /\ UNCHANGED <<subs, cfg, rt, conf>>

SelectAuto(s) ==
    IF Stored(s) THEN ChooseNode(s) \/ ChooseNone(s) ELSE Answer("failed")

ConnectManual(s, n) == Idle /\ HasNode(s, n) /\ PinNode(s, n)

ConnectAuto(s) == Idle /\ SelectAuto(s)

Disconnect ==
    /\ Idle
    /\ op' = Teardown(Call, "saveDisconnected")
    /\ UNCHANGED <<subs, st, cfg, rt, conf>>

\* refreshAndReconnect: the scheduler's refresh of the active subscription.
RefreshAndReconnect(ns) ==
    /\ Idle /\ st.sub # None
    /\ IF Stored(st.sub)
       THEN /\ ns \subseteq Catalog[st.sub]
            /\ StoreNodes(st.sub, RefreshedNodes(st.sub, ns),
                          IF \/ st.mode = "auto"
                             \/ st.mode = "manual" /\ st.node # None
                          THEN [Call EXCEPT !.pc = "reconnect"] ELSE Returned("ok"))
       ELSE Answer("failed")

Reconnect ==
    /\ op.pc = "reconnect"
    /\ IF st.mode = "manual" THEN PinNode(st.sub, st.node) ELSE SelectAuto(st.sub)

\* runAutoHealthCheck decides to change the route; deciding to keep it only
\* rewrites health, which this module does not hold.
HealthCheck ==
    /\ Idle /\ ~st.test /\ st.mode = "auto" /\ st.sub # None
    /\ UNCHANGED <<subs, st, cfg, rt, conf>>
    /\ op' \in
         IF ~Stored(st.sub) THEN {Returned("failed")}
         ELSE IF EffectiveTransport(st) = "zapret"
              THEN {Commit(st.sub, n, "commit") : n \in subs[st.sub]}
         ELSE {Commit(st.sub, n, "commit") :
                  n \in subs[st.sub] \ (IF st.connected THEN {st.node} ELSE {})}
              \cup IF cfg.profile.zapret THEN {Fallback(Call, cfg, st.sub)}
                   ELSE IF st.connected THEN {Teardown(Call, "saveDropped")}
                   ELSE {}

\* Mutant: the daemon trusts a connected ledger.
RestoreTrustsLedger ==
    /\ Idle
    /\ op' = IF st.connected
             THEN [Call EXCEPT !.catch = "restore", !.mode = st.mode, !.pc = "saveSettings"]
             ELSE Teardown(Call, "done")
    /\ UNCHANGED <<subs, st, cfg, rt, conf>>

\* The daemon's first act.
RestoreRuntime ==
    /\ Idle
    /\ op' = Reapply([Call EXCEPT !.catch = "restore", !.mode = st.mode,
                                  !.ret = IF st.test THEN "ok" ELSE "settings"], cfg)
    /\ UNCHANGED <<subs, st, cfg, rt, conf>>

\* An operation returns before it does anything: restoreRuntime when
\* ensureManagedIPv6State fails, and every one that begins by reading the ledger
\* when that fails (connectManual, connectAuto, refreshAndReconnect,
\* runAutoHealthCheck, restoreRuntime, startZapretTest, stopZapretTest).
Refused == Idle /\ (Fails("prepare") \/ Fails("load")) /\ Answer("failed")

-----------------------------------------------------------------------------
(* Zapret test mode and settings.                                          *)

StartZapretTest ==
    /\ Idle /\ ~st.test
    /\ op' = IF EffectiveTransport(st) = "zapret" THEN Returned("failed")
             ELSE TestMode([Call EXCEPT !.catch = "test"], cfg)
    /\ UNCHANGED <<subs, st, cfg, rt, conf>>

StopZapretTest ==
    /\ Idle /\ st.test
    /\ op' = IF ProxyRestorable(st.restore)
             THEN IF HasNode(st.restore.sub, st.restore.node)
                  THEN Selecting(Call, st.restore.sub, st.restore.node, st.restore.mode,
                                 TRUE, FALSE)
                  ELSE Returned("failed")
             ELSE Teardown(Call, "saveTestStopped")
    /\ UNCHANGED <<subs, st, cfg, rt, conf>>

\* A settings operation saves the new profile first, then reads the ledger and
\* acts on the two; otherwise is its answer when the ledger cannot be read.
SaveProfile(p, next, otherwise) ==
    /\ Idle /\ p \in Profiles
    /\ \/ /\ cfg' = [cfg EXCEPT !.profile = p]
          /\ \/ op' = next
             \/ Fails("load") /\ op' = Returned(otherwise)
       \/ /\ Fails("save") /\ cfg' = cfg
          /\ op' = Returned("failed")
    /\ UNCHANGED <<subs, st, rt, conf>>

With(p) == [cfg EXCEPT !.profile = p]

SetZapretEnabled(enabled) ==
    /\ enabled => cfg.profile.selectors # "none"
    /\ SaveProfile([cfg.profile EXCEPT !.zapret = enabled],
                   IF ~enabled /\ EffectiveTransport(st) = "zapret"
                   THEN Teardown(Call, "saveZapretOff") ELSE Returned("ok"),
                   IF enabled THEN "ok" ELSE "failed")

SetZapretSelectors(selectors) ==
    LET p == [cfg.profile EXCEPT !.selectors = selectors,
                                 !.zapret = @ /\ selectors # "none"]
    IN  SaveProfile(p,
            IF EffectiveTransport(st) # "zapret" THEN Returned("ok")
            ELSE IF ~p.zapret THEN Teardown(Call, "saveZapretOff")
            ELSE IF st.test THEN TestMode(Call, With(p))
            ELSE IF st.sub = None THEN Returned("ok")
            ELSE IF Stored(st.sub) THEN Fallback(Call, With(p), st.sub)
            ELSE Returned("failed"),
            "ok")

\* The firewall and DNS settings: save, then reapplyCurrentConnection.
SetRouting(dns, fw) ==
    LET p == [cfg.profile EXCEPT !.dns = dns, !.fw = fw]
    IN  SaveProfile(p, Reapply(Call, With(p)), "failed")

\* setSetting "auto-mode" (and "auto.excluded-nodes", which reselects likewise);
\* a ledger that cannot be read counts as disconnected.
SaveAutoMode(enabled, m) ==
    /\ \/ /\ cfg' = [cfg EXCEPT !.mode = IF enabled THEN "auto"
                                         ELSE IF m = "auto" THEN "manual" ELSE m]
          /\ op' = Returned("ok")
       \/ /\ Fails("save") /\ cfg' = cfg
          /\ op' = Returned("failed")
    /\ UNCHANGED <<subs, st, rt, conf>>

SetAutoMode(enabled) ==
    /\ Idle
    /\ \/ IF enabled /\ st.connected /\ st.sub # None THEN SelectAuto(st.sub)
          ELSE IF /\ ~enabled /\ st.connected /\ st.mode = "auto"
                  /\ st.sub # None /\ st.node # None
               THEN PinNode(st.sub, st.node)
          ELSE SaveAutoMode(enabled, IF st.connected THEN st.mode ELSE cfg.mode)
       \/ Fails("load") /\ SaveAutoMode(enabled, cfg.mode)

-----------------------------------------------------------------------------
(* The process and the router.                                             *)

\* The process running the operation dies: what it has done stays done.  A death
\* inside a step leaves what a failure of that step may leave.
Crash ==
    /\ ~Idle /\ Fails("crash")
    /\ op' = Returned("crashed")
    /\ UNCHANGED <<subs, st, cfg, rt, conf>>

\* The router restarts: the nftables table is gone, Xray comes back with the
\* config on disk or not at all, Zapret's marker survives.
Reboot ==
    /\ Fails("reboot")
    /\ op' = Returned("crashed")
    /\ \E x \in {conf.disk, None}, d \in {rt.dns, FALSE},
         z \in IF rt.zapret = "off" THEN {"off"} ELSE {"marked", "on"} :
          rt' = [xray |-> x, dns |-> d, fw |-> FALSE, zapret |-> z]
    /\ UNCHANGED <<subs, st, cfg, conf>>

-----------------------------------------------------------------------------
\* A fresh install, or a router whose state.json an earlier version wrote:
\* connected, with no active_transport (it decodes as direct).
FreshState ==
    [sub |-> None, node |-> None, mode |-> "disconnected", connected |-> FALSE,
     transport |-> "direct", test |-> FALSE, restore |-> NoSelection]

Fresh ==
    /\ subs = [s \in Subs |-> {}]
    /\ st = FreshState
    /\ cfg \in [profile : Profiles, mode : {"disconnected"}]
    /\ rt = [xray |-> None, dns |-> FALSE, fw |-> FALSE, zapret |-> "off"]
    /\ conf = Files(None, None)

Upgraded ==
    \E s \in Subs : \E n \in Catalog[s] :
        /\ subs = [r \in Subs |-> IF r = s THEN Catalog[s] ELSE {}]
        /\ st = [FreshState EXCEPT !.sub = s, !.node = n, !.mode = "manual",
                                   !.connected = TRUE]
        /\ cfg \in [profile : Profiles, mode : {"manual"}]
        /\ conf = Files([sub |-> s, node |-> n], [sub |-> s, node |-> n])
        /\ rt = [xray |-> conf.disk, dns |-> cfg.profile.dns, fw |-> cfg.profile.fw,
                 zapret |-> "off"]

Init == op = Call /\ (Fresh \/ Upgraded)

Step ==
    \/ StopDNS \/ StopDNSFails \/ StopXray \/ StopXrayFails
    \/ StopFirewall \/ StopFirewallFails \/ StopZapret \/ StopZapretFails
    \/ TeardownDone
    \/ LeaveZapret \/ PrepareFails \/ LeaveZapretFails
    \/ ApplyXray \/ ApplyXrayFails \/ VerifyXray \/ VerifyXrayFails
    \/ RollbackXray \/ RollbackXrayFails
    \/ SaveFailedHealth \/ SaveFailedHealthFails
    \/ ApplyDNS \/ ApplyDNSFails \/ ApplyFirewall \/ ApplyFirewallFails
    \/ SaveStateFails \/ SaveConnected \/ SaveCommit \/ SaveZapret \/ SaveTest
    \/ SaveDisconnected \/ SaveDirect \/ SaveFailed
    \/ SaveDropped \/ SaveDroppedAgainFails
    \/ SaveRestoreFailed \/ SaveZapretOff \/ SaveTestFailed \/ SaveTestStopped
    \/ SaveMode \/ SaveModeFails \/ SaveSubscriptions \/ SaveSubscriptionsFails
    \/ ApplyZapret \/ ApplyZapretFails \/ RestoreRoute \/ AbandonTest
    \/ Reconnect

Handler ==
    \/ \E s \in Subs : \E ns \in (SUBSET Catalog[s]) \ {{}} :
           AddSubscription(s, ns) \/ RefreshSubscription(s, ns)
    \/ \E s \in Subs : RemoveSubscription(s) \/ ConnectAuto(s)
    \/ \E s \in Subs, n \in Nodes : RemoveSubscriptionNode(s, n) \/ ConnectManual(s, n)
    \/ RemoveAllSubscriptions \/ Disconnect
    \/ \E ns \in (SUBSET Nodes) \ {{}} : RefreshAndReconnect(ns)
    \/ HealthCheck \/ RestoreRuntime \/ Refused
    \/ StartZapretTest \/ StopZapretTest
    \/ \E b \in BOOLEAN : SetZapretEnabled(b) \/ SetAutoMode(b)
    \/ \E sel \in Selectors : SetZapretSelectors(sel)
    \/ \E d, f \in BOOLEAN : SetRouting(d, f)

Next == Step \/ Handler \/ Crash \/ Reboot

Spec == Init /\ [][Next]_vars

\* The write lock is held for as long as the operation runs, and every external
\* command is bounded by its context: each step is taken sooner or later.
FairSpec == Spec /\ WF_vars(Step)

-----------------------------------------------------------------------------
(* Properties.                                                             *)

TypeOK ==
    /\ subs \in [Subs -> SUBSET Nodes]
    /\ st \in State
    /\ cfg \in Settings
    /\ rt \in Runtime
    /\ conf \in XrayFiles
    /\ op \in Operation

ProxyDown == rt.xray = None /\ ~rt.dns /\ ~rt.fw
AllDown   == ProxyDown /\ rt.zapret = "off"

\* The proxy the ledger names is the one the router uses.
Serving ==
    /\ rt.xray = [sub |-> st.sub, node |-> st.node]
    /\ rt.dns = cfg.profile.dns
    /\ rt.fw = cfg.profile.fw

\* The ledger never records the end of a connection while any part of it is
\* still in place, whatever fails and whenever the process dies: a disconnected
\* state.json is written last (markConnectionFailed, markTransportDirect,
\* disconnect, removeSubscription, persistRestoreFailure).
DropOnlyWhenDown == [][st.connected /\ ~st'.connected => AllDown']_vars

\* The ledger records a proxy connection (or a new node for it) only once Xray
\* runs that node and dnsmasq and nftables are as the settings ask
\* (applyNodeSelection).  The subscription is left out: connectAuto rewrites it
\* without a connection.
ConnectOnlyWhenServing ==
    [][ /\ st'.connected /\ st'.transport = "proxy"
        /\ ~st.connected \/ st.transport # "proxy" \/ st'.node # st.node
        => Serving' ]_vars

\* Entering Zapret, as a fallback or as a test, is recorded only once the Zapret
\* service runs and nothing of the proxy is left (activateZapretFallback,
\* applyZapretTestMode).
ZapretOnlyWhenOn ==
    [][ st.transport # "zapret" /\ st'.transport = "zapret"
        => rt'.zapret = "on" /\ ProxyDown' ]_vars

\* When the daemon has set up again the route the ledger names, that route is
\* there, whatever a crash or a reboot had left behind (restoreRuntime; with no
\* route recorded it tears the runtime down instead).
RestoreReestablishes ==
    [][ op.catch = "restore" /\ op'.pc = "idle" /\ op'.result = "ok"
        => /\ st'.connected
           /\ st'.transport # "zapret" => Serving'
           /\ st'.transport = "zapret" => rt'.zapret = "on" ]_vars

\* Between operations a ledger that says disconnected means that no part of any
\* route is in place, whichever steps of setting one up have failed.
DisconnectedMeansDown == Idle /\ ~st.connected => AllDown

\* Between operations a proxy connection never runs through another node than
\* the ledger names, and that node's config is the one a failed switch would
\* return to: a failed candidate leaves neither behind.
NodeHonest ==
    Idle /\ st.connected /\ EffectiveTransport(st) = "proxy"
      => /\ rt.xray = None \/ rt.xray.node = st.node
         /\ conf.good # None /\ conf.good.node = st.node

\* Between operations active_transport names the transport in use: under zapret
\* the service runs and the proxy is gone, under proxy Zapret is off.
TransportHonest ==
    Idle /\ st.connected /\ ~st.test =>
        IF EffectiveTransport(st) = "zapret" THEN rt.zapret = "on" /\ ProxyDown
        ELSE rt.zapret = "off"

\* The two transports are never in place together, not even during a switch.
ExclusiveTransports == ~(rt.xray # None /\ rt.zapret = "on")

\* A subscription is not emptied under the connection: while Xray runs one of
\* its nodes, only a ledger that names another subscription (connectAuto rewrites
\* the field without a connection), a node that a refresh has since dropped, or a
\* ledger that the removal cannot read lets it pass without tearing the route
\* down first (removeSubscription, removeSubscriptionNode, removeAllSubscriptions:
\* stateErr == nil && ...).
RemovalDisconnects ==
    [][ \A s \in Subs :
          /\ rt.xray # None /\ rt.xray.sub = s /\ st.sub = s /\ HasNode(s, st.node)
          /\ op'.result # "unread"
          => subs'[s] # {} ]_vars

\* An operation ends: no failure sends it round in circles.
OperationEnds == ~Idle ~> Idle

=============================================================================
