-------------------------- MODULE FirewallSettings --------------------------
(***************************************************************************)
(* The firewall and proxy settings of the application service              *)
(* (src/internal/app/service.go, proxy.go): modes, drafts, target services *)
(* and the listeners of the explicit proxies, each stored after it has     *)
(* been validated and applied to the current connection.  All operations   *)
(* hold the store lock, so each is one action; what a reapplication did is *)
(* visible in what Xray and the nft table have been given.                 *)
(*                                                                         *)
(* The connection itself is RouteFluxService's: here it is the node in use *)
(* and whether that node carries QUIC.                                     *)
(***************************************************************************)
EXTENDS TrafficPolicy, IPv6Manager

CONSTANTS
  TargetInputs,   \* selector lists given to targets
  SplitInputs,    \* [proxy, bypass, excluded] given to split and bypass
  DefInputs,      \* [name, selectors] given to services set
  SourceInputs,   \* source lists
  Ports,          \* transparent ports
  PortInputs,     \* the port given with a mode: one of Ports, or 0 to keep it
  ProxyPorts      \* listeners: one port stands for SOCKS5 and HTTP

VARIABLES
  fw,        \* FirewallSettings: enabled, mode, hosts, targets, split, ...
  drafts,    \* ModeDrafts; that of hosts, which names no service, is left out
  catalog,   \* TargetServiceCatalog
  listener,  \* ProxySettings
  node,      \* the connected node: None, "quic" or "noquic"
  table,     \* the policy of the nft table, Absent, or Stale
  xray,      \* what Xray has been given, Absent, or Stale
  listenerStale,  \* a failed change of the listener could not be unsaved
  ipv6Stale       \* the IPv6 switch failed after its setting was saved

None   == "none"
Absent == [runtime |-> "absent"]
Stale  == [runtime |-> "stale"]   \* what a failed application left behind

settingsVars == <<fw, drafts, catalog, listener>>
runtimeVars  == <<node, table, xray, listenerStale, ipv6Vars, ipv6Stale>>
vars         == <<settingsVars, runtimeVars>>

NoSplit == [proxy |-> NoSelectors, bypass |-> NoSelectors, excluded |-> {}]
WithAction(split, action) ==
  [proxy |-> split.proxy, bypass |-> split.bypass, excluded |-> split.excluded,
   action |-> action]
DefaultSplit == WithAction(NoSplit, "direct")
NoDrafts == [targets |-> NoSelectors, split |-> NoSplit]
DefaultPort     == CHOOSE p \in Ports : p \notin BusyPorts \cup ProxyPorts
DefaultListener == CHOOSE p \in ProxyPorts : p \notin BusyPorts

ASSUME PortsAssumption ==
  /\ \E p \in Ports : p \notin BusyPorts \cup ProxyPorts
  /\ \E p \in ProxyPorts : p \notin BusyPorts
  /\ 0 \notin Ports \cup ProxyPorts
ASSUME InputAssumption ==
  /\ TargetInputs \subseteq Definition
  /\ SplitInputs \subseteq
       [proxy : Definition, bypass : Definition, excluded : SUBSET Hosts]
  /\ DefInputs \subseteq [name : Names, selectors : Definition]
  /\ SourceInputs \subseteq SUBSET Hosts
  /\ PortInputs \subseteq Ports \cup {0}

Init ==
  /\ fw = [enabled |-> FALSE, mode |-> "disabled", hosts |-> {},
           targets |-> NoSelectors, split |-> DefaultSplit, port |-> DefaultPort,
           quic |-> FALSE, disableIPv6 |-> FALSE]
  /\ drafts = NoDrafts /\ catalog = EmptyCatalog
  /\ listener = DefaultListener /\ listenerStale = FALSE
  /\ node = None /\ table = Absent /\ xray = Absent
  /\ IPv6Init /\ ipv6Stale = FALSE

-----------------------------------------------------------------------------
(* Applying settings and catalog to the connection, as they are stored     *)
(* when it happens.                                                        *)
WantedTable(p, n) ==
  IF n # None /\ p.routing THEN EffectivePolicy(p, n) ELSE Absent
WantedXray(p, port, n) ==
  IF n # None THEN XrayRequest(EffectivePolicy(p, n), port) ELSE Absent

Given(request, policy) ==
  xray' = request /\ table' = policy /\ listenerStale' = FALSE

TornDown == Given(Absent, Absent) /\ UNCHANGED <<ipv6Vars, ipv6Stale>>

(* applyNodeSelection: the IPv6 switch where it is on, Xray's config, and  *)
(* the table last.  When one fails, the settings are stored all the same   *)
(* and what was applied is no longer told apart.                           *)
Fallen == Given(Stale, Stale)

AppliesTo(settings, p, n) ==
  \E request \in {WantedXray(p, listener, n)} :
    LET switched == IF settings.disableIPv6 THEN IPv6Applied(TRUE) /\ ipv6Stale' = FALSE
                    ELSE UNCHANGED <<ipv6Vars, ipv6Stale>>
    IN  \/ XrayAccepts(request) /\ switched /\ Given(request, WantedTable(p, n))
        \/ (~XrayAccepts(request) \/ "runtime" \in Faults) /\ switched /\ Fallen
        \/ settings.disableIPv6 /\ IPv6Fails(TRUE) /\ Fallen /\ UNCHANGED ipv6Stale

(* reapplyCurrentConnection.  A table cannot be rendered only when its     *)
(* policy is empty, which RoutingEnabled excludes.                         *)
ReapplyCurrentConnection(settings, p) ==
  /\ UNCHANGED node
  /\ IF node # None THEN AppliesTo(settings, p, node)
     ELSE \/ TornDown
          \/ "runtime" \in Faults /\ Fallen /\ UNCHANGED <<ipv6Vars, ipv6Stale>>

(* Validate, then save.  Without a policy to render there is nothing a     *)
(* setting could be validated for, and it is refused; a policy whose       *)
(* rendering panics ends the process before anything is stored.            *)
Validated(p) == Renders(p) /\ ~RenderingPanics(p)

SaveAndReapply(settings, newDrafts) ==
  \E p \in {ResolvePolicy(settings, catalog)} :
    /\ Validated(p)
    /\ fw' = settings /\ drafts' = newDrafts
    /\ UNCHANGED <<catalog, listener>>
    /\ ReapplyCurrentConnection(settings, p)

-----------------------------------------------------------------------------
(* The modes.  Each resets the others' selectors and refreshes its draft.  *)
WithPort(settings, p) == IF p > 0 THEN [settings EXCEPT !.port = p] ELSE settings

Mode(mode, hosts, targets, split) ==
  [fw EXCEPT !.enabled = TRUE, !.mode = mode, !.hosts = hosts,
             !.targets = targets, !.split = split]

ConfigureFirewallHosts ==
  \E sources \in SourceInputs, p \in PortInputs :
    SaveAndReapply(WithPort(Mode("hosts", sources, NoSelectors, DefaultSplit), p), drafts)

ConfigureFirewallTargets ==
  \E targets \in TargetInputs, p \in PortInputs :
    /\ ParseTargets(targets, catalog)
    /\ SaveAndReapply(WithPort(Mode("targets", {}, targets, DefaultSplit), p),
                      [drafts EXCEPT !.targets = targets])

(* Bypass is a split without proxy targets that proxies the rest.          *)
WithoutProxy(split) == [split EXCEPT !.proxy = NoSelectors]

ConfigureSplit(split, action) ==
  /\ ParseTargets(split.proxy, catalog) /\ ParseTargets(split.bypass, catalog)
  /\ \E p \in PortInputs :
       SaveAndReapply(WithPort(Mode("split", {}, NoSelectors, WithAction(split, action)), p),
                      [drafts EXCEPT !.split = split])

ConfigureFirewallSplit ==
  \E split \in SplitInputs : ConfigureSplit(split, "direct")
ConfigureFirewallBypass ==
  \E split \in SplitInputs : ConfigureSplit(WithoutProxy(split), "proxy")

Disabled == [fw EXCEPT !.enabled = FALSE, !.mode = "disabled", !.hosts = {},
                       !.targets = NoSelectors, !.split = DefaultSplit]
DisableFirewall ==
  /\ fw' = Disabled
  /\ UNCHANGED <<drafts, catalog, listener>>
  /\ ReapplyCurrentConnection(Disabled, ResolvePolicy(Disabled, catalog))

UpdateFirewallPort ==
  \E p \in Ports : SaveAndReapply([fw EXCEPT !.mode = CanonicalMode(fw), !.port = p], drafts)

UpdateFirewallBlockQUIC ==
  \E on \in BOOLEAN :
    SaveAndReapply([fw EXCEPT !.mode = CanonicalMode(fw), !.quic = on], drafts)

\* Mutant: enabling only writes the setting.
UpdateIPv6Setting ==
  \E on \in BOOLEAN :
    /\ fw' = [fw EXCEPT !.mode = CanonicalMode(fw), !.disableIPv6 = on]
    /\ UNCHANGED <<drafts, catalog, listener, runtimeVars>>

(* The flag is saved before the switch is thrown.                          *)
UpdateFirewallDisableIPv6 ==
  \E on \in BOOLEAN :
    /\ fw' = [fw EXCEPT !.mode = CanonicalMode(fw), !.disableIPv6 = on]
    /\ \/ IPv6Applied(on) /\ ipv6Stale' = FALSE
       \/ IPv6Fails(on) /\ ipv6Stale' = TRUE
    /\ UNCHANGED <<drafts, catalog, listener, node, table, xray, listenerStale>>

-----------------------------------------------------------------------------
(* Drafts are stored without being applied.                                *)
StoreDrafts(newDrafts) ==
  /\ drafts' = newDrafts
  /\ UNCHANGED <<fw, catalog, listener, runtimeVars>>

UpdateFirewallModeDraft ==
  \E targets \in TargetInputs :
    ParseTargets(targets, catalog) /\ StoreDrafts([drafts EXCEPT !.targets = targets])

UpdateFirewallSplitDraft ==
  \E input \in SplitInputs : \E split \in {input, WithoutProxy(input)} :
    /\ ParseTargets(split.proxy, catalog) /\ ParseTargets(split.bypass, catalog)
    /\ StoreDrafts([drafts EXCEPT !.split = split])

ClearFirewallModeDraft ==
  \E mode \in {"targets", "split"} :
    StoreDrafts([drafts EXCEPT ![mode] = NoDrafts[mode]])

-----------------------------------------------------------------------------
(* Target services.  The current connection is reapplied only when the     *)
(* active selectors use the service, directly or through another.          *)
\* Mutant: only services that are selected themselves count.
ActiveSelection(services, name) ==
  fw.enabled /\ name \in fw.targets.services \cup fw.split.proxy.services
                          \cup fw.split.bypass.services

ActiveFirewallReferences(services, name) ==
  /\ fw.enabled
  /\ CASE CanonicalMode(fw) = "targets" -> References(fw.targets.services, services, name)
       [] CanonicalMode(fw) = "split" ->
            References(fw.split.proxy.services \cup fw.split.bypass.services, services, name)
       [] OTHER -> FALSE

SaveCatalog(services, name) ==
  \E p \in {ResolvePolicy(fw, services)} :
    /\ Validated(p)
    /\ catalog' = services /\ UNCHANGED <<fw, drafts, listener>>
    /\ IF ActiveFirewallReferences(catalog, name)
       THEN ReapplyCurrentConnection(fw, p) ELSE UNCHANGED runtimeVars

SetFirewallTargetService ==
  \E input \in DefInputs :
    /\ ParseTargetDefinition(input.name, input.selectors, catalog)
    /\ SaveCatalog(Define(catalog, input.name, input.selectors), input.name)

\* Mutant: drafts are not looked at.
InActiveUse(name) ==
  \/ References(fw.targets.services \cup fw.split.proxy.services
                \cup fw.split.bypass.services, catalog, name)
  \/ References(DOMAIN catalog \ {name}, catalog, name)

(* What keeps a service from being deleted.                                *)
InUse(name) ==
  \/ References(fw.targets.services \cup fw.split.proxy.services
                \cup fw.split.bypass.services, catalog, name)
  \/ References(drafts.targets.services \cup drafts.split.proxy.services
                \cup drafts.split.bypass.services, catalog, name)
  \/ References(DOMAIN catalog \ {name}, catalog, name)

DeleteFirewallTargetService ==
  \E name \in DOMAIN catalog :
    /\ ~InUse(name)
    /\ SaveCatalog(Undefine(catalog, name), name)

-----------------------------------------------------------------------------
(* ConfigureProxy saves a listener that clashes with no other, and gives   *)
(* it to the Xray of a connection in use; when Xray does not come up with  *)
(* it, the old settings are saved again and Xray is rolled back, and each  *)
(* of the two may fail.                                                    *)
ConfigureProxy ==
  \E port \in ProxyPorts \ (BusyPorts \cup {listener}) :
  \E p \in {ResolvePolicy(fw, catalog)} : \E request \in {WantedXray(p, port, node)} :
    /\ p.routing => port # fw.port
    /\ UNCHANGED <<fw, drafts, catalog, node, table, ipv6Vars, ipv6Stale>>
    /\ \/ listener' = port /\ IF node = None THEN UNCHANGED <<xray, listenerStale>>
                             ELSE XrayAccepts(request) /\ xray' = request
                                  /\ listenerStale' = FALSE
       \/ /\ node # None /\ (~XrayAccepts(request) \/ "runtime" \in Faults)
          /\ xray' \in {xray, Stale}
          /\ \/ UNCHANGED <<listener, listenerStale>>
             \/ listener' = port /\ listenerStale' = TRUE

-----------------------------------------------------------------------------
(* The rest of the system: connections come and go, the router reboots.    *)
Connect ==
  \E n \in {"quic", "noquic"} :
    /\ UNCHANGED settingsVars
    /\ \/ AppliesTo(fw, ResolvePolicy(fw, catalog), n) /\ Stale \notin {xray', table'} /\ node' = n
       \/ /\ Faults # {} /\ node' = None /\ Fallen
          /\ UNCHANGED <<ipv6Vars, ipv6Stale>>

Disconnect ==
  /\ node' = None /\ UNCHANGED settingsVars /\ TornDown

Reboot ==
  /\ IPv6Boots /\ Fallen
  /\ UNCHANGED <<settingsVars, node, ipv6Stale>>

Next ==
  \/ ConfigureFirewallHosts \/ ConfigureFirewallTargets
  \/ ConfigureFirewallSplit \/ ConfigureFirewallBypass \/ DisableFirewall
  \/ UpdateFirewallPort \/ UpdateFirewallBlockQUIC \/ UpdateFirewallDisableIPv6
  \/ UpdateFirewallModeDraft \/ UpdateFirewallSplitDraft \/ ClearFirewallModeDraft
  \/ SetFirewallTargetService \/ DeleteFirewallTargetService
  \/ ConfigureProxy \/ Connect \/ Disconnect \/ Reboot

Spec == Init /\ [][Next]_vars

-----------------------------------------------------------------------------
(* Properties                                                              *)
TypeOK ==
  /\ fw.mode \in {"disabled", "hosts", "targets", "split"}
  /\ fw.enabled \in BOOLEAN /\ fw.quic \in BOOLEAN /\ fw.disableIPv6 \in BOOLEAN
  /\ fw.hosts \subseteq Hosts /\ fw.port \in Ports
  /\ listener \in ProxyPorts /\ listenerStale \in BOOLEAN
  /\ {fw.targets, fw.split.proxy, fw.split.bypass} \subseteq Definition
  /\ {drafts.targets, drafts.split.proxy, drafts.split.bypass} \subseteq Definition
  /\ DOMAIN catalog \subseteq CustomNames
  /\ \A n \in DOMAIN catalog : catalog[n] \in Definition
  /\ node \in {None, "quic", "noquic"}
  /\ sysctlFile \in BOOLEAN /\ ipv6On \in BOOLEAN

(* The catalog never holds a name that nobody defines, nor a circle of     *)
(* names, whatever order services are defined, redefined and deleted in.   *)
(* Redefining is where a circle could close (firewall.go:384).             *)
CatalogSound == CatalogIsClosed(catalog) /\ CatalogIsAcyclic(catalog)

(* No stored selector, active or in a draft, uses a name that is gone:     *)
(* deleteFirewallTargetService looks for users everywhere they can be.     *)
NoDanglingSelectors ==
  fw.targets.services \cup fw.split.proxy.services \cup fw.split.bypass.services
  \cup drafts.targets.services \cup drafts.split.proxy.services
  \cup drafts.split.bypass.services \subseteq DOMAIN Registry(catalog)

(* Xray and the table follow the stored settings unless an application     *)
(* failed: an operation that skips the reapplication (a service nothing    *)
(* active uses) did not change what the settings mean (service.go:1619),   *)
(* and a change of the listener that failed has been undone on both sides, *)
(* unless undoing failed as well (proxy.go:98).                            *)
AppliedMatchesStored ==
  \A p \in {ResolvePolicy(fw, catalog)} :
    /\ xray = Stale \/ listenerStale \/ xray = WantedXray(p, listener, node)
    /\ table = Stale \/ table = WantedTable(p, node)

(* Table and rules together send every connection the way the settings     *)
(* mean it, and never into a port nobody listens on, apart from the        *)
(* connections that Foreseen names.                                        *)
TrafficFollowsPolicy ==
  table \notin {Absent, Stale} /\ xray # Stale =>
    \A p \in {EffectivePolicy(ResolvePolicy(fw, catalog), node)} :
      \A c \in Connections :
        Foreseen(p, c) => Decision(table, xray, c) = Intended(p, c)

(* Once RouteFlux has disabled IPv6 it stays off, across reboots and       *)
(* whatever is set or connected next, unless the switch itself failed.     *)
IPv6StaysDisabled == fw.disableIPv6 /\ ~ipv6Stale => sysctlFile /\ ~ipv6On
=============================================================================
