------------------------ MODULE FirewallSettings_proofs ------------------------
(***************************************************************************)
(* Proofs about FirewallSettings, for every LAN, catalog of presets, set   *)
(* of inputs and every fault.                                              *)
(*                                                                         *)
(* The first part is about target services: what a list of selectors       *)
(* stands for depends on the services it reaches and on no other.  It is   *)
(* why saving a service that nothing active uses needs no reapplication.   *)
(* The second part is the invariant: the stored settings are typed and in  *)
(* canonical mode, every name is defined, and Xray, table and IPv6 follow. *)
(* The third is about single connections: what a policy's table captures,  *)
(* and where the rules rendered from the same policy then send it.         *)
(***************************************************************************)
EXTENDS FirewallSettings, TLAPS

LEMMA ReachableInNames ==
  ASSUME NEW roots \in SUBSET Names, NEW registry
  PROVE  /\ Reachable(roots, registry) \subseteq Names
         /\ roots \subseteq Reachable(roots, registry)
  BY DEF Reachable

(* The names reached are the smallest closed set, when there is one.       *)
LEMMA ReachableIsLeast ==
  ASSUME NEW roots \in SUBSET Names, NEW registry, NEW S \in SUBSET Names,
         roots \subseteq S, ClosedUnder(S, registry)
  PROVE  Reachable(roots, registry) \subseteq S
  BY DEF Reachable

(* Services use names only.                                                *)
Uses(registry) == \A n \in DOMAIN registry : registry[n].services \subseteq Names

LEMMA ReachableIsClosed ==
  ASSUME NEW roots \in SUBSET Names, NEW registry, Uses(registry)
  PROVE  ClosedUnder(Reachable(roots, registry), registry)
<1>1. CASE ClosedUnder(roots, registry) BY <1>1 DEF Reachable
<1>2. CASE ~ClosedUnder(roots, registry)
  <2> DEFINE closed == {S \in SUBSET Names : roots \subseteq S /\ ClosedUnder(S, registry)}
             R == {n \in Names : \A S \in closed : n \in S}
  <2>1. Reachable(roots, registry) = R BY <1>2 DEF Reachable
  <2>2. ASSUME NEW n \in R \cap DOMAIN registry, NEW m \in registry[n].services
        PROVE  m \in R
    <3>1. m \in Names BY <2>2 DEF Uses
    <3>2. \A S \in closed : m \in S BY <2>2 DEF ClosedUnder
    <3> QED BY <3>1, <3>2
  <2>3. ClosedUnder(R, registry) BY <2>2 DEF ClosedUnder
  <2> QED BY <2>1, <2>3
<1> QED BY <1>1, <1>2

(* More roots reach no less.                                               *)
LEMMA ReachableMonotonic ==
  ASSUME NEW roots \in SUBSET Names, NEW more \in SUBSET Names, roots \subseteq more,
         NEW registry, Uses(registry)
  PROVE  Reachable(roots, registry) \subseteq Reachable(more, registry)
  BY ReachableIsClosed, ReachableInNames, ReachableIsLeast

LEMMA RegistryIs ==
  ASSUME NEW catalog0
  PROVE  /\ DOMAIN Registry(catalog0) = DOMAIN catalog0 \cup DOMAIN Builtin
         /\ \A n \in DOMAIN Registry(catalog0) :
              Registry(catalog0)[n] = IF n \in DOMAIN Builtin THEN Builtin[n] ELSE catalog0[n]
  BY DEF Registry

Typed(c) == DOMAIN c \subseteq CustomNames /\ \A n \in DOMAIN c : c[n] \in Definition

LEMMA DefinitionUses == \A d \in Definition : d.services \subseteq Names
  BY DEF Definition

LEMMA RegistryUses ==
  ASSUME NEW c, Typed(c)
  PROVE  Uses(c) /\ Uses(Registry(c))
  BY BuiltinAssumption, RegistryIs, DefinitionUses DEF Uses, Typed

(* Presets only use presets.                                               *)
LEMMA PresetsAreApart ==
  ASSUME NEW c, Typed(c), NEW roots \in SUBSET Names, NEW name \in CustomNames,
         name \notin Reachable(roots, c)
  PROVE  name \notin Reachable(roots, Registry(c))
<1> DEFINE S == Reachable(roots, c) \cup DOMAIN Builtin
<1>1. S \in SUBSET Names /\ roots \subseteq S BY ReachableInNames DEF Names
<1>2. ClosedUnder(Reachable(roots, c), c) BY ReachableIsClosed, RegistryUses
<1> HIDE DEF S
<1>3. ASSUME NEW n \in S \cap DOMAIN Registry(c), NEW m \in Registry(c)[n].services
      PROVE  m \in S
  <2>1. CASE n \in DOMAIN Builtin
    <3>1. m \in DOMAIN Builtin BY <1>3, <2>1, RegistryIs, BuiltinAssumption
    <3> QED BY <3>1 DEF S
  <2>2. CASE n \notin DOMAIN Builtin
    <3>1. n \in Reachable(roots, c) \cap DOMAIN c /\ m \in c[n].services
      BY <1>3, <2>2, RegistryIs DEF S
    <3>2. m \in Reachable(roots, c) BY <1>2, <3>1 DEF ClosedUnder
    <3> QED BY <3>2 DEF S
  <2> QED BY <2>1, <2>2
<1>4. ClosedUnder(S, Registry(c)) BY <1>3 DEF ClosedUnder
<1>5. Reachable(roots, Registry(c)) \subseteq S BY <1>1, <1>4, ReachableIsLeast
<1> QED BY <1>5, BuiltinAssumption DEF S

(* Registries that differ in one name only, not reached.                   *)
AlikeBut(r, s, name) ==
  /\ DOMAIN r \ {name} = DOMAIN s \ {name}
  /\ \A n \in DOMAIN r \ {name} : r[n] = s[n]

LEMMA ReachAlike ==
  ASSUME NEW r, NEW s, NEW name, AlikeBut(r, s, name), Uses(r), Uses(s),
         NEW roots \in SUBSET Names, name \notin Reachable(roots, r)
  PROVE  Reachable(roots, s) = Reachable(roots, r)
<1> DEFINE R == Reachable(roots, r)
           T == Reachable(roots, s)
<1>1. /\ R \in SUBSET Names /\ T \in SUBSET Names /\ roots \subseteq R /\ roots \subseteq T
      /\ ClosedUnder(R, r) /\ ClosedUnder(T, s)
  BY ReachableInNames, ReachableIsClosed
<1> HIDE DEF R, T
<1>2. ClosedUnder(R, s) BY <1>1 DEF ClosedUnder, AlikeBut, R
<1>3. T \subseteq R BY <1>1, <1>2, ReachableIsLeast DEF T
<1>4. name \notin T BY <1>3 DEF R
<1>5. ClosedUnder(T, r) BY <1>1, <1>4 DEF ClosedUnder, AlikeBut
<1>6. R \subseteq T BY <1>1, <1>5, ReachableIsLeast DEF R
<1> QED BY <1>3, <1>6 DEF R, T

LEMMA DefinitionsAlike ==
  ASSUME NEW r, NEW s, NEW name, AlikeBut(r, s, name), Uses(r), Uses(s),
         NEW roots \in SUBSET Names, name \notin Reachable(roots, r)
  PROVE  {r[n] : n \in Reachable(roots, r) \cap DOMAIN r}
           = {s[n] : n \in Reachable(roots, s) \cap DOMAIN s}
<1> DEFINE R == Reachable(roots, r)
<1>1. Reachable(roots, s) = R BY ReachAlike
<1>2. R \cap DOMAIN r = R \cap DOMAIN s BY DEF AlikeBut
<1>3. \A n \in R \cap DOMAIN r : r[n] = s[n] BY DEF AlikeBut
<1> HIDE DEF R
<1> QED BY <1>1, <1>2, <1>3 DEF R

(* A service that a list of selectors does not reach may change or go      *)
(* without changing what the list stands for.                              *)
LEMMA ExpandAlike ==
  ASSUME NEW c, NEW d, Typed(c), Typed(d), NEW name \in CustomNames, AlikeBut(c, d, name),
         NEW selectors \in Definition, name \notin Reachable(selectors.services, c)
  PROVE  Expand(d, selectors) = Expand(c, selectors)
<1> DEFINE r == Registry(c)
           s == Registry(d)
           roots == selectors.services
           families == {Family[x] : x \in selectors.domains \cap DOMAIN Family}
<1>1. roots \in SUBSET Names BY DefinitionUses
<1>2. families \in SUBSET Names /\ families \subseteq DOMAIN Builtin
  BY FamilyAssumption DEF Names
<1>3. AlikeBut(r, s, name) BY RegistryIs DEF AlikeBut
<1>4. Uses(r) /\ Uses(s) BY RegistryUses
<1>5. name \notin Reachable(roots, r) BY <1>1, PresetsAreApart
<1>6. name \notin Reachable(families, r)
  <2>1. ClosedUnder(DOMAIN Builtin, r) BY RegistryIs, BuiltinAssumption DEF ClosedUnder
  <2>2. DOMAIN Builtin \in SUBSET Names BY DEF Names
  <2> HIDE DEF families, r
  <2>3. Reachable(families, r) \subseteq DOMAIN Builtin BY <1>2, <2>1, <2>2, ReachableIsLeast
  <2> QED BY <2>3, BuiltinAssumption
<1> HIDE DEF r, s, families, roots
<1>7. {r[n] : n \in Reachable(roots, r) \cap DOMAIN r}
        = {s[n] : n \in Reachable(roots, s) \cap DOMAIN s}
  BY <1>1, <1>3, <1>4, <1>5, DefinitionsAlike
<1>8. {r[n] : n \in Reachable(families, r) \cap DOMAIN r}
        = {s[n] : n \in Reachable(families, s) \cap DOMAIN s}
  BY <1>2, <1>3, <1>4, <1>6, DefinitionsAlike
<1> QED BY <1>7, <1>8 DEF Expand, r, s, families, roots

-----------------------------------------------------------------------------
(* Settings                                                                *)
Modes      == {"disabled", "hosts", "targets", "split"}
SplitType  == [proxy : Definition, bypass : Definition, excluded : SUBSET Hosts,
               action : {"proxy", "direct"}]
DraftType  == [proxy : Definition, bypass : Definition, excluded : SUBSET Hosts]
FwType     == [enabled : BOOLEAN, mode : Modes, hosts : SUBSET Hosts, targets : Definition,
               split : SplitType, port : Ports, quic : BOOLEAN, disableIPv6 : BOOLEAN]
DraftsType == [targets : Definition, split : DraftType]

SettingsOK(f)    == f \in FwType /\ f.mode = CanonicalMode(f)
ServicesOf(f)    == f.targets.services \cup f.split.proxy.services \cup f.split.bypass.services
DraftServices(d) == d.targets.services \cup d.split.proxy.services \cup d.split.bypass.services

LEMMA NothingSelected ==
  /\ NoSelectors \in Definition /\ NoSelectors.services = {} /\ ~HasEntries(NoSelectors)
  /\ DefaultSplit \in SplitType /\ DefaultSplit.proxy = NoSelectors
  /\ DefaultSplit.bypass = NoSelectors /\ NoSplit \in DraftType
  /\ NoSplit.proxy = NoSelectors /\ NoSplit.bypass = NoSelectors
<1>1. NoSelectors \in Definition /\ NoSelectors.services = {} /\ ~HasEntries(NoSelectors)
  BY DEF NoSelectors, Definition, HasEntries
<1> QED
  BY <1>1 DEF DefaultSplit, WithAction, NoSplit, SplitType, DraftType

(* Other modes than the one the selectors stand for are stored only where  *)
(* nothing is selected.                                                    *)
LEMMA ModeIs ==
  ASSUME NEW f \in FwType, f.enabled,
         f.mode # "hosts" => f.hosts = {},
         f.mode # "targets" => f.targets = NoSelectors,
         f.mode # "split" => f.split = DefaultSplit
  PROVE  CanonicalMode(f) \in {f.mode, "disabled"}
<1>1. /\ ~HasEntries(NoSelectors)
      /\ f.mode # "split" => ~SplitHasEntries(f)
  BY NothingSelected DEF SplitHasEntries
<1> QED BY <1>1 DEF CanonicalMode, ModeHasEntries, FwType, Modes

LEMMA ResolvedMode ==
  ASSUME NEW f, NEW c
  PROVE  ResolvePolicy(f, c).mode = CanonicalMode(f)
  BY DEF ResolvePolicy

LEMMA SameCanonicalMode ==
  ASSUME NEW f, NEW g, g.enabled = f.enabled, g.mode = f.mode, g.hosts = f.hosts,
         g.targets = f.targets, g.split = f.split
  PROVE  CanonicalMode(g) = CanonicalMode(f) /\ RoutingEnabled(g) = RoutingEnabled(f)
<1>1. \A m : ModeHasEntries(g, m) = ModeHasEntries(f, m)
  BY DEF ModeHasEntries, SplitHasEntries
<1> QED BY <1>1 DEF CanonicalMode, RoutingEnabled

LEMMA SamePolicy ==
  ASSUME NEW f, NEW g, NEW c, g.enabled = f.enabled, g.mode = f.mode, g.hosts = f.hosts,
         g.targets = f.targets, g.split = f.split, g.port = f.port, g.quic = f.quic
  PROVE  ResolvePolicy(g, c) = ResolvePolicy(f, c)
  BY SameCanonicalMode DEF ResolvePolicy

(* A service that the active mode does not reach means nothing to it.      *)
LEMMA UnusedService ==
  ASSUME NEW f \in FwType, NEW c, NEW d, Typed(c), Typed(d), NEW name \in CustomNames,
         AlikeBut(c, d, name),
         CanonicalMode(f) = "targets" => ~References(f.targets.services, c, name),
         CanonicalMode(f) = "split" =>
           ~References(f.split.proxy.services \cup f.split.bypass.services, c, name)
  PROVE  ResolvePolicy(f, d) = ResolvePolicy(f, c)
<1>1. /\ f.targets \in Definition /\ f.split.proxy \in Definition
      /\ f.split.bypass \in Definition
  BY DEF FwType, SplitType
<1>2. CanonicalMode(f) = "targets" => Expand(d, f.targets) = Expand(c, f.targets)
  BY <1>1, ExpandAlike DEF References
<1>3. ASSUME CanonicalMode(f) = "split"
      PROVE  /\ Expand(d, f.split.proxy) = Expand(c, f.split.proxy)
             /\ Expand(d, f.split.bypass) = Expand(c, f.split.bypass)
  <2> DEFINE roots == f.split.proxy.services \cup f.split.bypass.services
  <2>1. /\ f.split.proxy.services \in SUBSET Names
        /\ f.split.bypass.services \in SUBSET Names
    BY <1>1, DefinitionUses
  <2>2. roots \in SUBSET Names /\ name \notin Reachable(roots, c)
    BY <1>3, <2>1 DEF References
  <2>3. /\ name \notin Reachable(f.split.proxy.services, c)
        /\ name \notin Reachable(f.split.bypass.services, c)
    BY <2>1, <2>2, RegistryUses, ReachableMonotonic
  <2> QED BY <1>1, <2>3, ExpandAlike
<1>4. /\ (CASE CanonicalMode(f) = "targets" -> Expand(d, f.targets)
            [] CanonicalMode(f) = "split"   -> Expand(d, f.split.proxy)
            [] OTHER -> NothingExpanded)
         = (CASE CanonicalMode(f) = "targets" -> Expand(c, f.targets)
              [] CanonicalMode(f) = "split"   -> Expand(c, f.split.proxy)
              [] OTHER -> NothingExpanded)
      /\ (IF CanonicalMode(f) = "split" THEN Expand(d, f.split.bypass) ELSE NothingExpanded)
         = (IF CanonicalMode(f) = "split" THEN Expand(c, f.split.bypass) ELSE NothingExpanded)
  BY <1>2, <1>3
<1> QED BY <1>4 DEF ResolvePolicy

-----------------------------------------------------------------------------
(* The invariant.                                                          *)
Inv ==
  /\ SettingsOK(fw) /\ drafts \in DraftsType /\ Typed(catalog)
  /\ CatalogIsClosed(catalog) /\ CatalogIsAcyclic(catalog)
  /\ ServicesOf(fw) \cup DraftServices(drafts) \subseteq DOMAIN Registry(catalog)
  /\ listener \in ProxyPorts /\ listenerStale \in BOOLEAN
  /\ node \in {None, "quic", "noquic"} /\ sysctlFile \in BOOLEAN /\ ipv6On \in BOOLEAN
  /\ IPv6StaysDisabled
  /\ AppliedMatchesStored

LEMMA InitOK == Init => Inv
<1> SUFFICES ASSUME Init PROVE Inv OBVIOUS
<1>1. DefaultPort \in Ports BY PortsAssumption DEF DefaultPort
<1>2. DefaultListener \in ProxyPorts BY PortsAssumption DEF DefaultListener
<1>3. fw \in FwType BY <1>1, NothingSelected DEF Init, FwType, Modes
<1>4. CanonicalMode(fw) = "disabled" BY DEF CanonicalMode, Init
<1>5. drafts \in DraftsType /\ ServicesOf(fw) \cup DraftServices(drafts) = {}
  BY NothingSelected DEF Init, DraftsType, NoDrafts, ServicesOf, DraftServices
<1>6. catalog = EmptyCatalog /\ DOMAIN catalog = {} BY DEF Init, EmptyCatalog
<1>7. Typed(catalog) /\ CatalogIsClosed(catalog) /\ CatalogIsAcyclic(catalog)
  <2>1. Typed(catalog) /\ CatalogIsClosed(catalog) BY <1>6 DEF Typed, CatalogIsClosed
  <2>2. CatalogIsAcyclic(catalog)
    <3>1. \A S \in SUBSET (DOMAIN catalog) : S = {} BY <1>6
    <3>2. (SUBSET (DOMAIN catalog)) \ {{}} = {} BY <3>1
    <3> QED BY <3>2 DEF CatalogIsAcyclic
  <2> QED BY <2>1, <2>2
<1>8. IPv6StaysDisabled BY DEF Init, IPv6StaysDisabled
<1>9. AppliedMatchesStored BY DEF Init, AppliedMatchesStored, WantedXray, WantedTable
<1> QED
  BY <1>2, <1>3, <1>4, <1>5, <1>7, <1>8, <1>9 DEF Inv, SettingsOK, Init, IPv6Init

(* What applying settings may do to the switch, and to Xray and the table. *)
IPv6Follows(on) ==
  \/ UNCHANGED <<sysctlFile, ipv6On, ipv6Stale>>
  \/ on /\ sysctlFile' = TRUE /\ ipv6On' = FALSE /\ ipv6Stale' = FALSE
  \/ on /\ UNCHANGED ipv6Stale /\ sysctlFile' = TRUE /\ ipv6On' \in {ipv6On, FALSE}

Follows(p, n) ==
  /\ listenerStale' = FALSE
  /\ xray' = Stale \/ xray' = WantedXray(p, listener, n)
  /\ table' = Stale \/ table' = WantedTable(p, n)

LEMMA AppliesOK ==
  ASSUME NEW settings, settings.disableIPv6 \in BOOLEAN, NEW p, NEW n,
         AppliesTo(settings, p, n)
  PROVE  IPv6Follows(settings.disableIPv6) /\ Follows(p, n)
  BY DEF AppliesTo, Given, Fallen, IPv6Applied, IPv6Fails, IPv6Follows, Follows, ipv6Vars

LEMMA ReapplyOK ==
  ASSUME NEW settings, settings.disableIPv6 \in BOOLEAN, NEW p,
         ReapplyCurrentConnection(settings, p)
  PROVE  node' = node /\ IPv6Follows(settings.disableIPv6) /\ Follows(p, node)
<1>1. CASE node # None BY <1>1, AppliesOK DEF ReapplyCurrentConnection
<1>2. CASE node = None
  BY <1>2 DEF ReapplyCurrentConnection, TornDown, Given, Fallen, IPv6Follows, Follows,
     WantedXray, WantedTable, ipv6Vars
<1> QED BY <1>1, <1>2

LEMMA IPv6Stays ==
  ASSUME Inv, fw.disableIPv6 \in BOOLEAN, fw'.disableIPv6 = fw.disableIPv6,
         IPv6Follows(fw.disableIPv6)
  PROVE  sysctlFile' \in BOOLEAN /\ ipv6On' \in BOOLEAN /\ IPv6StaysDisabled'
<1>1. /\ sysctlFile \in BOOLEAN /\ ipv6On \in BOOLEAN
      /\ fw.disableIPv6 /\ ~ipv6Stale => sysctlFile /\ ~ipv6On
  BY DEF Inv, IPv6StaysDisabled
<1>2. CASE UNCHANGED <<sysctlFile, ipv6On, ipv6Stale>> BY <1>1, <1>2 DEF IPv6StaysDisabled
<1>3. CASE sysctlFile' = TRUE /\ ipv6On' = FALSE BY <1>3 DEF IPv6StaysDisabled
<1>4. CASE UNCHANGED ipv6Stale /\ sysctlFile' = TRUE /\ ipv6On' = ipv6On
  BY <1>1, <1>4 DEF IPv6StaysDisabled
<1> QED BY <1>2, <1>3, <1>4 DEF IPv6Follows

(* Settings and catalog stored, and applied as they are.                   *)
LEMMA StoredAndApplied ==
  ASSUME Inv, SettingsOK(fw)', (drafts \in DraftsType)', Typed(catalog)',
         (CatalogIsClosed(catalog) /\ CatalogIsAcyclic(catalog))',
         (ServicesOf(fw) \cup DraftServices(drafts) \subseteq DOMAIN Registry(catalog))',
         fw'.disableIPv6 = fw.disableIPv6, UNCHANGED listener,
         ReapplyCurrentConnection(fw', ResolvePolicy(fw', catalog'))
  PROVE  Inv'
<1>1. fw.disableIPv6 \in BOOLEAN BY DEF Inv, SettingsOK, FwType
<1>2. /\ node' = node /\ IPv6Follows(fw.disableIPv6)
      /\ Follows(ResolvePolicy(fw', catalog'), node)
  BY <1>1, ReapplyOK
<1>3. sysctlFile' \in BOOLEAN /\ ipv6On' \in BOOLEAN /\ IPv6StaysDisabled'
  BY <1>1, <1>2, IPv6Stays
<1>4. AppliedMatchesStored' BY <1>2 DEF Follows, AppliedMatchesStored, WantedXray, WantedTable
<1> QED BY <1>2, <1>3, <1>4 DEF Inv, Follows

LEMMA SaveAndReapplyOK ==
  ASSUME Inv, NEW f \in FwType, NEW d \in DraftsType,
         CanonicalMode(f) \in {f.mode, "disabled"},
         ServicesOf(f) \cup DraftServices(d) \subseteq DOMAIN Registry(catalog),
         f.disableIPv6 = fw.disableIPv6, SaveAndReapply(f, d)
  PROVE  Inv'
<1>1. /\ Renders(ResolvePolicy(f, catalog)) /\ fw' = f /\ drafts' = d
      /\ UNCHANGED <<catalog, listener>>
      /\ ReapplyCurrentConnection(f, ResolvePolicy(f, catalog))
  BY DEF SaveAndReapply, Validated
<1>2. CanonicalMode(f) # "disabled" BY <1>1, ResolvedMode DEF Renders
<1>3. SettingsOK(fw)' BY <1>1, <1>2 DEF SettingsOK
<1>4. Typed(catalog)' /\ (CatalogIsClosed(catalog) /\ CatalogIsAcyclic(catalog))'
  BY <1>1 DEF Inv
<1>5. (ServicesOf(fw) \cup DraftServices(drafts) \subseteq DOMAIN Registry(catalog))'
  BY <1>1
<1> QED BY <1>1, <1>3, <1>4, <1>5, StoredAndApplied

(* What a mode with its selectors looks like.                              *)
LEMMA ModeFields ==
  ASSUME Inv, NEW mode \in Modes, NEW hosts \in SUBSET Hosts, NEW targets \in Definition,
         NEW split \in SplitType, NEW q \in PortInputs,
         NEW f, f = WithPort(Mode(mode, hosts, targets, split), q)
  PROVE  /\ f \in FwType /\ f.enabled /\ f.mode = mode /\ f.hosts = hosts
         /\ f.targets = targets /\ f.split = split /\ f.disableIPv6 = fw.disableIPv6
<1> DEFINE m == Mode(mode, hosts, targets, split)
<1>1. fw \in FwType BY DEF Inv, SettingsOK
<1>2. /\ m \in FwType /\ m.enabled /\ m.mode = mode /\ m.hosts = hosts
      /\ m.targets = targets /\ m.split = split /\ m.disableIPv6 = fw.disableIPv6
  BY <1>1 DEF Mode, FwType
<1> HIDE DEF m
<1>3. CASE q = 0
  <2>1. f = m BY <1>3 DEF WithPort, m
  <2> QED BY <1>2, <2>1
<1>4. CASE q # 0
  <2>1. q \in Ports BY <1>4, InputAssumption
  <2>2. f = m \/ f = [m EXCEPT !.port = q] BY DEF WithPort, m
  <2> QED BY <1>2, <2>1, <2>2 DEF FwType
<1> QED BY <1>3, <1>4

LEMMA SplitFields ==
  ASSUME NEW split \in DraftType, NEW action \in {"proxy", "direct"}
  PROVE  /\ WithAction(split, action) \in SplitType
         /\ WithAction(split, action).proxy = split.proxy
         /\ WithAction(split, action).bypass = split.bypass
         /\ WithoutProxy(split) \in DraftType
         /\ WithoutProxy(split).proxy = NoSelectors
         /\ WithoutProxy(split).bypass = split.bypass
  BY NothingSelected DEF WithAction, WithoutProxy, SplitType, DraftType

LEMMA HostsOK == ASSUME Inv, ConfigureFirewallHosts PROVE Inv'
<1>1. PICK sources \in SourceInputs, q \in PortInputs :
        SaveAndReapply(WithPort(Mode("hosts", sources, NoSelectors, DefaultSplit), q), drafts)
  BY DEF ConfigureFirewallHosts
<1> DEFINE f == WithPort(Mode("hosts", sources, NoSelectors, DefaultSplit), q)
<1>2. sources \in SUBSET Hosts /\ "hosts" \in Modes BY InputAssumption DEF Modes
<1>3. /\ f \in FwType /\ f.enabled /\ f.mode = "hosts" /\ f.targets = NoSelectors
      /\ f.split = DefaultSplit /\ f.disableIPv6 = fw.disableIPv6
  BY <1>2, ModeFields, NothingSelected
<1> HIDE DEF f
<1>4. CanonicalMode(f) \in {f.mode, "disabled"} BY <1>3, ModeIs
<1>5. ServicesOf(f) = {} BY <1>3, NothingSelected DEF ServicesOf
<1> QED BY <1>1, <1>3, <1>4, <1>5, SaveAndReapplyOK DEF Inv, f

LEMMA TargetsOK == ASSUME Inv, ConfigureFirewallTargets PROVE Inv'
<1>1. PICK targets \in TargetInputs, q \in PortInputs :
        /\ ParseTargets(targets, catalog)
        /\ SaveAndReapply(WithPort(Mode("targets", {}, targets, DefaultSplit), q),
                          [drafts EXCEPT !.targets = targets])
  BY DEF ConfigureFirewallTargets
<1> DEFINE f == WithPort(Mode("targets", {}, targets, DefaultSplit), q)
           d == [drafts EXCEPT !.targets = targets]
<1>2. targets \in Definition /\ "targets" \in Modes BY InputAssumption DEF Modes
<1>3. /\ f \in FwType /\ f.enabled /\ f.mode = "targets" /\ f.hosts = {}
      /\ f.targets = targets /\ f.split = DefaultSplit /\ f.disableIPv6 = fw.disableIPv6
  BY <1>2, ModeFields, NothingSelected
<1>4. d \in DraftsType /\ d.targets = targets /\ d.split = drafts.split
  BY <1>2 DEF Inv, DraftsType
<1> HIDE DEF f, d
<1>5. CanonicalMode(f) \in {f.mode, "disabled"} BY <1>3, ModeIs
<1>6. ServicesOf(f) \cup DraftServices(d) \subseteq DOMAIN Registry(catalog)
  BY <1>1, <1>3, <1>4, NothingSelected DEF ServicesOf, DraftServices, Inv, ParseTargets
<1> QED BY <1>1, <1>3, <1>4, <1>5, <1>6, SaveAndReapplyOK DEF f, d

LEMMA SplitOK ==
  ASSUME Inv, NEW split \in DraftType, NEW action \in {"proxy", "direct"},
         ConfigureSplit(split, action)
  PROVE  Inv'
<1> DEFINE t == WithAction(split, action)
           d == [drafts EXCEPT !.split = split]
<1>1. PICK q \in PortInputs : SaveAndReapply(WithPort(Mode("split", {}, NoSelectors, t), q), d)
  BY DEF ConfigureSplit
<1>2. ParseTargets(split.proxy, catalog) /\ ParseTargets(split.bypass, catalog)
  BY DEF ConfigureSplit
<1>3. t \in SplitType /\ t.proxy = split.proxy /\ t.bypass = split.bypass BY SplitFields
<1> HIDE DEF t
<1> DEFINE f == WithPort(Mode("split", {}, NoSelectors, t), q)
<1>4. /\ f \in FwType /\ f.enabled /\ f.mode = "split" /\ f.hosts = {}
      /\ f.targets = NoSelectors /\ f.split = t /\ f.disableIPv6 = fw.disableIPv6
  <2>1. "split" \in Modes BY DEF Modes
  <2> QED BY <1>3, <2>1, ModeFields, NothingSelected
<1>5. d \in DraftsType /\ d.split = split /\ d.targets = drafts.targets
  BY DEF Inv, DraftsType
<1> HIDE DEF f, d
<1>6. CanonicalMode(f) \in {f.mode, "disabled"} BY <1>4, ModeIs
<1>7. ServicesOf(f) \cup DraftServices(d) \subseteq DOMAIN Registry(catalog)
  BY <1>2, <1>3, <1>4, <1>5, NothingSelected DEF ServicesOf, DraftServices, Inv, ParseTargets
<1> QED BY <1>1, <1>4, <1>5, <1>6, <1>7, SaveAndReapplyOK DEF f

LEMMA SplitInputsOK == \A split \in SplitInputs : split \in DraftType
  BY InputAssumption DEF DraftType

LEMMA DisableOK == ASSUME Inv, DisableFirewall PROVE Inv'
<1>1. /\ fw' = Disabled /\ UNCHANGED <<drafts, catalog, listener>>
      /\ ReapplyCurrentConnection(Disabled, ResolvePolicy(Disabled, catalog))
  BY DEF DisableFirewall
<1>2. /\ Disabled \in FwType /\ Disabled.mode = "disabled" /\ ~Disabled.enabled
      /\ Disabled.targets = NoSelectors /\ Disabled.split = DefaultSplit
      /\ Disabled.disableIPv6 = fw.disableIPv6
  BY NothingSelected DEF Disabled, Inv, SettingsOK, FwType, Modes
<1>3. SettingsOK(fw)' BY <1>1, <1>2 DEF SettingsOK, CanonicalMode
<1>4. ServicesOf(Disabled) = {} BY <1>2, NothingSelected DEF ServicesOf
<1>5. (ServicesOf(fw) \cup DraftServices(drafts) \subseteq DOMAIN Registry(catalog))'
  BY <1>1, <1>4 DEF Inv
<1>6. /\ Typed(catalog)' /\ (CatalogIsClosed(catalog) /\ CatalogIsAcyclic(catalog))'
      /\ (drafts \in DraftsType)'
  BY <1>1 DEF Inv
<1> QED BY <1>1, <1>2, <1>3, <1>5, <1>6, StoredAndApplied

LEMMA PortOrQUICOK ==
  ASSUME Inv, UpdateFirewallPort \/ UpdateFirewallBlockQUIC
  PROVE  Inv'
<1>1. /\ fw \in FwType /\ CanonicalMode(fw) = fw.mode /\ drafts \in DraftsType
      /\ ServicesOf(fw) \cup DraftServices(drafts) \subseteq DOMAIN Registry(catalog)
  BY DEF Inv, SettingsOK
<1>2. PICK f : /\ SaveAndReapply(f, drafts)
               /\ \/ \E q \in Ports : f = [fw EXCEPT !.mode = CanonicalMode(fw), !.port = q]
                  \/ \E on \in BOOLEAN : f = [fw EXCEPT !.mode = CanonicalMode(fw), !.quic = on]
  BY DEF UpdateFirewallPort, UpdateFirewallBlockQUIC
<1>3. /\ f \in FwType /\ f.enabled = fw.enabled /\ f.mode = fw.mode /\ f.hosts = fw.hosts
      /\ f.targets = fw.targets /\ f.split = fw.split /\ f.disableIPv6 = fw.disableIPv6
  BY <1>1, <1>2 DEF FwType
<1>4. CanonicalMode(f) = f.mode BY <1>1, <1>3, SameCanonicalMode
<1>5. ServicesOf(f) = ServicesOf(fw) BY <1>3 DEF ServicesOf
<1> QED BY <1>1, <1>2, <1>3, <1>4, <1>5, SaveAndReapplyOK

(* Settings that change nothing but the switch.                            *)
LEMMA DisableIPv6OK == ASSUME Inv, UpdateFirewallDisableIPv6 PROVE Inv'
<1>1. PICK on \in BOOLEAN :
        /\ fw' = [fw EXCEPT !.mode = CanonicalMode(fw), !.disableIPv6 = on]
        /\ \/ sysctlFile' = on /\ ipv6On' = ~on /\ ipv6Stale' = FALSE
           \/ IPv6Fails(on) /\ ipv6Stale' = TRUE
        /\ UNCHANGED <<drafts, catalog, listener, node, table, xray, listenerStale>>
  BY DEF UpdateFirewallDisableIPv6, IPv6Applied
<1>2. fw \in FwType /\ CanonicalMode(fw) = fw.mode BY DEF Inv, SettingsOK
<1>3. /\ fw' \in FwType /\ fw'.enabled = fw.enabled /\ fw'.mode = fw.mode
      /\ fw'.hosts = fw.hosts /\ fw'.targets = fw.targets /\ fw'.split = fw.split
      /\ fw'.port = fw.port /\ fw'.quic = fw.quic /\ fw'.disableIPv6 = on
  BY <1>1, <1>2 DEF FwType
<1>4. SettingsOK(fw)'
  <2>1. CanonicalMode(fw') = CanonicalMode(fw) BY <1>3, SameCanonicalMode
  <2> QED BY <1>2, <1>3, <2>1 DEF SettingsOK
<1>5. ServicesOf(fw') = ServicesOf(fw) BY <1>3 DEF ServicesOf
<1>6. AppliedMatchesStored'
  <2>1. ResolvePolicy(fw', catalog) = ResolvePolicy(fw, catalog) BY <1>3, SamePolicy
  <2> QED BY <1>1, <2>1 DEF Inv, AppliedMatchesStored, WantedXray, WantedTable
<1>7. /\ sysctlFile' \in BOOLEAN /\ ipv6On' \in BOOLEAN
      /\ on /\ ~ipv6Stale' => sysctlFile' /\ ~ipv6On'
  <2>1. sysctlFile \in BOOLEAN /\ ipv6On \in BOOLEAN BY DEF Inv
  <2>2. CASE sysctlFile' = on /\ ipv6On' = ~on /\ ipv6Stale' = FALSE BY <2>2
  <2>3. CASE IPv6Fails(on) /\ ipv6Stale' = TRUE BY <2>1, <2>3 DEF IPv6Fails, ipv6Vars
  <2> QED BY <1>1, <2>2, <2>3
<1>8. IPv6StaysDisabled' BY <1>3, <1>7 DEF IPv6StaysDisabled
<1>9. Typed(catalog)' /\ (CatalogIsClosed(catalog) /\ CatalogIsAcyclic(catalog))'
      /\ (ServicesOf(fw) \cup DraftServices(drafts) \subseteq DOMAIN Registry(catalog))'
  BY <1>1, <1>5 DEF Inv
<1> QED BY <1>1, <1>4, <1>6, <1>7, <1>8, <1>9 DEF Inv

(* Steps that leave settings and catalog, but perhaps drafts, alone.       *)
LEMMA DraftsOK ==
  ASSUME Inv, NEW d \in DraftsType, StoreDrafts(d),
         DraftServices(d) \subseteq DOMAIN Registry(catalog)
  PROVE  Inv'
<1>1. drafts' = d /\ UNCHANGED <<fw, catalog, listener, node, table, xray, listenerStale,
                               sysctlFile, ipv6On, ipv6Stale>>
  BY DEF StoreDrafts, runtimeVars, ipv6Vars
<1>2. SettingsOK(fw)' /\ Typed(catalog)'
      /\ (CatalogIsClosed(catalog) /\ CatalogIsAcyclic(catalog))'
  BY <1>1 DEF Inv
<1>3. IPv6StaysDisabled' /\ AppliedMatchesStored'
  BY <1>1 DEF Inv, IPv6StaysDisabled, AppliedMatchesStored, WantedXray, WantedTable
<1>4. (ServicesOf(fw) \cup DraftServices(drafts) \subseteq DOMAIN Registry(catalog))'
  BY <1>1 DEF Inv
<1> QED BY <1>1, <1>2, <1>3, <1>4 DEF Inv

LEMMA ModeDraftOK ==
  ASSUME Inv, UpdateFirewallModeDraft \/ UpdateFirewallSplitDraft \/ ClearFirewallModeDraft
  PROVE  Inv'
<1>1. /\ drafts \in DraftsType
      /\ DraftServices(drafts) \subseteq DOMAIN Registry(catalog)
  BY DEF Inv
<1>2. CASE UpdateFirewallModeDraft
  <2>1. PICK targets \in TargetInputs : /\ ParseTargets(targets, catalog)
                                        /\ StoreDrafts([drafts EXCEPT !.targets = targets])
    BY <1>2 DEF UpdateFirewallModeDraft
  <2> DEFINE d == [drafts EXCEPT !.targets = targets]
  <2>2. d \in DraftsType /\ d.targets = targets /\ d.split = drafts.split
    BY <1>1, InputAssumption DEF DraftsType
  <2> HIDE DEF d
  <2>3. DraftServices(d) \subseteq DOMAIN Registry(catalog)
    BY <1>1, <2>1, <2>2 DEF DraftServices, ParseTargets
  <2> QED BY <2>1, <2>2, <2>3, DraftsOK DEF d
<1>3. CASE UpdateFirewallSplitDraft
  <2>1. PICK input \in SplitInputs : \E split \in {input, WithoutProxy(input)} :
          /\ ParseTargets(split.proxy, catalog) /\ ParseTargets(split.bypass, catalog)
          /\ StoreDrafts([drafts EXCEPT !.split = split])
    BY <1>3 DEF UpdateFirewallSplitDraft
  <2>2. PICK split \in {input, WithoutProxy(input)} :
          /\ ParseTargets(split.proxy, catalog) /\ ParseTargets(split.bypass, catalog)
          /\ StoreDrafts([drafts EXCEPT !.split = split])
    BY <2>1
  <2> DEFINE d == [drafts EXCEPT !.split = split]
  <2>3. split \in DraftType BY SplitInputsOK, SplitFields
  <2>4. d \in DraftsType /\ d.targets = drafts.targets /\ d.split = split
    BY <1>1, <2>3 DEF DraftsType
  <2> HIDE DEF d
  <2>5. DraftServices(d) \subseteq DOMAIN Registry(catalog)
    BY <1>1, <2>2, <2>4 DEF DraftServices, ParseTargets
  <2> QED BY <2>2, <2>4, <2>5, DraftsOK DEF d
<1>4. CASE ClearFirewallModeDraft
  <2>1. PICK mode \in {"targets", "split"} : StoreDrafts([drafts EXCEPT ![mode] = NoDrafts[mode]])
    BY <1>4 DEF ClearFirewallModeDraft
  <2> DEFINE d == [drafts EXCEPT ![mode] = NoDrafts[mode]]
  <2>2. NoDrafts.targets = NoSelectors /\ NoDrafts.split = NoSplit BY DEF NoDrafts
  <2>3. /\ d \in DraftsType
        /\ d.targets \in {drafts.targets, NoSelectors} /\ d.split \in {drafts.split, NoSplit}
    <3>1. CASE mode = "targets" BY <1>1, <2>2, <3>1, NothingSelected DEF DraftsType
    <3>2. CASE mode = "split" BY <1>1, <2>2, <3>2, NothingSelected DEF DraftsType
    <3> QED BY <3>1, <3>2
  <2> HIDE DEF d
  <2>4. DraftServices(d) \subseteq DraftServices(drafts)
    BY <2>3, NothingSelected DEF DraftServices
  <2> QED BY <1>1, <2>1, <2>3, <2>4, DraftsOK DEF d
<1> QED BY <1>2, <1>3, <1>4

-----------------------------------------------------------------------------
(* Services                                                                *)
LEMMA UnusedKeepsPolicy ==
  ASSUME Inv, NEW services, NEW name \in CustomNames, Typed(services),
         AlikeBut(catalog, services, name), Renders(ResolvePolicy(fw, services)),
         ~ActiveFirewallReferences(catalog, name)
  PROVE  ResolvePolicy(fw, services) = ResolvePolicy(fw, catalog)
<1>1. CanonicalMode(fw) # "disabled" BY ResolvedMode DEF Renders
<1>2. fw.enabled BY <1>1 DEF CanonicalMode
<1>3. /\ CanonicalMode(fw) = "targets" => ~References(fw.targets.services, catalog, name)
      /\ CanonicalMode(fw) = "split" =>
           ~References(fw.split.proxy.services \cup fw.split.bypass.services, catalog, name)
  BY <1>2 DEF ActiveFirewallReferences
<1> QED BY <1>3, UnusedService DEF Inv, SettingsOK

LEMMA CatalogStep ==
  ASSUME Inv, NEW services, NEW name \in CustomNames, SaveCatalog(services, name),
         Typed(services), CatalogIsClosed(services), CatalogIsAcyclic(services),
         AlikeBut(catalog, services, name),
         ServicesOf(fw) \cup DraftServices(drafts) \subseteq DOMAIN Registry(services)
  PROVE  Inv'
<1>1. /\ catalog' = services /\ UNCHANGED <<fw, drafts, listener>>
      /\ Renders(ResolvePolicy(fw, services))
      /\ IF ActiveFirewallReferences(catalog, name)
         THEN ReapplyCurrentConnection(fw, ResolvePolicy(fw, services))
         ELSE UNCHANGED runtimeVars
  BY DEF SaveCatalog, Validated
<1>2. /\ SettingsOK(fw)' /\ (drafts \in DraftsType)' /\ Typed(catalog)'
      /\ (CatalogIsClosed(catalog) /\ CatalogIsAcyclic(catalog))'
      /\ (ServicesOf(fw) \cup DraftServices(drafts) \subseteq DOMAIN Registry(catalog))'
  BY <1>1 DEF Inv
<1>3. CASE ActiveFirewallReferences(catalog, name)
  BY <1>1, <1>2, <1>3, StoredAndApplied
<1>4. CASE ~ActiveFirewallReferences(catalog, name)
  <2>1. UNCHANGED <<node, table, xray, listenerStale, sysctlFile, ipv6On, ipv6Stale>>
    BY <1>1, <1>4 DEF runtimeVars, ipv6Vars
  <2>2. ResolvePolicy(fw, services) = ResolvePolicy(fw, catalog)
    BY <1>1, <1>4, UnusedKeepsPolicy
  <2>3. AppliedMatchesStored'
    BY <1>1, <2>1, <2>2 DEF Inv, AppliedMatchesStored, WantedXray, WantedTable
  <2>4. IPv6StaysDisabled' BY <1>1, <2>1 DEF Inv, IPv6StaysDisabled
  <2> QED BY <1>1, <1>2, <2>1, <2>3, <2>4 DEF Inv
<1> QED BY <1>3, <1>4

LEMMA SetServiceOK == ASSUME Inv, SetFirewallTargetService PROVE Inv'
<1>1. PICK input \in DefInputs :
        /\ ParseTargetDefinition(input.name, input.selectors, catalog)
        /\ SaveCatalog(Define(catalog, input.name, input.selectors), input.name)
  BY DEF SetFirewallTargetService
<1> DEFINE name == input.name
           services == Define(catalog, name, input.selectors)
<1>2. input.selectors \in Definition /\ name \in CustomNames
  BY <1>1, InputAssumption DEF ParseTargetDefinition, Names
<1>3. CatalogIsClosed(services) /\ CatalogIsAcyclic(services)
  BY <1>1 DEF ParseTargetDefinition, ValidateCatalog
<1>4. /\ DOMAIN services = DOMAIN catalog \cup {name}
      /\ \A n \in DOMAIN services : services[n] = IF n = name THEN input.selectors ELSE catalog[n]
  BY DEF Define
<1>5. SaveCatalog(services, name) BY <1>1
<1> HIDE DEF services, name
<1>6. Typed(services) /\ AlikeBut(catalog, services, name)
  BY <1>2, <1>4 DEF Inv, Typed, AlikeBut
<1>7. ServicesOf(fw) \cup DraftServices(drafts) \subseteq DOMAIN Registry(services)
  BY <1>4, RegistryIs DEF Inv
<1> QED BY <1>2, <1>3, <1>5, <1>6, <1>7, CatalogStep

LEMMA DeleteServiceOK == ASSUME Inv, DeleteFirewallTargetService PROVE Inv'
<1>1. PICK name \in DOMAIN catalog : ~InUse(name) /\ SaveCatalog(Undefine(catalog, name), name)
  BY DEF DeleteFirewallTargetService
<1> DEFINE services == Undefine(catalog, name)
           others == DOMAIN catalog \ {name}
<1>2. /\ DOMAIN services = others /\ \A n \in others : services[n] = catalog[n]
  BY DEF Undefine
<1>3. Typed(catalog) /\ name \in CustomNames /\ others \in SUBSET Names
  BY DEF Inv, Typed, Names
<1>4. SaveCatalog(services, name) BY <1>1
<1> HIDE DEF services
<1>5. Typed(services) /\ AlikeBut(catalog, services, name)
  BY <1>2, <1>3 DEF Typed, AlikeBut
(* Nothing in the catalog uses the name, and no selector does.             *)
<1>6. ASSUME NEW n \in others PROVE name \notin catalog[n].services
  <2>1. name \notin Reachable(others, catalog) BY <1>1 DEF InUse, References
  <2>2. ClosedUnder(Reachable(others, catalog), catalog) /\ others \subseteq Reachable(others, catalog)
    BY <1>3, ReachableIsClosed, RegistryUses, ReachableInNames
  <2> QED BY <2>1, <2>2 DEF ClosedUnder
<1>7. name \notin ServicesOf(fw) \cup DraftServices(drafts)
  <2>1. /\ ServicesOf(fw) \in SUBSET Names /\ DraftServices(drafts) \in SUBSET Names
    BY DefinitionUses DEF Inv, SettingsOK, FwType, SplitType, DraftsType, DraftType,
       ServicesOf, DraftServices
  <2>2. /\ name \notin Reachable(ServicesOf(fw), catalog)
        /\ name \notin Reachable(DraftServices(drafts), catalog)
    BY <1>1 DEF InUse, References, ServicesOf, DraftServices
  <2> QED BY <2>1, <2>2, ReachableInNames
<1>8. DOMAIN Registry(catalog) \ {name} \subseteq DOMAIN Registry(services)
  BY <1>2, RegistryIs
<1>9. CatalogIsClosed(services) BY <1>2, <1>6, <1>8 DEF Inv, CatalogIsClosed
<1>10. CatalogIsAcyclic(services)
  <2>1. ASSUME NEW S \in (SUBSET others) \ {{}}
        PROVE  \E n \in S : services[n].services \cap S = {}
    <3>1. PICK n \in S : catalog[n].services \cap S = {} BY DEF Inv, CatalogIsAcyclic
    <3> QED BY <1>2, <3>1
  <2> QED BY <1>2, <2>1 DEF CatalogIsAcyclic
<1>11. ServicesOf(fw) \cup DraftServices(drafts) \subseteq DOMAIN Registry(services)
  BY <1>7, <1>8 DEF Inv
<1> QED BY <1>3, <1>4, <1>5, <1>9, <1>10, <1>11, CatalogStep

-----------------------------------------------------------------------------
(* Steps that leave what is stored alone, the listener excepted.           *)
LEMMA StoredStays ==
  ASSUME Inv, UNCHANGED <<fw, drafts, catalog>>, listener' \in ProxyPorts,
         listenerStale' \in BOOLEAN, node' \in {None, "quic", "noquic"},
         sysctlFile' \in BOOLEAN, ipv6On' \in BOOLEAN, IPv6StaysDisabled',
         LET p == ResolvePolicy(fw, catalog)
         IN  /\ xray' = Stale \/ listenerStale' \/ xray' = WantedXray(p, listener', node')
             /\ table' = Stale \/ table' = WantedTable(p, node')
  PROVE  Inv'
<1>1. SettingsOK(fw)' /\ Typed(catalog)' /\ (drafts \in DraftsType)'
      /\ (CatalogIsClosed(catalog) /\ CatalogIsAcyclic(catalog))'
      /\ (ServicesOf(fw) \cup DraftServices(drafts) \subseteq DOMAIN Registry(catalog))'
  BY DEF Inv
<1>2. AppliedMatchesStored'
  BY DEF AppliedMatchesStored, WantedXray, WantedTable
<1> QED BY <1>1, <1>2 DEF Inv

LEMMA ConfigureProxyOK == ASSUME Inv, ConfigureProxy PROVE Inv'
<1> DEFINE p == ResolvePolicy(fw, catalog)
<1>1. PICK port \in ProxyPorts :
        /\ UNCHANGED <<fw, drafts, catalog, node, table, sysctlFile, ipv6On, ipv6Stale>>
        /\ \/ /\ listener' = port
              /\ IF node = None THEN UNCHANGED <<xray, listenerStale>>
                 ELSE xray' = WantedXray(p, port, node) /\ listenerStale' = FALSE
           \/ /\ xray' \in {xray, Stale}
              /\ \/ UNCHANGED <<listener, listenerStale>>
                 \/ listener' = port /\ listenerStale' = TRUE
  BY DEF ConfigureProxy, ipv6Vars
<1>2. listener' \in ProxyPorts /\ listenerStale' \in BOOLEAN BY <1>1 DEF Inv
<1>3. IPv6StaysDisabled' BY <1>1 DEF Inv, IPv6StaysDisabled
<1>4. \A l, m : WantedXray(p, l, None) = WantedXray(p, m, None) BY DEF WantedXray
<1>5. /\ xray = Stale \/ listenerStale \/ xray = WantedXray(p, listener, node)
      /\ table = Stale \/ table = WantedTable(p, node)
  BY DEF Inv, AppliedMatchesStored
<1> HIDE DEF p
<1>6. /\ xray' = Stale \/ listenerStale' \/ xray' = WantedXray(p, listener', node)
      /\ table' = Stale \/ table' = WantedTable(p, node)
  <2>1. CASE listener' = port /\ node = None /\ UNCHANGED <<xray, listenerStale>>
    BY <1>1, <1>4, <1>5, <2>1
  <2>2. CASE listener' = port /\ xray' = WantedXray(p, port, node) BY <1>1, <1>5, <2>2
  <2>3. CASE xray' \in {xray, Stale} /\ UNCHANGED <<listener, listenerStale>>
    BY <1>1, <1>5, <2>3
  <2>4. CASE listenerStale' = TRUE BY <1>1, <1>5, <2>4
  <2> QED BY <1>1, <2>1, <2>2, <2>3, <2>4
<1>7. /\ node' = node /\ node' \in {None, "quic", "noquic"} /\ sysctlFile' \in BOOLEAN
      /\ ipv6On' \in BOOLEAN
  BY <1>1 DEF Inv
<1> QED BY <1>1, <1>2, <1>3, <1>6, <1>7, StoredStays DEF p

LEMMA ConnectOK == ASSUME Inv, Connect PROVE Inv'
<1> DEFINE p == ResolvePolicy(fw, catalog)
<1>1. PICK n \in {"quic", "noquic"} :
        /\ UNCHANGED <<fw, drafts, catalog, listener>>
        /\ \/ AppliesTo(fw, p, n) /\ node' = n
           \/ node' = None /\ Fallen /\ UNCHANGED <<sysctlFile, ipv6On, ipv6Stale>>
  BY DEF Connect, settingsVars, ipv6Vars
<1>2. fw.disableIPv6 \in BOOLEAN BY DEF Inv, SettingsOK, FwType
<1>3. /\ IPv6Follows(fw.disableIPv6) /\ Follows(p, node')
      /\ node' \in {None, "quic", "noquic"}
  <2>1. CASE AppliesTo(fw, p, n) /\ node' = n BY <1>2, <2>1, AppliesOK
  <2>2. CASE node' = None /\ Fallen /\ UNCHANGED <<sysctlFile, ipv6On, ipv6Stale>>
    BY <2>2 DEF Fallen, Given, IPv6Follows, Follows
  <2> QED BY <1>1, <2>1, <2>2
<1>4. sysctlFile' \in BOOLEAN /\ ipv6On' \in BOOLEAN /\ IPv6StaysDisabled'
  BY <1>1, <1>2, <1>3, IPv6Stays
<1> HIDE DEF p
<1> QED BY <1>1, <1>3, <1>4, StoredStays DEF p, Follows, Inv

LEMMA DisconnectOK == ASSUME Inv, Disconnect PROVE Inv'
<1>1. /\ node' = None /\ xray' = Absent /\ table' = Absent /\ listenerStale' = FALSE
      /\ UNCHANGED <<fw, drafts, catalog, listener, sysctlFile, ipv6On, ipv6Stale>>
  BY DEF Disconnect, TornDown, Given, settingsVars, ipv6Vars
<1>2. IPv6StaysDisabled' BY <1>1 DEF Inv, IPv6StaysDisabled
<1>3. \A p : /\ WantedXray(p, listener', None) = Absent /\ WantedTable(p, None) = Absent
  BY DEF WantedXray, WantedTable
<1> QED BY <1>1, <1>2, <1>3, StoredStays DEF Inv

LEMMA RebootOK == ASSUME Inv, Reboot PROVE Inv'
<1>1. /\ ipv6On' = ~sysctlFile /\ xray' = Stale /\ table' = Stale /\ listenerStale' = FALSE
      /\ UNCHANGED <<fw, drafts, catalog, listener, node, sysctlFile, ipv6Stale>>
  BY DEF Reboot, IPv6Boots, Fallen, Given, settingsVars
<1>2. sysctlFile \in BOOLEAN BY DEF Inv
<1>3. IPv6StaysDisabled' BY <1>1, <1>2 DEF Inv, IPv6StaysDisabled
<1> QED BY <1>1, <1>2, <1>3, StoredStays DEF Inv

LEMMA StepOK == ASSUME Inv, [Next]_vars PROVE Inv'
<1>1. CASE UNCHANGED vars
  <2>1. UNCHANGED <<fw, drafts, catalog, listener, node, table, xray, listenerStale,
                   sysctlFile, ipv6On, ipv6Stale>>
    BY <1>1 DEF vars, settingsVars, runtimeVars, ipv6Vars
  <2>2. IPv6StaysDisabled' BY <2>1 DEF Inv, IPv6StaysDisabled
  <2> QED BY <2>1, <2>2, StoredStays DEF Inv, AppliedMatchesStored
<1>2. CASE ConfigureFirewallSplit
  BY <1>2, SplitOK, SplitInputsOK DEF ConfigureFirewallSplit
<1>3. CASE ConfigureFirewallBypass
  BY <1>3, SplitOK, SplitInputsOK, SplitFields DEF ConfigureFirewallBypass
<1> QED
  BY <1>1, <1>2, <1>3, HostsOK, TargetsOK, DisableOK, PortOrQUICOK, DisableIPv6OK, ModeDraftOK,
     SetServiceOK, DeleteServiceOK, ConfigureProxyOK, ConnectOK, DisconnectOK, RebootOK
  DEF Next

LEMMA InvHolds == Spec => []Inv
  BY InitOK, StepOK, PTL DEF Spec

-----------------------------------------------------------------------------
(* Settings, drafts, catalog and runtime have their types.                 *)
THEOREM TypeCorrect == Spec => []TypeOK
<1>1. Inv => TypeOK
  BY DEF Inv, TypeOK, SettingsOK, FwType, Modes, SplitType, DraftsType, DraftType, Typed
<1> QED BY <1>1, InvHolds, PTL

(* No sequence of definitions and deletions leaves a name undefined in the *)
(* catalog, or closes a circle.                                            *)
THEOREM CatalogStaysSound == Spec => []CatalogSound
<1>1. Inv => CatalogSound BY DEF Inv, CatalogSound
<1> QED BY <1>1, InvHolds, PTL

(* And none in the stored selectors and drafts.                            *)
THEOREM SelectorsStayDefined == Spec => []NoDanglingSelectors
<1>1. Inv => NoDanglingSelectors
  BY DEF Inv, NoDanglingSelectors, ServicesOf, DraftServices
<1> QED BY <1>1, InvHolds, PTL

(* Xray and table are what the stored settings ask for, wherever a command *)
(* left them alone or a failure was undone.                                *)
THEOREM AppliedIsStored == Spec => []AppliedMatchesStored
<1>1. Inv => AppliedMatchesStored BY DEF Inv
<1> QED BY <1>1, InvHolds, PTL

(* IPv6 stays off once it was disabled.                                    *)
THEOREM IPv6IsKeptDisabled == Spec => []IPv6StaysDisabled
<1>1. Inv => IPv6StaysDisabled BY DEF Inv
<1> QED BY <1>1, InvHolds, PTL

-----------------------------------------------------------------------------
(* Where the rules send a connection: the first that takes it decides.     *)
RuleType ==
  [nets : SUBSET Network, domains : SUBSET Domains,
   ranges : SUBSET (Ranges \cup {<<a, a>> : a \in Upstreams}),
   out : {"proxy", "direct", "block"}]

Sends(rules, c, out) ==
  \E i \in 1 .. Len(rules) :
    /\ Takes(rules[i], c) /\ rules[i].out = out
    /\ \A j \in 1 .. (i - 1) : ~Takes(rules[j], c)

Passes(rules, c) == \A i \in 1 .. Len(rules) : ~Takes(rules[i], c)

LEMMA RoutedAsSent ==
  ASSUME NEW rules \in Seq(RuleType), NEW c, NEW out, Sends(rules, c, out)
  PROVE  Routed(rules, c) = out
<1> DEFINE taking == {i \in DOMAIN rules : Takes(rules[i], c)}
<1>1. PICK i \in 1 .. Len(rules) : /\ Takes(rules[i], c) /\ rules[i].out = out
                                   /\ \A j \in 1 .. (i - 1) : ~Takes(rules[j], c)
  BY DEF Sends
<1>2. DOMAIN rules = 1 .. Len(rules) /\ Len(rules) \in Nat OBVIOUS
<1>3. i \in taking /\ \A j \in taking : i <= j BY <1>1, <1>2
<1>4. \A k \in taking : (\A j \in taking : k <= j) => k = i BY <1>2, <1>3
<1> HIDE DEF taking
<1>5. (CHOOSE k \in taking : \A j \in taking : k <= j) = i BY <1>3, <1>4
<1> QED BY <1>1, <1>5 DEF Routed, taking

LEMMA SentByFirst ==
  ASSUME NEW first \in Seq(RuleType), NEW rest \in Seq(RuleType), NEW c, NEW out,
         Sends(first, c, out)
  PROVE  first \o rest \in Seq(RuleType) /\ Sends(first \o rest, c, out)
<1>1. PICK i \in 1 .. Len(first) : /\ Takes(first[i], c) /\ first[i].out = out
                                   /\ \A j \in 1 .. (i - 1) : ~Takes(first[j], c)
  BY DEF Sends
<1>2. /\ Len(first \o rest) = Len(first) + Len(rest)
      /\ \A k \in 1 .. Len(first) : (first \o rest)[k] = first[k]
  OBVIOUS
<1>3. i \in 1 .. Len(first \o rest) /\ \A j \in 1 .. (i - 1) : j \in 1 .. Len(first)
  BY <1>2
<1> QED BY <1>1, <1>2, <1>3 DEF Sends

LEMMA SentByRest ==
  ASSUME NEW first \in Seq(RuleType), NEW rest \in Seq(RuleType), NEW c, NEW out,
         Passes(first, c), Sends(rest, c, out)
  PROVE  first \o rest \in Seq(RuleType) /\ Sends(first \o rest, c, out)
<1>1. PICK i \in 1 .. Len(rest) : /\ Takes(rest[i], c) /\ rest[i].out = out
                                  /\ \A j \in 1 .. (i - 1) : ~Takes(rest[j], c)
  BY DEF Sends
<1> DEFINE all == first \o rest
           n == Len(first)
<1>2. /\ Len(all) = n + Len(rest) /\ n \in Nat /\ Len(rest) \in Nat
      /\ \A k \in 1 .. n : all[k] = first[k]
      /\ \A k \in 1 .. Len(rest) : all[n + k] = rest[k]
  OBVIOUS
<1>3. first \o rest \in Seq(RuleType) OBVIOUS
<1> HIDE DEF all, n
<1> DEFINE k == n + i
<1>4. k \in 1 .. Len(all) /\ Takes(all[k], c) /\ all[k].out = out
  BY <1>1, <1>2
<1>5. ASSUME NEW j \in 1 .. (k - 1) PROVE ~Takes(all[j], c)
  <2>1. CASE j <= n
    <3>1. j \in 1 .. n BY <1>2, <2>1
    <3> QED BY <1>2, <3>1 DEF Passes, n
  <2>2. CASE j > n
    <3>1. j - n \in 1 .. (i - 1) /\ j - n \in 1 .. Len(rest) /\ j = n + (j - n)
      BY <1>1, <1>2, <2>2
    <3>2. all[j] = rest[j - n] BY <1>2, <3>1
    <3> QED BY <1>1, <3>1, <3>2
  <2> QED BY <1>2, <2>1, <2>2
<1> HIDE DEF k
<1>6. Sends(all, c, out) BY <1>4, <1>5 DEF Sends
<1> QED BY <1>3, <1>6 DEF all

LEMMA PassesBoth ==
  ASSUME NEW first \in Seq(RuleType), NEW rest \in Seq(RuleType), NEW c,
         Passes(first, c), Passes(rest, c)
  PROVE  first \o rest \in Seq(RuleType) /\ Passes(first \o rest, c)
<1> DEFINE all == first \o rest
           n == Len(first)
<1>1. /\ Len(all) = n + Len(rest) /\ n \in Nat /\ Len(rest) \in Nat
      /\ \A k \in 1 .. n : all[k] = first[k]
      /\ \A k \in 1 .. Len(rest) : all[n + k] = rest[k]
      /\ all \in Seq(RuleType)
  OBVIOUS
<1> HIDE DEF all, n
<1>2. ASSUME NEW j \in 1 .. Len(all) PROVE ~Takes(all[j], c)
  <2>1. CASE j <= n
    <3>1. j \in 1 .. n BY <1>1, <2>1
    <3> QED BY <1>1, <3>1 DEF Passes, n
  <2>2. CASE j > n
    <3>1. j - n \in 1 .. Len(rest) /\ j = n + (j - n) BY <1>1, <2>2
    <3>2. all[j] = rest[j - n] BY <1>1, <3>1
    <3> QED BY <3>1, <3>2 DEF Passes
  <2> QED BY <1>1, <2>1, <2>2
<1> QED BY <1>1, <1>2 DEF Passes, all

(* The rules of a list of selectors.                                       *)
Matches(domains, ranges, c) ==
  /\ domains # {} => c.name \in domains
  /\ ranges # {} => c.name = NoName /\ \E r \in ranges : c.dst \in r[1] .. r[2]

Sent(out, quic, c) == IF c.net = "tcp" THEN out ELSE UDPOutbound(out, quic)

LEMMA PairOfRules ==
  ASSUME NEW out \in {"proxy", "direct"}, NEW quic \in BOOLEAN, NEW c, c.net \in Network,
         NEW domains \in SUBSET Domains,
         NEW ranges \in SUBSET (Ranges \cup {<<a, a>> : a \in Upstreams})
  PROVE  LET pair == <<Rule({"tcp"}, domains, ranges, out),
                       Rule(Datagram, domains, ranges, UDPOutbound(out, quic))>>
         IN  /\ pair \in Seq(RuleType)
             /\ Matches(domains, ranges, c) => Sends(pair, c, Sent(out, quic, c))
             /\ ~Matches(domains, ranges, c) => Passes(pair, c)
<1> DEFINE one == Rule({"tcp"}, domains, ranges, out)
           two == Rule(Datagram, domains, ranges, UDPOutbound(out, quic))
           pair == <<one, two>>
<1>1. UDPOutbound(out, quic) \in {"proxy", "direct", "block"} BY DEF UDPOutbound
<1>2. one \in RuleType /\ two \in RuleType
  BY <1>1 DEF Rule, RuleType, Network, Datagram
<1>3. /\ Takes(one, c) <=> c.net = "tcp" /\ Matches(domains, ranges, c)
      /\ Takes(two, c) <=> c.net # "tcp" /\ Matches(domains, ranges, c)
      /\ one.out = out /\ two.out = UDPOutbound(out, quic)
  BY DEF Takes, Matches, Rule, Network, Datagram
<1> HIDE DEF one, two
<1>4. pair \in Seq(RuleType) /\ Len(pair) = 2 /\ pair[1] = one /\ pair[2] = two BY <1>2
<1> HIDE DEF pair
<1>5. CASE Matches(domains, ranges, c) /\ c.net = "tcp"
  <2>1. Takes(pair[1], c) /\ pair[1].out = out /\ 1 \in 1 .. Len(pair) BY <1>3, <1>4, <1>5
  <2>2. \A j \in 1 .. (1 - 1) : ~Takes(pair[j], c) OBVIOUS
  <2>3. Sends(pair, c, out) BY <2>1, <2>2 DEF Sends
  <2> QED BY <1>4, <1>5, <2>3 DEF Sent, pair, one, two
<1>6. CASE Matches(domains, ranges, c) /\ c.net # "tcp"
  <2>1. /\ Takes(pair[2], c) /\ pair[2].out = UDPOutbound(out, quic) /\ 2 \in 1 .. Len(pair)
        /\ ~Takes(pair[1], c)
    BY <1>3, <1>4, <1>6
  <2>2. \A j \in 1 .. (2 - 1) : ~Takes(pair[j], c)
    <3>1. \A j \in 1 .. (2 - 1) : j = 1 OBVIOUS
    <3> QED BY <2>1, <3>1
  <2>3. Sends(pair, c, UDPOutbound(out, quic)) BY <2>1, <2>2 DEF Sends
  <2> QED BY <1>4, <1>6, <2>3 DEF Sent, pair, one, two
<1>7. CASE ~Matches(domains, ranges, c)
  <2>1. \A j \in 1 .. Len(pair) : j \in {1, 2} BY <1>4
  <2>2. Passes(pair, c) BY <1>3, <1>4, <1>7, <2>1 DEF Passes
  <2> QED BY <1>4, <1>7, <2>2 DEF pair, one, two
<1> QED BY <1>5, <1>6, <1>7

LEMMA RulesOfList ==
  ASSUME NEW out \in {"proxy", "direct"}, NEW quic \in BOOLEAN, NEW c, c.net \in Network,
         NEW domains \in SUBSET Domains, NEW ranges \in SUBSET Ranges
  PROVE  LET rules == ListRules(out, domains, ranges, quic)
             listed == domains # {} \/ ranges # {}
         IN  /\ rules \in Seq(RuleType)
             /\ listed /\ Matches(domains, ranges, c) => Sends(rules, c, Sent(out, quic, c))
             /\ ~(listed /\ Matches(domains, ranges, c)) => Passes(rules, c)
<1>1. CASE domains = {} /\ ranges = {}
  <2>1. ListRules(out, domains, ranges, quic) = <<>> BY <1>1 DEF ListRules
  <2>2. <<>> \in Seq(RuleType) /\ Len(<<>>) = 0 /\ 1 .. 0 = {} OBVIOUS
  <2>3. Passes(<<>>, c) BY <2>2 DEF Passes
  <2> QED BY <1>1, <2>1, <2>2, <2>3
<1>2. CASE ~(domains = {} /\ ranges = {})
  <2>1. ListRules(out, domains, ranges, quic)
          = <<Rule({"tcp"}, domains, ranges, out),
              Rule(Datagram, domains, ranges, UDPOutbound(out, quic))>>
    BY <1>2 DEF ListRules
  <2> QED BY <1>2, <2>1, PairOfRules
<1> QED BY <1>1, <1>2

(* Those of selectors: a name they list, or an unnamed destination in one  *)
(* of their ranges.                                                        *)
Listed(expanded, c) ==
  \/ c.name \in expanded.domains
  \/ c.name = NoName /\ \E r \in expanded.ranges : c.dst \in r[1] .. r[2]

LEMMA RulesOfSelectors ==
  ASSUME NEW out \in {"proxy", "direct"}, NEW quic \in BOOLEAN, NEW c, c.net \in Network,
         NEW expanded, expanded.domains \subseteq Domains, expanded.ranges \subseteq Ranges
  PROVE  LET rules == TargetRules(out, expanded, quic)
         IN  /\ rules \in Seq(RuleType)
             /\ Listed(expanded, c) => Sends(rules, c, Sent(out, quic, c))
             /\ ~Listed(expanded, c) => Passes(rules, c)
<1> DEFINE named  == ListRules(out, expanded.domains, {}, quic)
           ranged == ListRules(out, {}, expanded.ranges, quic)
<1>1. /\ named \in Seq(RuleType)
      /\ c.name \in expanded.domains => Sends(named, c, Sent(out, quic, c))
      /\ c.name \notin expanded.domains => Passes(named, c)
  <2>1. {} \in SUBSET Ranges /\ expanded.domains \in SUBSET Domains OBVIOUS
  <2>2. expanded.domains # {} /\ Matches(expanded.domains, {}, c) <=> c.name \in expanded.domains
    BY DEF Matches
  <2> QED BY <2>1, <2>2, RulesOfList
<1> DEFINE inRange == c.name = NoName /\ \E r \in expanded.ranges : c.dst \in r[1] .. r[2]
<1>2. /\ ranged \in Seq(RuleType)
      /\ inRange => Sends(ranged, c, Sent(out, quic, c))
      /\ ~inRange => Passes(ranged, c)
  <2>1. {} \in SUBSET Domains /\ expanded.ranges \in SUBSET Ranges OBVIOUS
  <2>2. expanded.ranges # {} /\ Matches({}, expanded.ranges, c) <=> inRange
    BY DEF Matches
  <2> HIDE DEF inRange
  <2> QED BY <2>1, <2>2, RulesOfList
<1>3. TargetRules(out, expanded, quic) = named \o ranged BY DEF TargetRules
<1>4. Listed(expanded, c) <=> c.name \in expanded.domains \/ inRange BY DEF Listed
<1> HIDE DEF named, ranged, inRange
<1>5. named \o ranged \in Seq(RuleType) BY <1>1, <1>2
<1> QED BY <1>1, <1>2, <1>3, <1>4, <1>5, SentByFirst, SentByRest, PassesBoth

-----------------------------------------------------------------------------
(* Table and rules of a policy send every connection the way it means.     *)

(* Policies as they are rendered.                                          *)
Selected(expanded) ==
  expanded.domains \subseteq Domains /\ expanded.ranges \subseteq Ranges

PolicyOK(p) ==
  /\ p.action \in {"proxy", "direct"} /\ (p.selective <=> p.action = "direct")
  /\ p.quic \in BOOLEAN
  /\ Selected(p.proxy) /\ Selected(p.bypass)
  /\ ~RenderingPanics(p)

LEMMA RangesAreTheirBlocks ==
  ASSUME RangesSplitExactly, NEW ranges \in SUBSET Ranges, ~Panics(ranges)
  PROVE  \A a : a \in AddrsOf(ranges) <=> \E r \in ranges : a \in r[1] .. r[2]
<1>1. \A r \in ranges : BlockAddrs[r] = r[1] .. r[2] BY DEF RangesSplitExactly, Panics
<1> QED BY <1>1 DEF AddrsOf

(* The sets hold what the selectors mean, once the name has been resolved, *)
(* where the table has sets of names.                                      *)
LEMMA SetsHoldTargets ==
  ASSUME RangesSplitExactly, NEW p, PolicyOK(p), NEW c \in Connections,
         NEW expanded \in {p.proxy, p.bypass}, ~Mistaken(expanded, c)
  PROVE  /\ c.dst \in TargetSet(p, expanded, c) => Targeted(expanded, c)
         /\ Targeted(expanded, c) =>
              \/ c.dst \in TargetSet(p, expanded, c)
              \/ expanded.domains # {} /\ ~NeedsDNSMasqNFTSet(p)
              \/ c.name \in expanded.domains /\ ~c.resolved
<1>1. /\ expanded.ranges \in SUBSET Ranges /\ ~Panics(expanded.ranges)
      /\ expanded.domains \subseteq Domains
  BY DEF PolicyOK, Selected, RenderingPanics, Panics
<1>2. c.dst \in AddrsOf(expanded.ranges) <=> \E r \in expanded.ranges : c.dst \in r[1] .. r[2]
  BY <1>1, RangesAreTheirBlocks
<1>3. \/ c.name \in Domains /\ c.dst = AddressOf[c.name] /\ c.name # NoName
      \/ c.name = NoName /\ c.resolved
  BY NameAssumption DEF Connections, Kinds
<1> DEFINE named == {AddressOf[d] : d \in {e \in expanded.domains : c.resolved \/ c.name # e}}
<1>4. c.dst \in TargetSet(p, expanded, c) <=>
        \/ c.dst \in AddrsOf(expanded.ranges)
        \/ NeedsDNSMasqNFTSet(p) /\ c.dst \in named
  BY DEF TargetSet
<1>5. c.dst \in named =>
        IF c.name # NoName THEN c.name \in expanded.domains
        ELSE c.dst \in {AddressOf[d] : d \in expanded.domains}
  BY <1>1, <1>3 DEF Mistaken
<1>6. (IF c.name # NoName THEN c.name \in expanded.domains
       ELSE c.dst \in {AddressOf[d] : d \in expanded.domains}) =>
        /\ expanded.domains # {}
        /\ c.dst \in named \/ (c.name \in expanded.domains /\ ~c.resolved)
  BY <1>1, <1>3
<1> HIDE DEF named
<1> QED BY <1>2, <1>4, <1>5, <1>6 DEF Targeted

(* A connection that is captured has somewhere else to go than directly.   *)
LEMMA CapturedIsProxied ==
  ASSUME RangesSplitExactly, NEW p, PolicyOK(p), NEW c \in Connections,
         Foreseen(p, c), Captured(p, c)
  PROVE  /\ Targeted(p.proxy, c) \/ p.action = "proxy"
         /\ p.bypass.domains # {} => NeedsDNSMasqNFTSet(p)
<1>1. CASE p.selective
  <2>1. c.dst \in TargetSet(p, p.proxy, c) BY <1>1 DEF Captured
  <2>2. p.proxy.ranges # {} \/ p.proxy.domains # {}
    BY <2>1 DEF TargetSet, AddrsOf
  <2>3. p.proxy # NothingExpanded BY <2>2 DEF NothingExpanded
  <2> QED BY <2>1, <2>3, SetsHoldTargets DEF NeedsDNSMasqNFTSet, HasOutput, Foreseen
<1>2. CASE ~p.selective BY <1>2 DEF PolicyOK, NeedsDNSMasqNFTSet
<1> QED BY <1>1, <1>2

(* The rules of a policy send what Keep Direct lists directly, and the     *)
(* rest, apart from the DNS servers, to the proxy.                         *)
LEMMA RulesOfPolicy ==
  ASSUME NEW p, PolicyOK(p), NEW c \in Connections,
         p.action = "proxy" \/ p.selective
  PROVE  LET rules == TransparentRules(p)
         IN  /\ rules \in Seq(RuleType)
             /\ Listed(p.bypass, c) => Sends(rules, c, "direct")
             /\ ~Listed(p.bypass, c) => Sends(rules, c, Sent("proxy", p.quic, c))
<1> DEFINE bypass == TargetRules("direct", p.bypass, p.quic)
           proxy  == IF p.selective THEN <<>> ELSE TargetRules("proxy", p.proxy, p.quic)
           rest   == FallbackRules(IF p.selective THEN "proxy" ELSE p.action, p.quic)
           way    == Sent("proxy", p.quic, c)
<1>1. /\ c.net \in Network /\ p.quic \in BOOLEAN
      /\ Selected(p.proxy) /\ Selected(p.bypass)
  BY DEF Connections, Kinds, Network, Datagram, PolicyOK
<1>2. /\ bypass \in Seq(RuleType)
      /\ Listed(p.bypass, c) => Sends(bypass, c, "direct")
      /\ ~Listed(p.bypass, c) => Passes(bypass, c)
  <2>1. Sent("direct", p.quic, c) = "direct" BY DEF Sent, UDPOutbound
  <2> QED BY <1>1, <2>1, RulesOfSelectors DEF Selected
<1>3. proxy \in Seq(RuleType) /\ (Sends(proxy, c, way) \/ Passes(proxy, c))
  <2>1. CASE p.selective
    <3>1. <<>> \in Seq(RuleType) /\ Len(<<>>) = 0 /\ 1 .. 0 = {} OBVIOUS
    <3>2. Passes(<<>>, c) BY <3>1 DEF Passes
    <3> QED BY <2>1, <3>1, <3>2
  <2>2. CASE ~p.selective BY <1>1, <2>2, RulesOfSelectors DEF Selected
  <2> QED BY <2>1, <2>2
<1>4. rest \in Seq(RuleType) /\ Sends(rest, c, way)
  <2>1. rest = <<Rule({"tcp"}, {}, {}, "proxy"),
                 Rule(Datagram, {}, {}, UDPOutbound("proxy", p.quic))>>
    BY DEF FallbackRules
  <2>2. Matches({}, {}, c) BY DEF Matches
  <2>3. /\ {} \in SUBSET Domains
        /\ {} \in SUBSET (Ranges \cup {<<a, a>> : a \in Upstreams})
    OBVIOUS
  <2> QED BY <1>1, <2>1, <2>2, <2>3, PairOfRules
<1>5. TransparentRules(p) = (bypass \o proxy) \o rest BY DEF TransparentRules
<1> HIDE DEF bypass, proxy, rest, way
<1>6. bypass \o proxy \in Seq(RuleType) /\ (bypass \o proxy) \o rest \in Seq(RuleType)
  BY <1>2, <1>3, <1>4
<1>7. CASE Listed(p.bypass, c)
  <2>1. Sends(bypass \o proxy, c, "direct") BY <1>2, <1>3, <1>7, SentByFirst
  <2>2. Sends((bypass \o proxy) \o rest, c, "direct") BY <1>4, <1>6, <2>1, SentByFirst
  <2> QED BY <1>5, <1>6, <1>7, <2>2
<1>8. CASE ~Listed(p.bypass, c) /\ Sends(proxy, c, way)
  <2>1. Sends(bypass \o proxy, c, way) BY <1>2, <1>3, <1>8, SentByRest
  <2>2. Sends((bypass \o proxy) \o rest, c, way) BY <1>4, <1>6, <2>1, SentByFirst
  <2> QED BY <1>5, <1>6, <1>8, <2>2 DEF way
<1>9. CASE ~Listed(p.bypass, c) /\ Passes(proxy, c)
  <2>1. Passes(bypass \o proxy, c) BY <1>2, <1>3, <1>9, PassesBoth
  <2>2. Sends((bypass \o proxy) \o rest, c, way) BY <1>4, <1>6, <2>1, SentByRest
  <2> QED BY <1>5, <1>6, <1>9, <2>2 DEF way
<1> QED BY <1>3, <1>7, <1>8, <1>9

(* The first rule keeps the DNS servers direct.                            *)
LEMMA RulesForServers ==
  ASSUME NEW c \in Connections
  PROVE  /\ DirectDNSRule \in Seq(RuleType)
         /\ c.name = NoName /\ c.dst \in Upstreams => Sends(DirectDNSRule, c, "direct")
         /\ ~(c.name = NoName /\ c.dst \in Upstreams) => Passes(DirectDNSRule, c)
<1>1. CASE Upstreams = {}
  <2>1. DirectDNSRule = <<>> BY <1>1 DEF DirectDNSRule
  <2>2. <<>> \in Seq(RuleType) /\ Len(<<>>) = 0 /\ 1 .. 0 = {} OBVIOUS
  <2>3. Passes(<<>>, c) BY <2>2 DEF Passes
  <2> QED BY <1>1, <2>1, <2>2, <2>3
<1>2. CASE Upstreams # {}
  <2> DEFINE servers == {<<a, a>> : a \in Upstreams}
             rule == Rule(Network, {}, servers, "direct")
  <2>1. DirectDNSRule = <<rule>> BY <1>2 DEF DirectDNSRule
  <2>2. rule \in RuleType BY DEF Rule, RuleType
  <2>3. servers # {} BY <1>2
  <2>4. (\E r \in servers : c.dst \in r[1] .. r[2]) <=> c.dst \in Upstreams
    <3>1. Upstreams \subseteq Nat BY AddressAssumption DEF Addresses
    <3>2. \A a \in Upstreams : <<a, a>>[1] .. <<a, a>>[2] = {a} BY <3>1
    <3>3. (\E r \in servers : c.dst \in r[1] .. r[2])
            <=> \E a \in Upstreams : c.dst \in <<a, a>>[1] .. <<a, a>>[2]
      OBVIOUS
    <3> QED BY <3>2, <3>3
  <2>5. c.net \in Network BY DEF Connections, Kinds, Network, Datagram
  <2>6. /\ rule.out = "direct"
        /\ Takes(rule, c) <=> c.name = NoName /\ \E r \in servers : c.dst \in r[1] .. r[2]
    <3> HIDE DEF servers
    <3> QED BY <2>3, <2>5 DEF Takes, Rule
  <2> HIDE DEF rule, servers
  <2>7. <<rule>> \in Seq(RuleType) /\ Len(<<rule>>) = 1 /\ <<rule>>[1] = rule /\ 1 .. 1 = {1}
        /\ 1 .. (1 - 1) = {}
    BY <2>2
  <2>8. Takes(rule, c) => Sends(<<rule>>, c, "direct") BY <2>6, <2>7 DEF Sends
  <2>9. ~Takes(rule, c) => Passes(<<rule>>, c) BY <2>7 DEF Passes
  <2> QED BY <2>1, <2>4, <2>6, <2>7, <2>8, <2>9
<1> QED BY <1>1, <1>2

LEMMA CapturedAsIntended ==
  ASSUME RangesSplitExactly, NEW p, PolicyOK(p), NEW c \in Connections,
         Foreseen(p, c), Captured(p, c), NEW rules, rules = DirectDNSRule \o TransparentRules(p)
  PROVE  Routed(rules, c) = Intended(p, c)
<1>1. p.action = "proxy" \/ p.selective BY DEF PolicyOK
<1>2. /\ TransparentRules(p) \in Seq(RuleType) /\ DirectDNSRule \in Seq(RuleType)
      /\ rules \in Seq(RuleType)
  BY <1>1, RulesOfPolicy, RulesForServers
<1>3. \/ c.name \in Domains /\ c.dst = AddressOf[c.name] /\ c.name # NoName
      \/ c.name = NoName /\ c.resolved
  BY NameAssumption DEF Connections, Kinds
<1>4. c.net \in {"tcp", "quic", "udp"} /\ p.quic \in BOOLEAN
  BY DEF Connections, Kinds, PolicyOK
<1>5. CASE c.name = NoName /\ c.dst \in Upstreams
  <2>1. Sends(rules, c, "direct") BY <1>2, <1>5, RulesForServers, SentByFirst
  <2>2. IntendedPath(p, c) = "direct" BY <1>5 DEF IntendedPath
  <2> QED BY <1>2, <2>1, <2>2, RoutedAsSent DEF Intended
<1>6. CASE ~(c.name = NoName /\ c.dst \in Upstreams) /\ Listed(p.bypass, c)
  <2>1. Sends(TransparentRules(p), c, "direct") BY <1>1, <1>6, RulesOfPolicy
  <2>2. Sends(rules, c, "direct") BY <1>2, <1>6, <2>1, RulesForServers, SentByRest
  <2>3. Targeted(p.bypass, c)
    BY <1>6, NameAssumption DEF Listed, Targeted, PolicyOK, Selected
  <2>4. IntendedPath(p, c) = "direct" BY <2>3 DEF IntendedPath
  <2> QED BY <1>2, <2>2, <2>4, RoutedAsSent DEF Intended
<1>7. CASE ~(c.name = NoName /\ c.dst \in Upstreams) /\ ~Listed(p.bypass, c)
  <2>1. Sends(TransparentRules(p), c, Sent("proxy", p.quic, c)) BY <1>1, <1>7, RulesOfPolicy
  <2>2. Sends(rules, c, Sent("proxy", p.quic, c))
    BY <1>2, <1>7, <2>1, RulesForServers, SentByRest
  <2>3. Routed(rules, c) = Sent("proxy", p.quic, c) BY <1>2, <2>2, RoutedAsSent
  <2>4. c.dst \notin Upstreams BY <1>7 DEF Foreseen
  <2>5. ~Targeted(p.bypass, c)
    BY <1>7, SetsHoldTargets, CapturedIsProxied DEF Captured, Listed, Foreseen
  <2>6. IntendedPath(p, c) = "proxy"
    BY <2>4, <2>5, CapturedIsProxied DEF IntendedPath, Captured
  <2>7. ~(c.net = "udp" /\ p.quic) BY DEF Captured
  <2> QED BY <1>4, <2>3, <2>6, <2>7 DEF Intended, Sent, UDPOutbound
<1> QED BY <1>5, <1>6, <1>7

LEMMA OthersGoDirectly ==
  ASSUME RangesSplitExactly, NEW p, PolicyOK(p), NEW c \in Connections,
         Foreseen(p, c), ~Captured(p, c)
  PROVE  Intended(p, c) = "direct"
<1>1. p.action \in {"proxy", "direct"} /\ (p.selective <=> p.action = "direct")
  BY DEF PolicyOK
<1>2. IntendedPath(p, c) \in {"direct", "proxy"} BY <1>1 DEF IntendedPath
<1>3. CASE c.net = "udp" /\ p.quic BY <1>2, <1>3 DEF Intended
<1>4. CASE ~(c.net = "udp" /\ p.quic)
  <2>1. \/ c.src \notin p.sources \ p.excluded \/ c.dst \in LocalAddrs
        \/ c.dst \in TargetSet(p, p.bypass, c)
        \/ p.selective /\ c.dst \notin TargetSet(p, p.proxy, c)
    BY <1>4 DEF Captured, Foreseen
  <2>2. c.dst \in TargetSet(p, p.bypass, c) => Targeted(p.bypass, c)
    BY SetsHoldTargets DEF Foreseen
  <2>3. ASSUME p.selective, c.dst \notin TargetSet(p, p.proxy, c)
        PROVE  ~Targeted(p.proxy, c) /\ p.action = "direct"
    <3>1. c.resolved BY <2>3 DEF Foreseen
    <3>2. p.proxy.domains # {} => NeedsDNSMasqNFTSet(p) BY DEF NeedsDNSMasqNFTSet
    <3> QED BY <1>1, <2>3, <3>1, <3>2, SetsHoldTargets DEF Foreseen
  <2>4. IntendedPath(p, c) = "direct" BY <2>1, <2>2, <2>3 DEF IntendedPath
  <2> QED BY <2>4 DEF Intended
<1> QED BY <1>3, <1>4

-----------------------------------------------------------------------------
(* What the stored settings come to.                                       *)
LEMMA ExpandTyped ==
  ASSUME NEW c, Typed(c), NEW selectors \in Definition
  PROVE  Selected(Expand(c, selectors)) /\ Selected(NothingExpanded)
<1> DEFINE registry == Registry(c)
           Definitions(names) == {registry[n] : n \in Reachable(names, registry) \cap DOMAIN registry}
           families == {Family[d] : d \in selectors.domains \cap DOMAIN Family}
           services == Definitions(selectors.services)
<1>1. \A n \in DOMAIN registry : registry[n] \in Definition
  BY RegistryIs, BuiltinAssumption DEF Typed
<1> HIDE DEF registry
<1>2. \A def \in services \cup Definitions(families) :
        def.domains \subseteq Domains /\ def.ranges \subseteq Ranges
  <2>1. \A names : Definitions(names) \subseteq Definition BY <1>1
  <2> HIDE DEF Definitions
  <2> QED BY <2>1 DEF Definition
<1>3. selectors.domains \subseteq Domains /\ selectors.ranges \subseteq Ranges
  BY DEF Definition
<1> DEFINE domains == (UNION {def.domains : def \in services \cup Definitions(families)})
                      \cup (selectors.domains \ DOMAIN Family)
           ranges == (UNION {def.ranges : def \in services}) \cup selectors.ranges
<1>4. Expand(c, selectors) = [domains |-> domains, ranges |-> ranges]
  BY DEF Expand, registry
<1> HIDE DEF services, families, Definitions
<1>5. domains \subseteq Domains BY <1>2, <1>3
<1>6. ranges \subseteq Ranges BY <1>2, <1>3
<1> HIDE DEF domains, ranges
<1>7. Selected(Expand(c, selectors)) BY <1>4, <1>5, <1>6 DEF Selected
<1> QED BY <1>7 DEF Selected, NothingExpanded

LEMMA StoredPolicyOK ==
  ASSUME NEW f \in FwType, NEW c, Typed(c), ~RenderingPanics(ResolvePolicy(f, c)), NEW n
  PROVE  PolicyOK(EffectivePolicy(ResolvePolicy(f, c), n))
<1> DEFINE p == ResolvePolicy(f, c)
           e == EffectivePolicy(p, n)
<1>1. /\ f.targets \in Definition /\ f.split.proxy \in Definition
      /\ f.split.bypass \in Definition /\ f.split.action \in {"proxy", "direct"}
      /\ f.quic \in BOOLEAN
  BY DEF FwType, SplitType
<1>2. Selected(p.proxy) /\ Selected(p.bypass) BY <1>1, ExpandTyped DEF ResolvePolicy
<1>3. /\ p.action \in {"proxy", "direct"} /\ (p.selective <=> p.action = "direct")
      /\ p.quic \in BOOLEAN
  BY <1>1 DEF ResolvePolicy
<1>4. /\ e.action = p.action /\ e.selective = p.selective /\ e.proxy = p.proxy
      /\ e.bypass = p.bypass /\ e.quic = (p.quic \/ n = "noquic")
  BY DEF EffectivePolicy, ResolvePolicy
<1> HIDE DEF p, e
<1>5. RenderingPanics(e) = RenderingPanics(p) BY <1>4 DEF RenderingPanics
<1>6. PolicyOK(e) BY <1>2, <1>3, <1>4, <1>5 DEF PolicyOK, p
<1> QED BY <1>6 DEF e, p

-----------------------------------------------------------------------------
(* Xray is what the stored settings ask for, whichever listener it was     *)
(* given: traffic of the LAN enters it elsewhere.  A policy that routes    *)
(* has been rendered, or the process would have ended.                     *)
RunOK ==
  /\ xray = Stale \/ \E l : xray = WantedXray(ResolvePolicy(fw, catalog), l, node)
  /\ RoutingEnabled(fw) => ~RenderingPanics(ResolvePolicy(fw, catalog))

LEMMA ReapplyFollows ==
  ASSUME NEW settings, NEW p, ReapplyCurrentConnection(settings, p)
  PROVE  node' = node /\ (xray' = Stale \/ \E l : xray' = WantedXray(p, l, node'))
<1>1. CASE node # None BY <1>1 DEF ReapplyCurrentConnection, AppliesTo, Given, Fallen
<1>2. CASE node = None
  BY <1>2 DEF ReapplyCurrentConnection, TornDown, Given, Fallen, WantedXray
<1> QED BY <1>1, <1>2

(* What was validated and applied.                                         *)
LEMMA AppliedRuns ==
  ASSUME ReapplyCurrentConnection(fw', ResolvePolicy(fw', catalog')),
         ~RenderingPanics(ResolvePolicy(fw', catalog')) \/ ~RoutingEnabled(fw')
  PROVE  RunOK'
<1> DEFINE p == ResolvePolicy(fw', catalog')
<1>1. xray' = Stale \/ \E l : xray' = WantedXray(p, l, node') BY ReapplyFollows
<1>2. (xray = Stale)' <=> xray' = Stale BY DEF Stale
<1>3. \A l : WantedXray(ResolvePolicy(fw, catalog), l, node)' = WantedXray(p, l, node')
  BY DEF WantedXray
<1> QED BY <1>1, <1>2, <1>3 DEF RunOK

LEMMA SavedRuns == ASSUME NEW f, NEW d, SaveAndReapply(f, d) PROVE RunOK'
<1>1. /\ ~RenderingPanics(ResolvePolicy(f, catalog)) /\ fw' = f /\ catalog' = catalog
      /\ ReapplyCurrentConnection(f, ResolvePolicy(f, catalog))
  BY DEF SaveAndReapply, Validated
<1> QED BY <1>1, AppliedRuns

(* Nothing changed but the listener Xray has.                              *)
LEMMA StillRuns ==
  ASSUME RunOK, NEW f, fw' = f, ResolvePolicy(f, catalog) = ResolvePolicy(fw, catalog),
         RoutingEnabled(f) = RoutingEnabled(fw), UNCHANGED <<catalog, node>>,
         \/ xray' \in {xray, Stale}
         \/ \E l : xray' = WantedXray(ResolvePolicy(fw, catalog), l, node)
  PROVE  RunOK'
  BY DEF RunOK

LEMMA ServiceRuns ==
  ASSUME Inv, RunOK, NEW services, NEW name \in CustomNames, SaveCatalog(services, name),
         Typed(services), AlikeBut(catalog, services, name)
  PROVE  RunOK'
<1>1. /\ catalog' = services /\ fw' = fw /\ Renders(ResolvePolicy(fw, services))
      /\ ~RenderingPanics(ResolvePolicy(fw, services))
  BY DEF SaveCatalog, Validated
<1>2. CASE ActiveFirewallReferences(catalog, name)
  <2>1. ReapplyCurrentConnection(fw, ResolvePolicy(fw, services)) BY <1>2 DEF SaveCatalog
  <2> QED BY <1>1, <2>1, AppliedRuns
<1>3. CASE ~ActiveFirewallReferences(catalog, name)
  <2>1. UNCHANGED <<node, xray>> BY <1>3 DEF SaveCatalog, runtimeVars
  <2>2. ResolvePolicy(fw, services) = ResolvePolicy(fw, catalog)
    BY <1>1, <1>3, UnusedKeepsPolicy
  <2> QED BY <1>1, <2>1, <2>2 DEF RunOK
<1> QED BY <1>2, <1>3

LEMMA SetServiceRuns == ASSUME Inv, RunOK, SetFirewallTargetService PROVE RunOK'
<1>1. PICK input \in DefInputs :
        /\ input.name \in CustomNames
        /\ SaveCatalog(Define(catalog, input.name, input.selectors), input.name)
  BY InputAssumption DEF SetFirewallTargetService, ParseTargetDefinition, Names
<1> DEFINE name == input.name
           services == Define(catalog, name, input.selectors)
<1>2. input.selectors \in Definition BY InputAssumption
<1>3. /\ DOMAIN services = DOMAIN catalog \cup {name}
      /\ \A n \in DOMAIN services : services[n] = IF n = name THEN input.selectors ELSE catalog[n]
  BY DEF Define
<1>4. SaveCatalog(services, name) /\ name \in CustomNames BY <1>1
<1> HIDE DEF services, name
<1>5. Typed(services) /\ AlikeBut(catalog, services, name)
  BY <1>2, <1>3, <1>4 DEF Inv, Typed, AlikeBut
<1> QED BY <1>4, <1>5, ServiceRuns

LEMMA DeleteServiceRuns == ASSUME Inv, RunOK, DeleteFirewallTargetService PROVE RunOK'
<1>1. PICK name \in DOMAIN catalog : SaveCatalog(Undefine(catalog, name), name)
  BY DEF DeleteFirewallTargetService
<1> DEFINE services == Undefine(catalog, name)
<1>2. /\ DOMAIN services = DOMAIN catalog \ {name}
      /\ \A n \in DOMAIN services : services[n] = catalog[n]
  BY DEF Undefine
<1>3. SaveCatalog(services, name) BY <1>1
<1> HIDE DEF services
<1>4. name \in CustomNames /\ Typed(services) /\ AlikeBut(catalog, services, name)
  BY <1>2 DEF Inv, Typed, AlikeBut
<1> QED BY <1>3, <1>4, ServiceRuns

LEMMA InitRuns == Init => RunOK
<1> SUFFICES ASSUME Init PROVE RunOK OBVIOUS
<1>1. ~RoutingEnabled(fw) BY DEF Init, RoutingEnabled
<1>2. WantedXray(ResolvePolicy(fw, catalog), listener, node) = xray BY DEF Init, WantedXray
<1> QED BY <1>1, <1>2 DEF RunOK

LEMMA RunStep == ASSUME Inv, RunOK, [Next]_vars PROVE RunOK'
<1> DEFINE p == ResolvePolicy(fw, catalog)
<1>1. CASE \E f, d : SaveAndReapply(f, d) BY <1>1, SavedRuns
<1>2. CASE DisableFirewall
  <2>1. fw' = Disabled /\ catalog' = catalog
        /\ ReapplyCurrentConnection(Disabled, ResolvePolicy(Disabled, catalog))
    BY <1>2 DEF DisableFirewall
  <2>2. fw \in FwType BY DEF Inv, SettingsOK
  <2>3. ~RoutingEnabled(Disabled) BY <2>2 DEF RoutingEnabled, Disabled, FwType
  <2> QED BY <2>1, <2>3, AppliedRuns
<1>3. CASE UpdateFirewallDisableIPv6
  <2>1. PICK on \in BOOLEAN :
          /\ fw' = [fw EXCEPT !.mode = CanonicalMode(fw), !.disableIPv6 = on]
          /\ UNCHANGED <<catalog, node, xray>>
    BY <1>3 DEF UpdateFirewallDisableIPv6
  <2>2. fw \in FwType /\ CanonicalMode(fw) = fw.mode BY DEF Inv, SettingsOK
  <2>3. /\ fw'.enabled = fw.enabled /\ fw'.mode = fw.mode
        /\ fw'.hosts = fw.hosts /\ fw'.targets = fw.targets /\ fw'.split = fw.split
        /\ fw'.port = fw.port /\ fw'.quic = fw.quic
    BY <2>1, <2>2 DEF FwType
  <2>4. /\ ResolvePolicy(fw', catalog) = ResolvePolicy(fw, catalog)
        /\ RoutingEnabled(fw') = RoutingEnabled(fw)
    BY <2>3, SamePolicy, SameCanonicalMode
  <2> QED BY <2>1, <2>4, StillRuns
<1>4. CASE \/ UpdateFirewallModeDraft \/ UpdateFirewallSplitDraft \/ ClearFirewallModeDraft
           \/ UNCHANGED vars
  <2>1. UNCHANGED <<fw, catalog, node, xray>>
    BY <1>4 DEF UpdateFirewallModeDraft, UpdateFirewallSplitDraft, ClearFirewallModeDraft,
       StoreDrafts, vars, settingsVars, runtimeVars
  <2> QED BY <2>1, StillRuns
<1>5. CASE ConfigureProxy
  <2>1. /\ UNCHANGED <<fw, catalog, node>>
        /\ \/ xray' \in {xray, Stale}
           \/ \E l : xray' = WantedXray(p, l, node)
    BY <1>5 DEF ConfigureProxy
  <2> QED BY <2>1, StillRuns
<1>6. CASE Connect
  <2>1. /\ UNCHANGED <<fw, catalog>>
        /\ xray' = Stale \/ \E l : xray' = WantedXray(p, l, node')
    BY <1>6 DEF Connect, settingsVars, AppliesTo, Given, Fallen
  <2> QED BY <2>1 DEF RunOK, WantedXray
<1>7. CASE Disconnect
  <2>1. UNCHANGED <<fw, catalog>> /\ node' = None /\ xray' = Absent
    BY <1>7 DEF Disconnect, TornDown, Given, settingsVars
  <2>2. \A l : WantedXray(p, l, node') = Absent BY <2>1 DEF WantedXray
  <2> QED BY <2>1, <2>2 DEF RunOK, WantedXray
<1>8. CASE Reboot
  <2>1. UNCHANGED <<fw, catalog>> /\ xray' = Stale
    BY <1>8 DEF Reboot, Fallen, Given, settingsVars
  <2> QED BY <2>1 DEF RunOK
<1>9. CASE \/ ConfigureFirewallHosts \/ ConfigureFirewallTargets \/ ConfigureFirewallSplit
           \/ ConfigureFirewallBypass \/ UpdateFirewallPort \/ UpdateFirewallBlockQUIC
  <2>1. \E f, d : SaveAndReapply(f, d)
    BY <1>9 DEF ConfigureFirewallHosts, ConfigureFirewallTargets, ConfigureFirewallSplit,
       ConfigureFirewallBypass, ConfigureSplit, UpdateFirewallPort, UpdateFirewallBlockQUIC
  <2> QED BY <1>1, <2>1
<1> QED
  BY <1>2, <1>3, <1>4, <1>5, <1>6, <1>7, <1>8, <1>9, SetServiceRuns, DeleteServiceRuns
  DEF Next

LEMMA RunHolds == Spec => []RunOK
  BY InvHolds, InitRuns, RunStep, PTL DEF Spec

(* A captured connection meets the rules of the policy that captured it,   *)
(* at the port it is sent to.                                              *)
LEMMA DecidedAsIntended ==
  ASSUME RangesSplitExactly, Inv, RunOK
  PROVE  TrafficFollowsPolicy
<1> DEFINE p == ResolvePolicy(fw, catalog)
           e == EffectivePolicy(p, node)
<1> SUFFICES ASSUME table \notin {Absent, Stale}, xray # Stale,
                    NEW c \in Connections, Foreseen(e, c)
             PROVE  Decision(table, xray, c) = Intended(e, c)
  BY DEF TrafficFollowsPolicy
<1>1. table = e /\ node # None /\ p.routing
  BY DEF Inv, AppliedMatchesStored, WantedTable
<1>2. PICK l : xray = XrayRequest(e, l) BY <1>1 DEF RunOK, WantedXray
<1>3. p.routing = RoutingEnabled(fw) BY DEF ResolvePolicy
<1>4. PolicyOK(e)
  BY <1>1, <1>3, StoredPolicyOK DEF Inv, SettingsOK, RunOK
<1>5. e.routing = p.routing /\ e.port = p.port BY DEF EffectivePolicy, ResolvePolicy
<1> HIDE DEF p, e
<1>6. xray.rules = DirectDNSRule \o TransparentRules(e) /\ xray.port = e.port
  BY <1>1, <1>2, <1>5 DEF XrayRequest
<1>7. CASE Captured(e, c)
  <2>1. Routed(xray.rules, c) = Intended(e, c) BY <1>4, <1>6, <1>7, CapturedAsIntended
  <2> QED BY <1>1, <1>6, <1>7, <2>1 DEF Decision
<1>8. CASE ~Captured(e, c)
  <2>1. Intended(e, c) = "direct" BY <1>4, <1>8, OthersGoDirectly
  <2> QED BY <1>1, <1>8, <2>1 DEF Decision
<1> QED BY <1>7, <1>8

(* Table and rules send every connection the way the settings mean it,     *)
(* whatever was set, redefined, connected or failed before: two renderings *)
(* of one policy, in nft and in Xray, come to what its modes promise.      *)
(* The exceptions are Foreseen's, connection by connection; blocks that do *)
(* not panic are taken to be their range.                                  *)
THEOREM TrafficFollows ==
  ASSUME RangesSplitExactly
  PROVE  Spec => []TrafficFollowsPolicy
<1>1. Inv /\ RunOK => TrafficFollowsPolicy BY DecidedAsIntended
<1> QED BY <1>1, InvHolds, RunHolds, PTL
=============================================================================
