---------------------------- MODULE TrafficPolicy ----------------------------
(***************************************************************************)
(* What the firewall settings make of a connection of the LAN.  The        *)
(* settings become an nft table that captures connections                  *)
(* (src/internal/platform/openwrt/firewall.go) and the routing rules Xray  *)
(* applies to what it is handed (src/internal/backend/xray/generator.go).  *)
(* Intended is what the two together are for.                              *)
(*                                                                         *)
(* Addresses are numbers of W bits; a LAN source is a member of Hosts, and *)
(* the selector "all" is Hosts itself.                                     *)
(***************************************************************************)
EXTENDS TargetCatalog, Naturals, Sequences

CONSTANTS
  W,             \* the width of an address
  Hosts,         \* LAN clients
  AddressOf,     \* domain |-> the address it resolves to
  LocalAddrs,    \* bypassDestinationCIDRs
  Upstreams,     \* addresses of the DNS servers Xray asks
  BusyPorts,     \* ports of Xray's other inbounds: the local DNS
  TCPPorts       \* destination ports of TCP connections

Addresses == 0 .. (2^W - 1)

ASSUME WidthAssumption   == W \in Nat \ {0}
ASSUME RangesAssumption  == \A r \in Ranges : r[1] \in Addresses /\ r[2] \in r[1] .. (2^W - 1)
ASSUME AddressAssumption ==
  /\ AddressOf \in [Domains -> Addresses] /\ Upstreams \subseteq Addresses

-----------------------------------------------------------------------------
(* ipv4RangeToCIDRs: a range as blocks <<first, prefix>>, in the code's    *)
(* modular arithmetic.  A prefix beyond the width is a negative shift: the *)
(* program panics.                                                         *)
TrailingZeros(n) ==
  IF n = 0 THEN W ELSE CHOOSE k \in 0 .. W : n % 2^k = 0 /\ n % 2^(k+1) # 0
BitLen(n) ==
  IF n = 0 THEN 0 ELSE CHOOSE k \in 1 .. W : 2^(k-1) <= n /\ n < 2^k

RangeToCIDRs(range) ==
  LET PrefixAt(start) ==
        LET aligned == W - TrailingZeros(start)
            fitting == W + 1 - BitLen((range[2] - start + 1) % 2^W)
        IN  IF aligned < fitting THEN fitting ELSE aligned
      From[start \in Addresses] ==
        LET prefix == PrefixAt(start)
            next   == (start + 2^(W - prefix)) % 2^W
        IN  {<<start, prefix>>} \cup
            IF prefix = 0 \/ prefix > W THEN {}
            ELSE IF next <= range[2] THEN From[next] ELSE {}
  IN  From[range[1]]

Blocks == [r \in Ranges |-> RangeToCIDRs(r)]

Panics(ranges) == \E r \in ranges : \E block \in Blocks[r] : block[2] > W

(* The addresses of a range, as the table's set knows them.                *)
Covered(blocks) ==
  UNION {b[1] .. (b[1] + 2^(W - b[2]) - 1) : b \in {c \in blocks : c[2] <= W}}
BlockAddrs == [r \in Ranges |-> Covered(Blocks[r])]
AddrsOf(ranges) == UNION {BlockAddrs[r] : r \in ranges}

-----------------------------------------------------------------------------
(* The settings: canonical mode, and the policy a mode stands for.         *)
HasEntries(selectors) == selectors # NoSelectors
SplitHasEntries(fw) == HasEntries(fw.split.proxy) \/ HasEntries(fw.split.bypass)

ModeHasEntries(fw, mode) ==
  CASE mode = "hosts"   -> fw.hosts # {}
    [] mode = "targets" -> HasEntries(fw.targets)
    [] mode = "split"   -> SplitHasEntries(fw)
    [] OTHER            -> FALSE

RoutingEnabled(fw) == fw.enabled /\ ModeHasEntries(fw, fw.mode)

CanonicalMode(fw) ==
  IF ~fw.enabled THEN "disabled"
  ELSE IF ModeHasEntries(fw, fw.mode) THEN fw.mode
  ELSE IF ModeHasEntries(fw, "hosts") THEN "hosts"
  ELSE IF ModeHasEntries(fw, "split") THEN "split"
  ELSE IF ModeHasEntries(fw, "targets") THEN "targets"
  ELSE "disabled"

(* An effective policy, with everything the table is rendered from.        *)
ResolvePolicy(fw, catalog) ==
  LET mode == CanonicalMode(fw)
      action == CASE mode = "hosts" -> "proxy" [] mode = "split" -> fw.split.action
                  [] OTHER -> "direct"
  IN  [mode      |-> mode,
       routing   |-> RoutingEnabled(fw),
       sources   |-> IF mode = "hosts" THEN fw.hosts ELSE Hosts,
       excluded  |-> IF mode = "split" THEN fw.split.excluded ELSE {},
       proxy     |-> CASE mode = "targets" -> Expand(catalog, fw.targets)
                       [] mode = "split"   -> Expand(catalog, fw.split.proxy)
                       [] OTHER            -> NothingExpanded,
       bypass    |-> IF mode = "split" THEN Expand(catalog, fw.split.bypass)
                     ELSE NothingExpanded,
       action    |-> action,
       selective |-> mode # "hosts" /\ action = "direct",
       port      |-> fw.port,
       quic      |-> fw.quic]

HasOutput(expanded) == expanded # NothingExpanded

Renders(p) ==
  CASE p.mode = "disabled" -> FALSE
    [] p.mode = "hosts"    -> p.sources # {}
    [] OTHER               -> HasOutput(p.proxy) \/ HasOutput(p.bypass)

RenderingPanics(p) == Panics(p.proxy.ranges \cup p.bypass.ranges)

(* A node that cannot carry QUIC has it blocked, whatever the setting.     *)
EffectivePolicy(p, node) == [p EXCEPT !.quic = @ \/ node = "noquic"]

-----------------------------------------------------------------------------
(* A connection: from src to dst, under a name Xray can sniff or NoName,   *)
(* as "tcp" to some port, "quic" (UDP to port 443) or other "udp".         *)
(* resolved says that the name was looked up through the router, so that   *)
(* dnsmasq put its address into the table's sets.                          *)
NoName == "no name"
ASSUME NameAssumption == NoName \notin Domains

Kinds == {<<"tcp", port>> : port \in TCPPorts} \cup {<<"quic", 443>>, <<"udp", 0>>}

Connections ==
  {[src |-> h, dst |-> AddressOf[d], name |-> d, net |-> k[1], port |-> k[2],
    resolved |-> r] : h \in Hosts, d \in Domains, k \in Kinds, r \in BOOLEAN}
  \cup
  {[src |-> h, dst |-> a, name |-> NoName, net |-> k[1], port |-> k[2],
    resolved |-> TRUE] : h \in Hosts, a \in Addresses, k \in Kinds}

(* nft: what the chains return on, and what they hand to Xray.  The sets   *)
(* hold the blocks and what dnsmasq adds.                                  *)
NeedsDNSMasqNFTSet(p) ==
  \/ p.proxy.domains # {}
  \/ p.bypass.domains # {} /\ (HasOutput(p.proxy) \/ p.action = "proxy")

TargetSet(p, expanded, c) ==
  AddrsOf(expanded.ranges) \cup
  (IF NeedsDNSMasqNFTSet(p)
   THEN {AddressOf[d] : d \in {e \in expanded.domains : c.resolved \/ c.name # e}}
   ELSE {})

Captured(p, c) ==
  /\ c.src \notin p.excluded
  /\ c.dst \notin LocalAddrs
  /\ c.dst \notin TargetSet(p, p.bypass, c)
  /\ c.src \in p.sources
  /\ p.selective => c.dst \in TargetSet(p, p.proxy, c)
  /\ c.net = "tcp" => c.port # p.port
  /\ c.net = "udp" => ~p.quic

-----------------------------------------------------------------------------
(* Xray: the rules in order.  A rule takes a connection when its non-empty *)
(* conditions all hold; a sniffed name replaces the address, which rules   *)
(* on addresses then do not see (external: domainStrategy AsIs).           *)
Rule(nets, domains, ranges, out) ==
  [nets |-> nets, domains |-> domains, ranges |-> ranges, out |-> out]
Datagram == {"quic", "udp"}
Network  == Datagram \cup {"tcp"}

\* Mutant: what enters the proxy stays in it, QUIC included.
UDPUnblocked(out, quic) == out
UDPOutbound(out, quic) == IF out = "proxy" /\ quic THEN "block" ELSE out

(* Two rules per list of selectors, and none for an empty list: first on   *)
(* domains, then on addresses.                                             *)
ListRules(out, domains, ranges, quic) ==
  IF domains = {} /\ ranges = {} THEN <<>>
  ELSE <<Rule({"tcp"}, domains, ranges, out),
         Rule(Datagram, domains, ranges, UDPOutbound(out, quic))>>
TargetRules(out, expanded, quic) ==
  ListRules(out, expanded.domains, {}, quic) \o ListRules(out, {}, expanded.ranges, quic)
FallbackRules(out, quic) ==
  <<Rule({"tcp"}, {}, {}, out), Rule(Datagram, {}, {}, UDPOutbound(out, quic))>>

DirectDNSRule ==
  IF Upstreams = {} THEN <<>>
  ELSE <<Rule(Network, {}, {<<a, a>> : a \in Upstreams}, "direct")>>

TransparentRules(p) ==
  TargetRules("direct", p.bypass, p.quic)
  \o (IF p.selective THEN <<>> ELSE TargetRules("proxy", p.proxy, p.quic))
  \o FallbackRules(IF p.selective THEN "proxy" ELSE p.action, p.quic)

CIDRs == {r \in Addresses \X Addresses :
            \E k \in 0 .. W : r[1] % 2^k = 0 /\ r[2] = r[1] + 2^k - 1}

(* What Xray is configured with: backendConfigRequest and Generate.        *)
XrayRequest(p, listener) ==
  IF ~p.routing THEN [rules |-> DirectDNSRule, listener |-> listener, port |-> 0]
  ELSE [rules |-> DirectDNSRule \o TransparentRules(p), listener |-> listener,
        port |-> p.port]

(* Xray reads addresses and CIDRs, not ranges; and its inbounds need ports *)
(* of their own.                                                           *)
XrayAccepts(request) ==
  /\ {request.port, request.listener} \cap BusyPorts = {}
  /\ request.port # request.listener
  /\ \A i \in DOMAIN request.rules : request.rules[i].ranges \subseteq CIDRs

Takes(rule, c) ==
  /\ c.net \in rule.nets
  /\ rule.domains # {} => c.name \in rule.domains
  /\ rule.ranges # {} => c.name = NoName /\ \E r \in rule.ranges : c.dst \in r[1] .. r[2]

Routed(rules, c) ==
  LET taking == {i \in DOMAIN rules : Takes(rules[i], c)}
  IN  rules[CHOOSE i \in taking : \A j \in taking : i <= j].out

(* The way a connection goes: a captured one that nobody answers is lost.  *)
Decision(table, request, c) ==
  IF ~Captured(table, c) THEN "direct"
  ELSE IF table.port # request.port THEN "lost"
  ELSE Routed(request.rules, c)

-----------------------------------------------------------------------------
(* What the settings mean (README, routing modes): traffic of the chosen   *)
(* sources goes through the proxy when its destination is a proxy target;  *)
(* Keep Direct wins over it; local and excluded traffic stays direct; the  *)
(* rest follows the mode's default.  A destination is known by its name    *)
(* where it has one.                                                       *)
Targeted(expanded, c) ==
  \/ \E r \in expanded.ranges : c.dst \in r[1] .. r[2]
  \/ IF c.name # NoName THEN c.name \in expanded.domains
     ELSE c.dst \in {AddressOf[d] : d \in expanded.domains}

IntendedPath(p, c) ==
  IF \/ c.src \notin p.sources \ p.excluded
     \/ c.dst \in LocalAddrs \cup Upstreams
     \/ Targeted(p.bypass, c)
  THEN "direct"
  ELSE IF Targeted(p.proxy, c) THEN "proxy" ELSE p.action

(* Blocking QUIC makes clients fall back to TCP; other datagrams then      *)
(* never enter the proxy.                                                  *)
Intended(p, c) ==
  CASE IntendedPath(p, c) = "proxy" /\ p.quic /\ c.net = "quic" -> "block"
    [] IntendedPath(p, c) = "proxy" /\ p.quic /\ c.net = "udp"  -> "direct"
    [] OTHER -> IntendedPath(p, c)

(* A list is mistaken for that of a connection by an address that one of   *)
(* its names shares with the connection's.                                 *)
Mistaken(expanded, c) ==
  /\ c.name \notin expanded.domains \cup {NoName}
  /\ c.dst \in {AddressOf[d] : d \in expanded.domains}

(* What the settings cannot be held to: a policy that captures by address  *)
(* does not see names resolved behind the router's back (README: "target   *)
(* IP sets may stay empty"), nor tells names with one address apart; Xray  *)
(* does not know a DNS server under a name; and TCP to the transparent     *)
(* port itself is never captured.                                          *)
Foreseen(p, c) ==
  /\ c.resolved \/ ~p.selective
  /\ ~Mistaken(p.proxy, c) /\ ~Mistaken(p.bypass, c)
  /\ c.name = NoName \/ c.dst \notin Upstreams
  /\ c.net = "tcp" => c.port # p.port

(* The blocks of a range are the range, unless rendering them panics.      *)
RangesSplitExactly ==
  \A r \in Ranges : ~Panics({r}) => BlockAddrs[r] = r[1] .. r[2]
=============================================================================
