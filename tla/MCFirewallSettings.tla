-------------------------- MODULE MCFirewallSettings --------------------------
(***************************************************************************)
(* A small LAN for FirewallSettings: eight addresses, two clients, one     *)
(* preset with a root domain, two names to define.                         *)
(***************************************************************************)
EXTENDS FirewallSettings

Select(services, domains, ranges) ==
  [services |-> services, domains |-> domains, ranges |-> ranges]

MCBuiltin == [youtube |-> Select({}, {"youtube.com", "ytimg.com"}, {})]
MCFamily  == [d \in {"youtube.com"} |-> "youtube"]
MCDomains == {"youtube.com", "ytimg.com", "example.org", "dns.example"}

(* Two of the names share an address, of one list or of two, and one is    *)
(* that of a DNS server.                                                   *)
MCAddressOf == [d \in MCDomains |-> CASE d = "youtube.com" -> 4 [] d = "dns.example" -> 7
                                     [] OTHER -> 5]

(* A range of several blocks, an address, and one up to the last address.  *)
MCRanges == {<<1, 3>>, <<2, 2>>, <<6, 7>>}

Def(name, selectors) == [name |-> name, selectors |-> selectors]
MCDefs == {Def("a", Select({"b"}, {}, {})), Def("b", Select({"a"}, {}, {})),
           Def("b", Select({}, {"example.org"}, {})), Def("b", Select({}, {"ytimg.com"}, {})),
           Def("youtube", Select({}, {"example.org"}, {}))}

MCTargets == {Select({"b"}, {"youtube.com"}, {<<1, 3>>})}

MCSplits == {[proxy |-> Select({"youtube"}, {}, {<<2, 2>>}),
              bypass |-> Select({"a"}, {"ytimg.com"}, {}), excluded |-> {"h2"}]}
MCSources == {{"h1"}}

(* What TrafficFollows supposes, for every range of W bits.                *)
ASSUME RangesAreSplit ==
  \A lo \in Addresses : \A hi \in lo .. (2^W - 1) :
    \E blocks \in {RangeToCIDRs(<<lo, hi>>)} :
      (\E b \in blocks : b[2] > W) \/ Covered(blocks) = lo .. hi
=============================================================================
