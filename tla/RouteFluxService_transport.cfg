CONSTANTS
  s1 = s1  s2 = s2  a = a  b = b  c = c  None = None
  Subs <- TwoSubs
  Nodes <- TwoNodes
  Catalog <- TwoCatalog
  NameOf <- TwoNames
  ServerList = s2
  Profiles <- SmallProfiles
  Faults = {"prepare", "apply", "dnsOn", "fwOn"}
SPECIFICATION Spec
INVARIANTS TransportHonest ExclusiveTransports
