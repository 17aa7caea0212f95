CONSTANTS
  s1 = s1  s2 = s2  a = a  b = b  c = c  None = None
  Subs <- TwoSubs
  Nodes <- TwoNodes
  Catalog <- TwoCatalog
  NameOf <- TwoNames
  ServerList = s2
  Profiles <- ZapretProfiles
  Faults <- SetupFaults
SYMMETRY SameNodes
SPECIFICATION Spec
INVARIANTS DisconnectedMeansDown NodeHonest
