CONSTANTS
  s1 = s1  s2 = s2  a = a  b = b  c = c  None = None
  Subs <- OneSub
  Nodes <- TinyNodes
  Catalog <- TinyCatalog
  NameOf <- TwoNames
  ServerList = None
  Profiles <- SmallProfiles
  Faults <- FaultNames
SPECIFICATION FairSpec
PROPERTY OperationEnds
