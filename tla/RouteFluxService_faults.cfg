CONSTANTS
  s1 = s1  s2 = s2  a = a  b = b  c = c  None = None
  Subs <- OneSub
  Nodes <- OneNodes
  Catalog <- OneCatalog
  NameOf <- TwoNames
  ServerList = None
  Profiles <- SmallProfiles
  Faults <- FaultNames
SYMMETRY SameNodes
SPECIFICATION Spec
INVARIANT TypeOK
PROPERTIES
  RemovalDisconnects DropOnlyWhenDown ConnectOnlyWhenServing ZapretOnlyWhenOn RestoreReestablishes
