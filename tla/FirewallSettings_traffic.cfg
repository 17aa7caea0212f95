SPECIFICATION Spec
CONSTANT
  Builtin <- MCBuiltin
  CustomNames = {"a", "b"}
  Domains <- MCDomains
  Ranges <- MCRanges
  Family <- MCFamily
  W = 3
  Hosts = {"h1", "h2"}
  AddressOf <- MCAddressOf
  LocalAddrs = {0}
  Upstreams = {7}
  BusyPorts = {1053}
  TCPPorts = {80, 12345}
  Faults = {"ipv6", "runtime"}
  TargetInputs <- MCTargets
  SplitInputs <- MCSplits
  DefInputs <- MCDefs
  SourceInputs <- MCSources
  Ports = {12345, 10808}
  PortInputs = {0}
  ProxyPorts = {10808, 1080}
INVARIANT
  TypeOK
  CatalogSound
  NoDanglingSelectors
  AppliedMatchesStored
  TrafficFollowsPolicy
  IPv6StaysDisabled
