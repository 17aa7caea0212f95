SPECIFICATION Spec
CONSTANT
  Faults = {"file", "dnsmasq", "nft", "ip", "proc", "crash"}
  DNSConfigs = {"remote", "split"}
  Policies = {"targets", "hosts"}
  PolicyDomains <- MCPolicyDomains
  MemTotalKiB = 126976
  InitialConntrack = {16384}
INVARIANT
  TypeOK
  NoRestartForgotten
  DNSTakesEffect
  FirewallTakesEffect
  OnlyFailuresMislead
