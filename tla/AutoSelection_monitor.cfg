SPECIFICATION FairSpec
CONSTANTS
  a = a  b = b
  Nodes = {a, b}
  Rank <- MCRank
  FailureThreshold = 3
  MaxSuccessStreak = 2
  MaxRecoveryWindow = 2
  Timeout = 50
  LatencyImprovement = 5
  HealthyLatencyCeiling = 30
  Cooldown = 2
  FailureBound = 3
  MarginBound = 2
  Links <- HonestLinks
  ZapretOutcomes = {TRUE, FALSE}
  FailbackThreshold = 2
  PersistInterval = 2
  Events = {"network", "router", "touch", "restart", "user"}
  MaxEvents = 2
INVARIANT TypeOK
PROPERTIES
  WorkingNodeKept MovesToCandidates FailbackEarned Settles StopsSwitching
