SPECIFICATION FairSpec
CONSTANTS
  NPools = 3
  MaxRetries = 2
  Net = Net
  Miners = {}
  AutoPools = {}
  May <- MayLastWorks
  Coalesce = FALSE
  DisableAutoReconnect = FALSE
  Failback = TRUE
  LongOutage = FALSE
INVARIANT ConnectionMatchesPool
INVARIANT SessionStaysWithItsPool
PROPERTY ImplementsFailover
PROPERTY MiningResumes
PROPERTY ReturnsToMain
