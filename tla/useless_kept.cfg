SPECIFICATION FairSpec
CONSTANTS
  NPools = 2
  MaxRetries = 2
  Net = Net
  Miners = {}
  AutoPools = {}
  May <- MayMainTalks
  Coalesce = FALSE
  DisableAutoReconnect = FALSE
  Failback = FALSE
  LongOutage = FALSE
PROPERTY LeavesUselessPool
