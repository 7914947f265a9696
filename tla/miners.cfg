SPECIFICATION Spec
CONSTANTS
  NPools = 2
  MaxRetries = 2
  Net = Net
  Miners = {m1}
  AutoPools = {0}
  May <- MayFail
  Coalesce = FALSE
  DisableAutoReconnect = FALSE
  Failback = FALSE
  LongOutage = FALSE
INVARIANT TypeOK
INVARIANT AttemptLeft
INVARIANT MinesForConnectedPool
PROPERTY GivesUpAfterRetries
PROPERTY OnlyMinersCrossPools
PROPERTY KeepsTheListInStep
