SPECIFICATION Spec
CONSTANTS
  NPools = 2
  MaxRetries = 2
  Net = Net
  Miners = {}
  AutoPools = {0, 1}
  May <- MayMainFails
  Coalesce = FALSE
  DisableAutoReconnect = FALSE
  Failback = FALSE
  LongOutage = FALSE
INVARIANT PortsStayWithTheirPool
