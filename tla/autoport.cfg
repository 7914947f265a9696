SPECIFICATION FairSpec
CONSTANTS
  NPools = 2
  AutoPools = {0}
  HashRates <- RatesAtEdges
INVARIANT TypeOK
PROPERTIES SwitchesAtThresholds SwitchesAreConfirmed OneSwitchPerTenMinutes PortSettles
