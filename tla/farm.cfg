SPECIFICATION FairSpec
CONSTANTS
  Devices = {d1, d2}
  Fragile = {d1, d2}
  Jobs = {j1, j2}
  NoJob = nojob
  Repeats = FALSE
INVARIANT TypeOK
INVARIANT StoppedIsOut
INVARIANT KilledAreOut
INVARIANT PausedOnlyForReconnect
PROPERTY MinersWork
PROPERTY MiningRestarts

