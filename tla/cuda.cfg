SPECIFICATION FairSpec
CONSTANTS
  Jobs = {j1, j2, j3}
  NoJob = NoJob
  BadHeader = {j3}
  MaxThreads = 2
  NonceSpace = 5
  Overlap = TRUE
  DeviceFails = TRUE
INVARIANT TypeOK
INVARIANT NoncesOnce
PROPERTY LaunchesAreCollected
PROPERTY ImplementsQueue
