SPECIFICATION FairSpec
CONSTANTS
  Kernels = {k1}
  Slots = 3
  Solo = TRUE
  MaxJobs = 3
  MaxPauses = 2
INVARIANT TypeOK
INVARIANT PackageStable
INVARIANT LabelNotOlder
INVARIANT KernelsHaveTheWork
PROPERTY NewWorkIsMined
CHECK_DEADLOCK FALSE
