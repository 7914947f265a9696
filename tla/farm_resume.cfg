SPECIFICATION Spec
CONSTANTS
  Devices = {d1}
  Fragile = {}
  Jobs = {j1, j2}
  NoJob = nojob
  Repeats = TRUE
INVARIANT PausedOnlyForReconnect
