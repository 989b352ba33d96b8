CONSTANTS
  r1 = r1
  c1 = c1
  Records = {r1}
  Training = {r1}
  Callers = {c1}
  MaxBatches = 1
  MaxGrants = 1
  MaxVersions = 1
  MaxAttempts = 2
  MaxStops = 0
  Inspect = TRUE
  Faults = {}
SPECIFICATION FairSpec
PROPERTY WithdrawnNotExported
CHECK_DEADLOCK FALSE
