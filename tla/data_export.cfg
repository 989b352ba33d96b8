CONSTANTS
  r1 = r1
  r2 = r2
  c1 = c1
  c2 = c2
  Records = {r1, r2}
  Training = {r1, r2}
  Callers = {c1, c2}
  MaxBatches = 1
  MaxGrants = 1
  MaxVersions = 1
  MaxAttempts = 2
  MaxStops = 1
  Inspect = TRUE
  Faults = {"crash", "stop", "task", "loss", "refuse", "disable"}
SPECIFICATION FairSpec
INVARIANTS TypeOK ReceiptMeansStored SettledTogether DatasetDelivered
PROPERTIES BatchSettles
