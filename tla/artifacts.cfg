CONSTANTS
  NumTransfers = 2
  a = a
  Artifacts = {a}
  Of <- Asked
  Size = 3
  Slots = 2
  MaxAttempts = 2
  MaxTroubles = 2
  Faults = {"cancel", "expiry", "pull", "crash", "stop"}
SPECIFICATION FairSpec
INVARIANTS TypeOK ReceiptHonest PartialIntact
PROPERTIES TransferSettles
