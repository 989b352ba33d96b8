SPECIFICATION FairSpec
CONSTANTS
  Messages = {a}
  MaxAttempts = 2
  WorkerCount = 1
  MaxLate = 2
  Faults = {"stop", "crash", "receiver", "task"}
  None = None
INVARIANT TypeOK
INVARIANT OneAttempt
PROPERTY ImplementsService
PROPERTY MessageSettles
