SPECIFICATION Spec
CONSTANTS
  Missions = {m1}
  Callers = {}
  MaxRuns = 2
  Requests = {q1, q2}
  MaxWaits = 2
  CappedRoutes = {}
  RouteLimit <- Limits
  MinFlowgraphActions = 2
  MaxIterations = 2
  MaxCoordinatorCalls = 2
  MaxConsecutiveFailures = 1
  WorkerCount = 1
  Faults = {}
  None = None
INVARIANT NoLostWakeup
PROPERTY OnlyRequeueReopens
CHECK_DEADLOCK FALSE
