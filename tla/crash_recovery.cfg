SPECIFICATION Spec
CONSTANTS
  Missions = {m1}
  Callers = {c1}
  MaxRuns = 1
  Requests = {q1}
  MaxWaits = 2
  CappedRoutes = {"gnuradio_mcp"}
  RouteLimit <- Limits
  MinFlowgraphActions = 3
  MaxIterations = 3
  MaxCoordinatorCalls = 3
  MaxConsecutiveFailures = 1
  WorkerCount = 1
  Faults = {"crash"}
  None = None
INVARIANT IterationBudget
INVARIANT OnePendingWait
PROPERTY ResolvedWaitFinal
CHECK_DEADLOCK FALSE
