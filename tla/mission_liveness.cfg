SPECIFICATION FairSpec
CONSTANTS
  Missions = {m1}
  Callers = {}
  MaxRuns = 1
  Requests = {q1}
  MaxWaits = 1
  CappedRoutes = {"gnuradio_mcp"}
  RouteLimit <- Limits
  MinFlowgraphActions = 2
  MaxIterations = 2
  MaxCoordinatorCalls = 2
  MaxConsecutiveFailures = 2
  WorkerCount = 1
  Faults = {"shutdown"}
  None = None
PROPERTY MissionSettles
PROPERTY WaitEnds
PROPERTY ShutdownEnds
CHECK_DEADLOCK FALSE
