SPECIFICATION Spec
CONSTANTS
  Missions = {m1}
  Callers = {}
  MaxRuns = 2
  Requests = {}
  MaxWaits = 0
  CappedRoutes = {"coding_agent"}
  RouteLimit <- Limits
  MinFlowgraphActions = 2
  MaxIterations = 2
  MaxCoordinatorCalls = 2
  MaxConsecutiveFailures = 2
  WorkerCount = 1
  Faults = {"shutdown"}
  None = None
INVARIANT TypeOK
INVARIANT RowsAgree
INVARIANT NoOrphanRun
INVARIANT BudgetRespected
INVARIANT TerminalMissionStopped
PROPERTY NoCallAfterAcknowledgement
PROPERTY NoCallForInactiveMission
