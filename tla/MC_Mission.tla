------------------------------ MODULE MC_Mission ------------------------------
(* Model values for MissionExecution: one mission, small budgets.          *)
EXTENDS MissionExecution

\* One action per budgeted route; two for a flowgraph, which is enough to begin
\* one when MIN_FLOWGRAPH_MCP_ACTIONS is 2 and not when it is 3.
Limits == [t \in CappedRoutes |-> IF t = "gnuradio_mcp" THEN 2 ELSE 1]
===============================================================================
