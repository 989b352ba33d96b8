--------------------------- MODULE MissionLifecycle ---------------------------
(***************************************************************************)
(* The lifecycle table of missions/lifecycle.py.  A mission row and each   *)
(* of its execution-run rows are moved by the same table.                  *)
(***************************************************************************)

Terminal == {"completed", "blocked", "failed", "cancelled"}

MissionStatus == {"received", "queued", "active", "waiting", "paused"} \cup Terminal

\* Which statuses a row may be moved to; a terminal row is never moved.
Allowed ==
  [s \in MissionStatus |->
     CASE s = "received" -> {"queued", "cancelled"}
       [] s = "queued"   -> {"active", "paused", "cancelled"}
       [] s = "active"   -> {"waiting", "paused", "queued"} \cup Terminal
       [] s = "waiting"  -> {"queued", "paused", "cancelled"}
       [] s = "paused"   -> {"queued", "cancelled"}
       [] OTHER          -> {}]

\* A transition to the same status is an idempotent no-op and is accepted.
CanTransition(current, target) == current = target \/ target \in Allowed[current]
===============================================================================
