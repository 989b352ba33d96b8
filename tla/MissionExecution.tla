--------------------------- MODULE MissionExecution ---------------------------
(***************************************************************************)
(* Autonomous execution of missions on one node: the worker manager        *)
(* (missions/worker.py), the engine's atomic iteration                     *)
(* (missions/engine.py), the leases on run rows (state/repositories.py)    *)
(* and the durable reply waits of comms/service.py.                        *)
(*                                                                         *)
(* The node is one asyncio event loop over a SQLite file.  A coroutine     *)
(* keeps the loop until it reaches an await that really suspends (the      *)
(* coordinator call, a routed action, a retry delay, the end of its        *)
(* heartbeat task); publishing an event does not suspend.  Variable `loop' *)
(* is what the coroutine holding the loop does next, so an action below is *)
(* one database transaction, nothing else of the process runs between the  *)
(* transactions of one handler, and a crash may fall between any two.      *)
(***************************************************************************)
EXTENDS Naturals, FiniteSets, MissionLifecycle

CONSTANTS
  Missions,          \* mission rows
  Callers,           \* concurrent run-step API calls
  MaxRuns,           \* bound: execution runs per mission (1 + retries)
  Requests,          \* outbound peer messages that expect a reply
  MaxWaits,          \* bound: reply-wait rows
  CappedRoutes,      \* route targets with an action budget, e.g. "coding_agent"
  RouteLimit,        \* their limits
  MinFlowgraphActions, \* MIN_FLOWGRAPH_MCP_ACTIONS
  MaxIterations, MaxCoordinatorCalls, MaxConsecutiveFailures,
  WorkerCount,       \* size of the worker pool
  Faults,            \* what may befall the process: "crash", "shutdown"
  None               \* the absent executor, run, request

Executors == Missions \cup Callers
Runs      == Missions \X (1 .. MaxRuns)
WaitIds   == 1 .. MaxWaits

ASSUME BoundsAssumption ==
  /\ MaxRuns \in Nat \ {0} /\ MaxWaits \in Nat /\ WorkerCount \in Nat \ {0}
  /\ MaxIterations \in Nat \ {0} /\ MaxCoordinatorCalls \in Nat \ {0}
  /\ MaxConsecutiveFailures \in Nat \ {0} /\ MinFlowgraphActions \in Nat
  /\ RouteLimit \in [CappedRoutes -> Nat]
  /\ Faults \subseteq {"crash", "shutdown"}

ASSUME NamesAssumption ==
  /\ Missions \cap Callers = {}
  /\ None \notin Executors \cup Runs \cup Requests

VARIABLES
  missions,  \* status of each mission row
  runs,      \* execution-run rows
  outbox,    \* the run that queued each peer message, or None
  replies,   \* requests whose correlated reply is in the inbox
  waits,     \* mission_reply_waits rows
  exec,      \* in-memory: worker tasks (one per mission) and run-step calls
  loop,      \* in-memory: the continuation of the coroutine holding the loop
  node       \* process phase

rows == <<missions, runs, outbox, replies, waits>>
vars == <<missions, runs, outbox, replies, waits, exec, loop, node>>

-------------------------------------------------------------------------------
(* Rows and continuations.                                                 *)

RunStatus   == MissionStatus \cup {"absent"}
LeaseStates == {"none", "live", "expired"}
WaitStates  == {"absent", "pending", "satisfied", "timed_out", "cancelled"}
Suspended   == {"coordinator", "route", "backoff"}
ExecStates  == {"idle", "scheduled", "running", "winddown"} \cup Suspended

\* A lease token names the acquisition it was made for: an executor of this
\* process, or "dead" for one of an earlier process.
Tokens == Executors \cup {"none", "dead"}

FreshRun == [status |-> "queued", lease |-> "none", token |-> "none",
             pause |-> FALSE, cancelReq |-> FALSE, cancelAck |-> FALSE,
             waiting |-> None, iterations |-> 0, calls |-> 0, failures |-> 0,
             actions |-> [t \in CappedRoutes |-> 0], late |-> FALSE]
NoRun  == [FreshRun EXCEPT !.status = "absent"]
NoWait == [state |-> "absent", run |-> None, request |-> None,
           deadline |-> FALSE, resume |-> "none"]
Idle   == [pc |-> "idle", run |-> None, route |-> None, calls |-> 0, lost |-> FALSE]

At(do, e, r, w) == [do |-> do, e |-> e, r |-> r, w |-> w]
Free == At("free", None, None, 0)
LoopFree == loop = Free

\* Next for the coroutine of executor e: another turn of its loop, or its end.
Iterate(e) == At("iterate", e, exec[e].run, 0)
Finish(e)  == At("finish", e, exec[e].run, 0)
\* CONTINUED: a worker's loop goes round again, a run-step call is over.
Continued(e) == IF e \in Missions THEN Iterate(e) ELSE Finish(e)

RunsOf(m)  == {r \in Runs : r[1] = m /\ runs[r].status # "absent"}
IsNewest(r, S) == \A s \in S : s[2] <= r[2]
Newest(S) == IF \E r \in S : IsNewest(r, S) THEN CHOOSE r \in S : IsNewest(r, S) ELSE None
\* current_for_mission: the newest run that is not terminal.
Current(m) == Newest({r \in RunsOf(m) : runs[r].status \notin Terminal})
\* latest_for_mission: the newest run.
Latest(m)  == Newest(RunsOf(m))
\* r is the row the next run of m is inserted as.
NextRunReusesRow(m, r) ==  \* mutant of NextRun: a retry takes the old row again
  r[1] = m /\ \A i \in 1 .. (r[2] - 1) : runs[<<m, i>>].status # "absent"
NextRun(m, r) ==
  /\ r[1] = m /\ runs[r].status = "absent"
  /\ \A i \in 1 .. (r[2] - 1) : runs[<<m, i>>].status # "absent"

\* `mission_id in self._tasks'.
HasTask(m) == exec[m].pc # "idle"
\* The lifespan hook is done and the HTTP API answers.
Serving == node = "ready" /\ LoopFree

\* _apply_transition validates the mission row and the run row, then writes both;
\* it raises (and writes nothing) when either move is not allowed.
Applies(r, target) ==
  /\ CanTransition(missions[r[1]], target)
  /\ CanTransition(runs[r].status, target)
ApplyToRunOnly(r, target, run, moved) ==  \* mutant of Apply: mission row forgotten
  /\ UNCHANGED missions
  /\ runs' = [runs EXCEPT ![r] = IF Applies(r, target)
                                 THEN [moved EXCEPT !.status = target] ELSE run]
ApplyToMissionOnly(r, target, run, moved) ==  \* mutant of Apply: run row forgotten
  /\ missions' = IF Applies(r, target) THEN [missions EXCEPT ![r[1]] = target] ELSE missions
  /\ runs' = [runs EXCEPT ![r] = run]
\* The handler writes `run' in any case and `moved' with the new status.
Apply(r, target, run, moved) ==
  /\ missions' = IF Applies(r, target) THEN [missions EXCEPT ![r[1]] = target] ELSE missions
  /\ runs' = [runs EXCEPT ![r] = IF Applies(r, target)
                                 THEN [moved EXCEPT !.status = target] ELSE run]

-------------------------------------------------------------------------------
(* Budgets (missions/budgets.py).                                          *)

IterationBlockedLate(run) ==  \* mutant of IterationBlocked: off by one
  run.iterations > MaxIterations \/ run.calls > MaxCoordinatorCalls
IterationBlocked(run) ==
  \/ run.iterations >= MaxIterations
  \/ run.calls >= MaxCoordinatorCalls
  \/ run.late
  \/ run.failures >= MaxConsecutiveFailures

RouteBlockedLate(run, t) ==  \* mutant of RouteBlocked: off by one
  t \in CappedRoutes /\ run.actions[t] > RouteLimit[t]
RouteBlocked(run, t) == t \in CappedRoutes /\ run.actions[t] >= RouteLimit[t]

\* A flowgraph build that has not begun is refused when it could not finish.
FallbackBlocked(run, t) ==
  /\ t = "gnuradio_mcp" /\ run.actions[t] = 0
  /\ RouteLimit[t] \in 1 .. (MinFlowgraphActions - 1)

-------------------------------------------------------------------------------
(* The worker pool and the leases on runs.                                 *)

\* The poll loop starts a task for a queued run of a mission that has none.
Schedule(r) ==
  /\ node \in {"starting", "ready"} /\ LoopFree
  /\ runs[r].status = "queued" /\ ~HasTask(r[1])
  /\ Cardinality({m \in Missions : HasTask(m)}) < WorkerCount
  /\ exec' = [exec EXCEPT ![r[1]] = [Idle EXCEPT !.pc = "scheduled", !.run = r]]
  /\ UNCHANGED <<rows, loop, node>>

CanAcquire(run) == run.status = "queued" \/ (run.status = "active" /\ run.lease # "live")

\* acquire_lease: one conditional UPDATE claims the run and makes it active.
Acquire(e, r) ==
  /\ CanAcquire(runs[r])
  /\ runs' = [runs EXCEPT ![r] = [@ EXCEPT !.status = "active", !.lease = "live", !.token = e]]
  /\ exec' = [exec EXCEPT ![e] = [Idle EXCEPT !.pc = "running", !.run = r]]
  /\ loop' = At("acquired", e, r, 0)
  /\ UNCHANGED <<missions, outbox, replies, waits, node>>

BeginTask(m) ==
  /\ LoopFree /\ exec[m].pc = "scheduled"
  /\ \/ Acquire(m, exec[m].run)
     \/ /\ ~CanAcquire(runs[exec[m].run])
        /\ exec' = [exec EXCEPT ![m] = Idle]
        /\ UNCHANGED <<rows, loop, node>>

\* The mission row follows in a second transaction; a refused move is suppressed.
MissionActive ==
  /\ loop.do = "acquired"
  /\ Apply(loop.r, "active", runs[loop.r], runs[loop.r])
  /\ loop' = Iterate(loop.e)
  /\ UNCHANGED <<outbox, replies, waits, exec, node>>

\* A run-step call releases its lease at once; a worker first awaits its
\* cancelled heartbeat, which lets the event loop run other coroutines.
ReleasedToNull(e) ==  \* mutant of Released: the wrong absent value
  [runs EXCEPT ![exec[e].run] = [@ EXCEPT !.token = None, !.lease = "none"]]
Released(e) ==
  LET r == exec[e].run
  IN  IF runs[r].token = e THEN [runs EXCEPT ![r] = [@ EXCEPT !.token = "none", !.lease = "none"]]
      ELSE runs

EndRun ==
  /\ loop.do = "finish"
  /\ LET e == loop.e
     IN  IF e \in Missions
         THEN exec' = [exec EXCEPT ![e].pc = "winddown"] /\ UNCHANGED runs
         ELSE exec' = [exec EXCEPT ![e] = Idle] /\ runs' = Released(e)
  /\ loop' = Free
  /\ UNCHANGED <<missions, outbox, replies, waits, node>>

WindDownKeepsTask(m) ==  \* mutant of WindDown: the entry stays in _tasks
  /\ LoopFree /\ exec[m].pc = "winddown"
  /\ runs' = IF exec[m].lost THEN runs ELSE Released(m)
  /\ UNCHANGED <<missions, outbox, replies, waits, exec, loop, node>>
\* The task releases its lease (unless it learnt it was lost) and leaves _tasks.
WindDown(m) ==
  /\ LoopFree /\ exec[m].pc = "winddown"
  /\ runs' = IF exec[m].lost THEN runs ELSE Released(m)
  /\ exec' = [exec EXCEPT ![m] = Idle]
  /\ UNCHANGED <<missions, outbox, replies, waits, loop, node>>

\* A renewal needs the token and an active run; when it fails the worker stops
\* after its current iteration.  A renewal that succeeds leaves the lease live.
HeartbeatLost(m) ==
  /\ LoopFree /\ exec[m].pc \in Suspended /\ ~exec[m].lost
  /\ LET run == runs[exec[m].run] IN run.token # m \/ run.status # "active"
  /\ exec' = [exec EXCEPT ![m].lost = TRUE]
  /\ UNCHANGED <<rows, loop, node>>

\* Only a worker renews: a run-step call and a dead process let a lease expire.
Renewed(r) ==
  /\ runs[r].token \in Missions
  /\ LET x == exec[runs[r].token]
     IN  x.run = r /\ x.pc \in Suspended \cup {"running", "winddown"} /\ ~x.lost

LeaseExpires(r) ==
  /\ runs[r].lease = "live" /\ ~Renewed(r) /\ LoopFree
  /\ runs' = [runs EXCEPT ![r].lease = "expired"]
  /\ UNCHANGED <<missions, outbox, replies, waits, exec, loop, node>>

-------------------------------------------------------------------------------
(* One iteration, up to the coordinator call (engine.run_iteration).       *)

\* Executor e is at the top of its loop; a stopping worker goes no further.
Turn(e) == loop.do = "iterate" /\ loop.e = e
Stops(e) == e \in Missions /\ (exec[e].lost \/ node = "stopping")
CancelPending(run) == run.cancelReq /\ ~run.cancelAck

IterationStopped(e) ==
  /\ Turn(e) /\ (Stops(e) \/ runs[exec[e].run].status # "active")
  /\ loop' = Finish(e)
  /\ UNCHANGED <<rows, exec, node>>

ProceedsUnchecked(e) == Turn(e) /\ ~Stops(e)  \* mutant of Proceeds: status not re-read
Proceeds(e) == Turn(e) /\ ~Stops(e) /\ runs[exec[e].run].status = "active"

AcknowledgeOnly(e) ==  \* mutant of AcknowledgeCancel: the move to cancelled is missing
  /\ Proceeds(e) /\ CancelPending(runs[exec[e].run])
  /\ runs' = [runs EXCEPT ![exec[e].run].cancelAck = TRUE]
  /\ loop' = Finish(e)
  /\ UNCHANGED <<missions, outbox, replies, waits, exec, node>>
\* The acknowledgement is committed before the mission is moved.
AcknowledgeCancel(e) ==
  /\ Proceeds(e) /\ CancelPending(runs[exec[e].run])
  /\ runs' = [runs EXCEPT ![exec[e].run].cancelAck = TRUE]
  /\ loop' = At("cancel", e, exec[e].run, 0)
  /\ UNCHANGED <<missions, outbox, replies, waits, exec, node>>

PauseAtBoundary(e) ==
  LET r == exec[e].run IN
  /\ Proceeds(e) /\ ~CancelPending(runs[r]) /\ runs[r].pause
  /\ Apply(r, "paused", runs[r], runs[r])
  /\ loop' = Finish(e)
  /\ UNCHANGED <<outbox, replies, waits, exec, node>>

BudgetGate(e) ==
  LET r == exec[e].run IN
  /\ Proceeds(e) /\ ~CancelPending(runs[r]) /\ ~runs[r].pause
  /\ IterationBlocked(runs[r])
  /\ Apply(r, "blocked", runs[r], runs[r])
  /\ loop' = Finish(e)
  /\ UNCHANGED <<outbox, replies, waits, exec, node>>

\* The iteration is counted, the elapsed time recorded, and the coordinator
\* called; the call count is read here and written back after the call.
BeginIteration(e) ==
  LET r == exec[e].run IN
  /\ Proceeds(e) /\ ~CancelPending(runs[r]) /\ ~runs[r].pause
  /\ ~IterationBlocked(runs[r])
  /\ \E late \in BOOLEAN :
       runs' = [runs EXCEPT ![r] =
                  [@ EXCEPT !.iterations = runs[r].iterations + 1, !.late = late]]
  /\ exec' = [exec EXCEPT ![e] = [@ EXCEPT !.pc = "coordinator", !.calls = runs[r].calls]]
  /\ loop' = Free
  /\ UNCHANGED <<missions, outbox, replies, waits, node>>

-------------------------------------------------------------------------------
(* The coordinator's answer and its dispatch.                              *)

\* The await of the coordinator call ends and e holds the loop again.
Answered(e) == LoopFree /\ exec[e].pc = "coordinator"
Resumes(e)  == exec' = [exec EXCEPT ![e].pc = "running"]
\* `run.coordinator_call_count + 1', with the count read before the call.
Counted(e)  == [runs[exec[e].run] EXCEPT !.calls = exec[e].calls + 1]

\* A permanent or quota error blocks at once and burns no budget.
CoordinatorUnusable(e) ==
  LET r == exec[e].run IN
  /\ Answered(e) /\ Resumes(e)
  /\ Apply(r, "blocked", runs[r], runs[r])
  /\ loop' = Finish(e)
  /\ UNCHANGED <<outbox, replies, waits, node>>

\* A failure counts; the streak blocks the run when it reaches the limit.
Failed(run) == [run EXCEPT !.failures = @ + 1, !.calls = @ + 1]
Streaks(e, run, otherwise) ==
  IF run.failures >= MaxConsecutiveFailures
  THEN Apply(exec[e].run, "blocked", run, run) /\ loop' = Finish(e)
  ELSE /\ runs' = [runs EXCEPT ![exec[e].run] = run]
       /\ loop' = otherwise
       /\ UNCHANGED missions

\* A transient error: exponential backoff before the next attempt.
CoordinatorFails(e) ==
  LET failed == Failed(runs[exec[e].run]) IN
  /\ Answered(e)
  /\ Streaks(e, failed, Free)
  /\ exec' = [exec EXCEPT ![e].pc =
                IF failed.failures >= MaxConsecutiveFailures THEN "running" ELSE "backoff"]
  /\ UNCHANGED <<outbox, replies, waits, node>>

BackoffEnds(e) ==
  /\ LoopFree /\ exec[e].pc = "backoff" /\ Resumes(e)
  /\ loop' = Continued(e)
  /\ UNCHANGED <<rows, node>>

\* A decision breaking the mission_control contract: the call was already
\* counted, and is counted a second time.
InvalidDecision(e) ==
  /\ Answered(e) /\ Resumes(e)
  /\ Streaks(e, Failed(Counted(e)), Continued(e))
  /\ UNCHANGED <<outbox, replies, waits, node>>

DecidesComplete(e) ==
  /\ Answered(e) /\ Resumes(e)
  /\ Apply(exec[e].run, "completed", Counted(e), [Counted(e) EXCEPT !.failures = 0])
  /\ loop' = Finish(e)
  /\ UNCHANGED <<outbox, replies, waits, node>>

\* The mission owes its requester a reply: not a failure, the loop goes on.
CompletionRefused(e) ==
  /\ Answered(e) /\ Resumes(e)
  /\ runs' = [runs EXCEPT ![exec[e].run] = Counted(e)]
  /\ loop' = Continued(e)
  /\ UNCHANGED <<missions, outbox, replies, waits, node>>

\* Blocked by the model, by a required tool that was never called, or by a
\* degraded coding sandbox found before the route is entered.
DecidesBlocked(e) ==
  /\ Answered(e) /\ Resumes(e)
  /\ Apply(exec[e].run, "blocked", Counted(e), Counted(e))
  /\ loop' = Finish(e)
  /\ UNCHANGED <<outbox, replies, waits, node>>

\* A wait for something no machine resolves (an operator resumes it).
DecidesWait(e) ==
  /\ Answered(e) /\ Resumes(e)
  /\ Apply(exec[e].run, "waiting", Counted(e), [Counted(e) EXCEPT !.waiting = None])
  /\ loop' = Finish(e)
  /\ UNCHANGED <<outbox, replies, waits, node>>

\* The gates of a route, then the route itself, in its own await.
DecidesRoute(e, t) ==
  LET r == exec[e].run IN
  /\ Answered(e)
  /\ IF RouteBlocked(Counted(e), t) \/ FallbackBlocked(Counted(e), t)
     THEN Apply(r, "blocked", Counted(e), Counted(e)) /\ Resumes(e) /\ loop' = Finish(e)
     ELSE /\ runs' = [runs EXCEPT ![r] = Counted(e)]
          /\ exec' = [exec EXCEPT ![e] = [@ EXCEPT !.pc = "route", !.route = t]]
          /\ UNCHANGED <<missions, loop>>
  /\ UNCHANGED <<outbox, replies, waits, node>>

\* _after_route, on the run as it is then; a schema rejection consumes nothing.
RouteReturns(e, outcome) ==
  LET r == exec[e].run  t == exec[e].route  run == runs[r] IN
  /\ LoopFree /\ exec[e].pc = "route"
  /\ outcome = "rejected" => t = "gnuradio_mcp"
  /\ runs' = [runs EXCEPT ![r] =
       IF outcome = "rejected" THEN run
       ELSE [run EXCEPT !.actions[t] = @ + 1,
                        !.failures = IF outcome = "completed" THEN 0 ELSE @ + 1]]
  /\ exec' = [exec EXCEPT ![e] = [@ EXCEPT !.pc = "running", !.route = None]]
  /\ loop' = Continued(e)
  /\ UNCHANGED <<missions, outbox, replies, waits, node>>

\* A sandbox failure reported by the coding route will not go away: block.
CodingSandboxFails(e) ==
  LET r == exec[e].run
      run == [runs[r] EXCEPT !.actions["coding_agent"] = @ + 1, !.failures = @ + 1] IN
  /\ LoopFree /\ exec[e].pc = "route" /\ exec[e].route = "coding_agent"
  /\ Apply(r, "blocked", run, run)
  /\ exec' = [exec EXCEPT ![e] = [@ EXCEPT !.pc = "running", !.route = None]]
  /\ loop' = Finish(e)
  /\ UNCHANGED <<outbox, replies, waits, node>>

\* The peer_message route has no budget and does not suspend.
SendsPeerMessage(e, q) ==
  LET r == exec[e].run IN
  /\ Answered(e) /\ outbox[q] = None /\ Resumes(e)
  /\ outbox' = [outbox EXCEPT ![q] = r]
  /\ runs' = [runs EXCEPT ![r] = [Counted(e) EXCEPT !.failures = 0]]
  /\ loop' = Continued(e)
  /\ UNCHANGED <<missions, replies, waits, node>>

\* The peer is not trusted, not enabled or not authorized.
PeerMessageRefused(e) ==
  /\ Answered(e) /\ Resumes(e)
  /\ runs' = [runs EXCEPT ![exec[e].run] = [Counted(e) EXCEPT !.failures = @ + 1]]
  /\ loop' = Continued(e)
  /\ UNCHANGED <<missions, outbox, replies, waits, node>>

-------------------------------------------------------------------------------
(* Reply waits (comms/service.py, MissionReplyWaitRepository).             *)

PendingDeadline(q) ==  \* mutant of Pending: waits without a deadline are overlooked
  {w \in WaitIds : waits[w].state = "pending" /\ waits[w].request = q /\ waits[w].deadline}
Pending(q)  == {w \in WaitIds : waits[w].state = "pending" /\ waits[w].request = q}
NewWait(w)  == waits[w].state = "absent" /\ \A v \in 1 .. (w - 1) : waits[v].state # "absent"
PendingOf(m) == {w \in WaitIds : waits[w].state = "pending" /\ waits[w].run[1] = m}

\* prepare_peer_reply_wait: reuse the pending wait of the request, or find the
\* reply already in the inbox, or create the wait; the move to `waiting' is a
\* later transaction of the same coroutine.
DecidesReplyWait(e, q, deadline) ==
  LET r == exec[e].run
      wait == [NoWait EXCEPT !.run = r, !.request = q, !.deadline = deadline] IN
  /\ Answered(e) /\ Resumes(e)
  /\ outbox[q] = r
  /\ runs' = [runs EXCEPT ![r] = Counted(e)]
  /\ \/ /\ Pending(q) # {}
        /\ \E w \in Pending(q) : loop' = At("wait", e, r, w)
        /\ UNCHANGED waits
     \/ /\ Pending(q) = {}
        /\ \E w \in WaitIds :
             /\ NewWait(w)
             /\ IF q \in replies
                THEN /\ waits' = [waits EXCEPT ![w] =
                                    [wait EXCEPT !.state = "satisfied", !.resume = "inline"]]
                     /\ loop' = Continued(e)
                ELSE /\ waits' = [waits EXCEPT ![w] = [wait EXCEPT !.state = "pending"]]
                     /\ loop' = At("wait", e, r, w)
  /\ UNCHANGED <<missions, outbox, replies, node>>

EnterWaiting ==
  /\ loop.do = "wait"
  /\ Apply(loop.r, "waiting", runs[loop.r],
           [runs[loop.r] EXCEPT !.waiting = waits[loop.w].request])
  /\ loop' = Finish(loop.e)
  /\ UNCHANGED <<outbox, replies, waits, exec, node>>

\* A correlated reply is stored in the inbox; a pending wait is satisfied next.
ReplyArrives(q) ==
  /\ Serving /\ outbox[q] # None
  /\ replies' = replies \cup {q}
  /\ IF Pending(q) = {} THEN loop' = Free
     ELSE \E w \in Pending(q) : loop' = At("satisfy", None, None, w)
  /\ UNCHANGED <<missions, runs, outbox, waits, exec, node>>

SatisfyOnly ==  \* mutant of SatisfyWait: nobody resumes the mission
  /\ loop.do = "satisfy"
  /\ waits' = [waits EXCEPT ![loop.w].state = "satisfied"]
  /\ loop' = Free
  /\ UNCHANGED <<missions, runs, outbox, replies, exec, node>>
SatisfyWait ==
  /\ loop.do = "satisfy"
  /\ waits' = [waits EXCEPT ![loop.w].state = "satisfied"]
  /\ loop' = At("claim", None, None, loop.w)
  /\ UNCHANGED <<missions, runs, outbox, replies, exec, node>>

DueInAnyState(w) == waits[w].state # "absent" /\ waits[w].deadline  \* mutant of Due
Due(w) == waits[w].state = "pending" /\ waits[w].deadline
\* The poll loop and the startup recovery time out a wait past its deadline.
TimeOutWait(w) ==
  /\ node \in {"starting", "ready"} /\ LoopFree /\ Due(w)
  /\ waits' = [waits EXCEPT ![w].state = "timed_out"]
  /\ loop' = At("claim", None, None, w)
  /\ UNCHANGED <<missions, runs, outbox, replies, exec, node>>

\* Startup recovery takes up a resume that nobody has claimed.
Unresumed(w) == waits[w].state \in {"satisfied", "timed_out"} /\ waits[w].resume = "none"
RecoverWait(w) ==
  /\ node = "starting" /\ LoopFree /\ Unresumed(w)
  /\ loop' = At("claim", None, None, w)
  /\ UNCHANGED <<rows, exec, node>>

\* _requeue_mission: the resume is claimed, then, in a second transaction, the
\* mission is queued if it is waiting, together with the run of the wait.
ClaimResume ==
  /\ loop.do = "claim"
  /\ IF waits[loop.w].resume = "none"
     THEN /\ waits' = [waits EXCEPT ![loop.w].resume = "queued"]
          /\ loop' = At("requeue", None, None, loop.w)
     ELSE loop' = Free /\ UNCHANGED waits
  /\ UNCHANGED <<missions, runs, outbox, replies, exec, node>>

RequeueRunOnly ==  \* mutant of Requeue: the mission row is forgotten
  LET r == waits[loop.w].run IN
  /\ loop.do = "requeue"
  /\ runs' = IF missions[r[1]] = "waiting"
             THEN [runs EXCEPT ![r] = [@ EXCEPT !.status = "queued", !.waiting = None]] ELSE runs
  /\ loop' = Free
  /\ UNCHANGED <<missions, outbox, replies, waits, exec, node>>
Requeue ==
  LET r == waits[loop.w].run IN
  /\ loop.do = "requeue"
  /\ IF missions[r[1]] = "waiting"
     THEN /\ missions' = [missions EXCEPT ![r[1]] = "queued"]
          /\ runs' = [runs EXCEPT ![r] = [@ EXCEPT !.status = "queued", !.waiting = None]]
     ELSE UNCHANGED <<missions, runs>>
  /\ loop' = Free
  /\ UNCHANGED <<outbox, replies, waits, exec, node>>

\* POST /missions/{id}/reply-waits/{wait}/cancel: the wait only.
CancelWait(w) ==
  /\ Serving /\ waits[w].state = "pending"
  /\ waits' = [waits EXCEPT ![w].state = "cancelled"]
  /\ UNCHANGED <<missions, runs, outbox, replies, exec, loop, node>>

-------------------------------------------------------------------------------
(* Operator requests (missions/worker.py).                                 *)

\* Enqueue's first transaction creates a run unless a live one exists, its
\* second queues mission and run; e is the run-step call that needs them.
CreateRun(m, e) ==
  /\ \E r \in Runs :
       /\ NextRun(m, r)
       /\ runs' = [runs EXCEPT ![r] = FreshRun]
       /\ loop' = At("queue", e, r, 0)
  /\ UNCHANGED <<missions, outbox, replies, waits, exec, node>>

StartMission(m) ==
  /\ Serving
  /\ \/ /\ Current(m) # None
        /\ loop' = At("queue", None, Current(m), 0)
        /\ UNCHANGED <<rows, exec, node>>
     \/ Current(m) = None /\ missions[m] \notin Terminal /\ CreateRun(m, None)

Queue ==
  /\ loop.do = "queue"
  /\ Apply(loop.r, "queued", runs[loop.r], runs[loop.r])
  /\ loop' = IF loop.e = None THEN Free ELSE At("step", loop.e, loop.r, 0)
  /\ UNCHANGED <<outbox, replies, waits, exec, node>>

\* Only a blocked or failed mission without a live run; the mission is queued
\* first and the fresh run enqueued in a later transaction.
RetryMission(m) ==
  /\ Serving /\ Current(m) = None /\ missions[m] \in {"blocked", "failed"}
  /\ missions' = [missions EXCEPT ![m] = "queued"]
  /\ \E r \in Runs : NextRun(m, r) /\ loop' = At("retry", None, r, 0)
  /\ UNCHANGED <<runs, outbox, replies, waits, exec, node>>

EnqueueRetry == loop.do = "retry" /\ CreateRun(loop.r[1], None)

PauseMission(m) ==
  LET r == Current(m) IN
  /\ Serving /\ r # None
  /\ runs' = [runs EXCEPT ![r].pause = TRUE]
  /\ loop' = IF HasTask(m) THEN Free ELSE At("pause", None, r, 0)
  /\ UNCHANGED <<missions, outbox, replies, waits, exec, node>>

PauseDirectly ==
  /\ loop.do = "pause"
  /\ Apply(loop.r, "paused", runs[loop.r], runs[loop.r])
  /\ loop' = Free
  /\ UNCHANGED <<outbox, replies, waits, exec, node>>

ResumeMission(m) ==
  LET r == Latest(m) IN
  /\ Serving /\ r # None /\ runs[r].status \in {"paused", "waiting"}
  /\ Apply(r, "queued", runs[r], [runs[r] EXCEPT !.pause = FALSE, !.waiting = None])
  /\ UNCHANGED <<outbox, replies, waits, exec, loop, node>>

CancelMission(m) ==
  LET r == Current(m) IN
  /\ Serving /\ r # None
  /\ runs' = [runs EXCEPT ![r].cancelReq = TRUE]
  /\ loop' = IF HasTask(m) THEN Free ELSE At("ack", None, r, 0)
  /\ UNCHANGED <<missions, outbox, replies, waits, exec, node>>

AcknowledgeDirectly ==
  /\ loop.do = "ack"
  /\ runs' = [runs EXCEPT ![loop.r].cancelAck = TRUE]
  /\ loop' = At("cancel", None, loop.r, 0)
  /\ UNCHANGED <<missions, outbox, replies, waits, exec, node>>

\* Both cancellation paths end with these two transactions.
CancelDone(e) == IF e = None THEN Free ELSE Finish(e)

MoveToCancelled ==
  /\ loop.do = "cancel"
  /\ Apply(loop.r, "cancelled", runs[loop.r], runs[loop.r])
  /\ loop' = IF Applies(loop.r, "cancelled") THEN [loop EXCEPT !.do = "cancel_waits"]
             ELSE CancelDone(loop.e)
  /\ UNCHANGED <<outbox, replies, waits, exec, node>>

CancelMissionWaits ==
  /\ loop.do = "cancel_waits"
  /\ waits' = [w \in WaitIds |-> IF w \in PendingOf(loop.r[1])
                                 THEN [waits[w] EXCEPT !.state = "cancelled"] ELSE waits[w]]
  /\ loop' = CancelDone(loop.e)
  /\ UNCHANGED <<missions, runs, outbox, replies, exec, node>>

\* One iteration in the caller's own coroutine, outside the worker pool.
RunOneStep(c, m) ==
  /\ Serving /\ exec[c].pc = "idle" /\ ~HasTask(m)
  /\ \/ Current(m) # None /\ Acquire(c, Current(m))
     \/ Current(m) = None /\ missions[m] \notin Terminal /\ CreateRun(m, c)

StepAcquires == loop.do = "step" /\ Acquire(loop.e, loop.r)

-------------------------------------------------------------------------------
(* The process: startup recovery, graceful shutdown, crash.                *)

\* recover(): every active run without a live lease is queued with its mission.
RecoverableExpired(r) ==  \* mutant of Recoverable: a cleared lease is overlooked
  runs[r].status = "active" /\ runs[r].lease = "expired"
Recoverable(r) == runs[r].status = "active" /\ runs[r].lease # "live"

StartWorkers ==
  /\ node = "down"
  /\ node' = "starting"
  /\ runs' = [r \in Runs |->
       IF Recoverable(r)
       THEN [runs[r] EXCEPT !.status = "queued", !.lease = "none", !.token = "none",
                            !.pause = FALSE]
       ELSE runs[r]]
  /\ missions' = [m \in Missions |->
       IF \E r \in Runs : r[1] = m /\ Recoverable(r) THEN "queued" ELSE missions[m]]
  /\ UNCHANGED <<outbox, replies, waits, exec, loop>>

\* comms.recover() has taken up every unclaimed resume; the API opens.
BecomeReady ==
  /\ node = "starting" /\ LoopFree /\ \A w \in WaitIds : ~Unresumed(w)
  /\ node' = "ready"
  /\ UNCHANGED <<rows, exec, loop>>

\* The HTTP server drains its requests before the lifespan hook shuts down.
BeginShutdown ==
  /\ "shutdown" \in Faults /\ Serving /\ \A c \in Callers : exec[c].pc = "idle"
  /\ node' = "stopping"
  /\ UNCHANGED <<rows, exec, loop>>

\* A task that outlives the grace period is cancelled in its await.
CancelTask(m) ==
  /\ node = "stopping" /\ LoopFree /\ exec[m].pc \in Suspended
  /\ exec' = [exec EXCEPT ![m] = [@ EXCEPT !.pc = "winddown", !.route = None]]
  /\ UNCHANGED <<rows, loop, node>>

Stopped ==
  /\ node = "stopping" /\ LoopFree /\ \A e \in Executors : exec[e].pc = "idle"
  /\ node' = "down"
  /\ UNCHANGED <<rows, exec, loop>>

\* Memory is lost, rows are kept; no later executor knows the tokens on them.
Crash ==
  /\ "crash" \in Faults /\ node # "down"
  /\ node' = "down"
  /\ exec' = [e \in Executors |-> Idle]
  /\ loop' = Free
  /\ runs' = [r \in Runs |-> IF runs[r].token \in Executors
                             THEN [runs[r] EXCEPT !.token = "dead"] ELSE runs[r]]
  /\ UNCHANGED <<missions, outbox, replies, waits>>

-------------------------------------------------------------------------------
Init ==
  /\ missions = [m \in Missions |-> "received"]
  /\ runs = [r \in Runs |-> NoRun]
  /\ outbox = [q \in Requests |-> None]
  /\ replies = {}
  /\ waits = [w \in WaitIds |-> NoWait]
  /\ exec = [e \in Executors |-> Idle]
  /\ loop = Free
  /\ node = "ready"

\* What the coroutine holding the event loop does next.
LoopStep ==
  \/ MissionActive \/ EndRun \/ EnterWaiting
  \/ SatisfyWait \/ ClaimResume \/ Requeue
  \/ Queue \/ EnqueueRetry \/ StepAcquires
  \/ PauseDirectly \/ AcknowledgeDirectly \/ MoveToCancelled \/ CancelMissionWaits
  \/ \E e \in Executors :
       \/ IterationStopped(e) \/ AcknowledgeCancel(e) \/ PauseAtBoundary(e)
       \/ BudgetGate(e) \/ BeginIteration(e)

\* An await of an iteration ends.
Answer(e) ==
  \/ CoordinatorUnusable(e) \/ CoordinatorFails(e) \/ InvalidDecision(e)
  \/ DecidesComplete(e) \/ CompletionRefused(e) \/ DecidesBlocked(e) \/ DecidesWait(e)
  \/ \E t \in CappedRoutes : DecidesRoute(e, t)
  \/ \E q \in Requests : SendsPeerMessage(e, q)
  \/ \E q \in Requests, deadline \in BOOLEAN : DecidesReplyWait(e, q, deadline)
  \/ Requests # {} /\ PeerMessageRefused(e)

RouteAnswer(e) ==
  \/ \E outcome \in {"completed", "failed", "rejected"} : RouteReturns(e, outcome)
  \/ CodingSandboxFails(e)

Worker ==
  \/ \E r \in Runs : Schedule(r) \/ LeaseExpires(r)
  \/ \E m \in Missions : BeginTask(m) \/ WindDown(m) \/ HeartbeatLost(m)
  \/ \E e \in Executors : Answer(e) \/ RouteAnswer(e) \/ BackoffEnds(e)

Peer == \E q \in Requests : ReplyArrives(q)
Deadline == \E w \in WaitIds : TimeOutWait(w)

Operator ==
  \/ \E m \in Missions :
       \/ StartMission(m) \/ RetryMission(m) \/ PauseMission(m)
       \/ ResumeMission(m) \/ CancelMission(m)
       \/ \E c \in Callers : RunOneStep(c, m)
  \/ \E w \in WaitIds : CancelWait(w)

Process ==
  \/ StartWorkers \/ BecomeReady \/ BeginShutdown \/ Stopped \/ Crash
  \/ \E w \in WaitIds : RecoverWait(w)
  \/ \E m \in Missions : CancelTask(m)

Next == LoopStep \/ Worker \/ Peer \/ Deadline \/ Operator \/ Process

Spec == Init /\ [][Next]_vars

\* asyncio runs its ready queue first come first served: a coroutine that may
\* run is not overtaken for ever by others, hence strong fairness for whatever
\* needs the loop to be free.  Every await ends: coordinator calls and routes
\* have timeouts, the poll loop's period is finite.  Peers and operators owe
\* nothing, and no fault has to happen.  The steps of one executor exclude each
\* other, as do those of the process, so one condition stands for all of them.
ExecutorStep(e) ==
  \/ Answer(e) \/ RouteAnswer(e) \/ BackoffEnds(e)
  \/ \E r \in Runs : r[1] = e /\ Schedule(r)
  \/ e \in Missions /\ (BeginTask(e) \/ WindDown(e) \/ CancelTask(e))

Fairness ==
  /\ WF_vars(LoopStep)
  /\ \A e \in Executors : SF_vars(ExecutorStep(e))
  /\ \A w \in WaitIds : SF_vars(TimeOutWait(w) \/ RecoverWait(w))
  /\ SF_vars(StartWorkers \/ BecomeReady \/ Stopped)

FairSpec == Spec /\ Fairness

-------------------------------------------------------------------------------
\* Every variable stays within the values the rows and the event loop can hold.
RunRow ==
  [status : RunStatus, lease : LeaseStates, token : Tokens,
   pause : BOOLEAN, cancelReq : BOOLEAN, cancelAck : BOOLEAN,
   waiting : Requests \cup {None}, iterations : Nat, calls : Nat, failures : Nat,
   actions : [CappedRoutes -> Nat], late : BOOLEAN]

WaitRow ==
  [state : WaitStates, run : Runs \cup {None}, request : Requests \cup {None},
   deadline : BOOLEAN, resume : {"none", "queued", "inline"}]

ExecRow ==
  [pc : ExecStates, run : Runs \cup {None}, route : CappedRoutes \cup {None},
   calls : Nat, lost : BOOLEAN]

LoopRow ==
  [do : {"free", "iterate", "finish", "acquired", "cancel", "cancel_waits", "wait",
         "satisfy", "claim", "requeue", "queue", "retry", "step", "pause", "ack"},
   e : Executors \cup {None}, r : Runs \cup {None}, w : 0 .. MaxWaits]

TypeOK ==
  /\ missions \in [Missions -> MissionStatus]
  /\ runs \in [Runs -> RunRow]
  /\ outbox \in [Requests -> Runs \cup {None}]
  /\ replies \subseteq Requests
  /\ waits \in [WaitIds -> WaitRow]
  /\ exec \in [Executors -> ExecRow]
  /\ loop \in LoopRow
  /\ node \in {"down", "starting", "ready", "stopping"}

-------------------------------------------------------------------------------
(* Properties.                                                             *)

Settled == LoopFree /\ node = "ready"

\* The mission row and the row of its newest run show the same status whenever
\* the event loop is free, although every handler writes them in two or more
\* transactions (_acquire, enqueue_mission, retry_mission, _apply_transition).
RowsAgree ==
  Settled => \A m \in Missions :
               Latest(m) # None => runs[Latest(m)].status = missions[m]

\* No run stays active with nobody executing it: a stopped worker, a cancelled
\* task and a restart leave runs that the poll loop or recover() takes up again.
NoOrphanRun ==
  Settled => \A r \in Runs : runs[r].status = "active" =>
               \E e \in Executors : exec[e].run = r /\ exec[e].pc # "idle"

\* A mission whose own row is terminal has no run that could still execute: the
\* two rows are moved together, and a crash never separates them in that way
\* (_apply_transition, retry_mission, recover).
TerminalMissionStopped ==
  \A m \in Missions : missions[m] \in Terminal => Current(m) = None

\* The runaway limits of budgets.py hold for every run, across restarts and
\* resumes: no iteration and no route begins beyond them.  A decision that
\* breaks the contract is counted twice, so calls may pass their limit by one.
BudgetRespected ==
  \A r \in Runs :
    /\ runs[r].iterations <= MaxIterations
    /\ runs[r].calls <= MaxCoordinatorCalls + 1
    /\ runs[r].failures <= MaxConsecutiveFailures
    /\ \A t \in CappedRoutes : runs[r].actions[t] <= RouteLimit[t]

\* The iteration budget of run_iteration bounds every run, whoever executes it
\* (worker or run-step call) and however often it is paused, resumed, requeued
\* by a reply, or recovered after a crash.
IterationBudget == \A r \in Runs : runs[r].iterations <= MaxIterations

CallsCoordinator(e) == exec[e].pc # "coordinator" /\ exec'[e].pc = "coordinator"

\* Once a cancellation is acknowledged the coordinator is not called again
\* (engine.run_iteration, cancel_mission).
NoCallAfterAcknowledgement ==
  [][\A e \in Executors : CallsCoordinator(e) => ~runs[exec'[e].run].cancelAck]_vars

\* The coordinator is only called for a mission whose own row is active: never
\* for one that has been cancelled, paused or completed meanwhile.
NoCallForInactiveMission ==
  [][\A e \in Executors : CallsCoordinator(e) => missions[exec'[e].run[1]] = "active"]_vars

\* A terminal run is never moved again, by any handler ("terminal states never
\* silently reopen").
Reopened(r) == runs[r].status \in Terminal /\ runs'[r].status # runs[r].status
TerminalRunFinal == [][\A r \in Runs : ~Reopened(r)]_vars

\* _requeue_mission is the only handler of the whole system that can reopen a
\* terminal run: it writes the run row of the wait without validating its move.
OnlyRequeueReopens == [][\A r \in Runs : Reopened(r) => loop.do = "requeue"]_vars

\* A request of the operator to cancel is never left without an executor or a
\* queue entry that will honour it.
CancelWillBeHonoured ==
  Settled => \A r \in Runs :
    CancelPending(runs[r]) /\ runs[r].status \notin Terminal
      => HasTask(r[1]) \/ runs[r].status = "queued"

\* No wake-up is lost between storing a reply, satisfying a wait and queueing the
\* mission: a mission that waits has a run that waits, and if it does so for a
\* reply, the newest wait for that reply is this run's own and is one that the
\* reply, its deadline or the operator still resolves, or one the operator
\* cancelled.  That holds also when a late resume has reopened an earlier run.
WaitsFor(q) == {w \in WaitIds : waits[w].state # "absent" /\ waits[w].request = q}
WillBeWoken(r) ==
  LET q == runs[r].waiting IN
  q \in Requests => \E w \in WaitsFor(q) :
    /\ waits[w].run = r /\ \A v \in WaitsFor(q) : v <= w
    /\ waits[w].state = "cancelled" \/ (waits[w].state = "pending" /\ q \notin replies)
NoLostWakeup ==
  Settled => \A m \in Missions : missions[m] = "waiting" =>
    \E r \in RunsOf(m) : runs[r].status = "waiting" /\ WillBeWoken(r)

\* A resume that was claimed is carried out: no mission goes on waiting for a
\* reply whose wait is over.
ResumeFinished ==
  Settled => \A w \in WaitIds : waits[w].resume = "queued" =>
    \/ missions[waits[w].run[1]] # "waiting"
    \/ runs[waits[w].run].waiting # waits[w].request
    \/ \E v \in WaitsFor(waits[w].request) : v > w

\* A request has at most one pending wait, so a reply resolves all there is to
\* resolve: an iteration that waits again for it reuses the row.
OnePendingWait == 
  \A v, w \in WaitIds :
    waits[v].state = "pending" /\ waits[w].state = "pending"
      /\ waits[v].request = waits[w].request => v = w

\* A reply, a deadline and an operator race for a pending wait: whichever comes
\* first resolves it, and the late ones change nothing, across crashes too.
ResolvedWaitFinal ==
  [][\A w \in WaitIds : waits[w].state \notin {"absent", "pending"} =>
       /\ waits'[w].state = waits[w].state
       /\ waits[w].resume # "none" => waits'[w].resume = waits[w].resume]_vars

\* Nothing runs for ever: a mission that is queued or active comes to rest, for
\* its budgets run out if nothing else stops it; only a node that is shut down
\* again and again may keep it from that.
MissionSettles ==
  <>[](node = "ready") =>
    \A m \in Missions :
      missions[m] \in {"queued", "active"} ~> missions[m] \in {"waiting", "paused"} \cup Terminal

\* A mission waiting for a reply with a deadline is woken, reply or no reply.
WaitsUntilDeadline(m, w) ==
  missions[m] = "waiting" /\ waits[w].state = "pending" /\ waits[w].deadline
    /\ waits[w].run[1] = m
WaitEnds ==
  \A m \in Missions, w \in WaitIds :
    WaitsUntilDeadline(m, w) ~> (missions[m] # "waiting" \/ waits[w].state = "cancelled")

\* A graceful shutdown ends although tasks sit in awaits.
ShutdownEnds == node = "stopping" ~> node = "down"
===============================================================================
