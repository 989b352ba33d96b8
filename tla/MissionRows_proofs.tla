--------------------------- MODULE MissionRows_proofs ---------------------------
(***************************************************************************)
(* Proofs about the rows of a mission and of its runs, which the handlers  *)
(* of MissionExecution write in separate transactions: that the budgets    *)
(* hold, that no wake-up of a waiting mission is lost and, as long as no   *)
(* resume comes late (NoLateResume), that the rows agree whenever the      *)
(* event loop is free and no run is left without an executor.  The         *)
(* theorems are about a node on which nobody calls run-step                *)
(* (Callers = {}): the workers are then the only executors, one for each   *)
(* mission.                                                                *)
(***************************************************************************)
EXTENDS MissionExecution_proofs

HasRow(r) == runs[r].status # "absent"
Live(r)   == HasRow(r) /\ runs[r].status \notin Terminal
\* r is the newest run of its mission.
IsTop(r)  == HasRow(r) /\ \A k \in Runs : k[1] = r[1] /\ HasRow(k) => k[2] <= r[2]

-------------------------------------------------------------------------------
(* What a step does to the rows and to the executors.                      *)

SameStatus == missions' = missions /\ \A r \in Runs : runs'[r].status = runs[r].status

\* The two rows are moved together to t, or neither is (_apply_transition).
Applied(r, t) ==
  /\ missions' = IF Applies(r, t) THEN [missions EXCEPT ![r[1]] = t] ELSE missions
  /\ \A s \in Runs : runs'[s].status = IF s = r /\ Applies(r, t) THEN t ELSE runs[s].status

LeaseKept(run, new) == /\ new.cancelAck = run.cancelAck /\ new.token = run.token
                       /\ new.lease = run.lease
CountKept(run, new) == /\ new.calls = run.calls /\ new.failures = run.failures
                       /\ new.actions = run.actions
SameLeases == \A r \in Runs : LeaseKept(runs[r], runs'[r])
SameCounts == \A r \in Runs : CountKept(runs[r], runs'[r])

OthersKept(r)  == \A s \in Runs : s # r => runs'[s] = runs[s]
OnlyExec(m) == /\ exec'[m].run = exec[m].run /\ exec'[m].lost = exec[m].lost
               /\ \A e \in Executors : e # m => exec'[e] = exec[e]

\* The budgets of a run, and what is left of them for its executor x: the call
\* it is making, or the route it has entered, is within the limits.
WithinBudget(run) ==
  /\ run.calls <= MaxCoordinatorCalls + 1
  /\ run.failures <= MaxConsecutiveFailures
  /\ \A t \in CappedRoutes : run.actions[t] <= RouteLimit[t]
MaySpend(x, run) ==
  /\ x.pc = "coordinator" => /\ run.calls = x.calls /\ x.calls < MaxCoordinatorCalls
                             /\ run.failures < MaxConsecutiveFailures
  /\ x.pc = "route" => /\ run.failures < MaxConsecutiveFailures
                       /\ run.actions[x.route] < RouteLimit[x.route]
Spends(m) ==
  LET r == exec[m].run IN
  WithinBudget(runs[r]) /\ MaySpend(exec[m], runs[r]) =>
    WithinBudget(runs'[r]) /\ MaySpend(exec'[m], runs'[r])

\* A worker calls the coordinator; goes on from its answer to another await; has
\* the loop again for another turn; awaits a reply; ends.
Begins(m) ==
  /\ loop.do = "iterate" /\ loop.e = m /\ runs[exec[m].run].status = "active"
  /\ SameStatus /\ loop' = Free /\ exec'[m].pc = "coordinator"
Suspends(m) ==
  /\ LoopFree /\ exec[m].pc = "coordinator"
  /\ SameStatus /\ loop' = Free /\ exec'[m].pc \in {"backoff", "route"}
GoesRound(m) ==
  /\ LoopFree /\ exec[m].pc \in Suspended
  /\ SameStatus /\ loop' = Iterate(m) /\ exec'[m].pc = "running"
AwaitsReply(m) ==
  /\ LoopFree /\ exec[m].pc = "coordinator"
  /\ SameStatus /\ (\E w \in WaitIds : loop' = At("wait", m, exec[m].run, w))
  /\ exec'[m].pc = "running"
Ends(m) ==
  /\ \/ LoopFree /\ exec[m].pc \in Suspended
     \/ loop.do = "iterate" /\ loop.e = m /\ runs[exec[m].run].status = "active"
  /\ \E t \in {"blocked", "completed", "waiting", "paused"} : Applied(exec[m].run, t)
  /\ loop' = Finish(m) /\ exec'[m].pc = "running"

Works(m) ==
  /\ OnlyExec(m) /\ OthersKept(exec[m].run) /\ SameLeases /\ Spends(m) /\ node' = node
  /\ Begins(m) \/ Suspends(m) \/ GoesRound(m) \/ AwaitsReply(m) \/ Ends(m)
  /\ exec[m].pc # "idle"

-------------------------------------------------------------------------------
(* The steps of a worker on its run.                                       *)

\* One run row is written.
LEMMA OneRow ==
  ASSUME TypeInv, NEW r \in Runs, NEW y, runs' = [runs EXCEPT ![r] = y]
  PROVE  runs'[r] = y /\ OthersKept(r)
  BY DEF TypeInv, TypeOK, OthersKept

\* The columns of a row whose status is moved.
LEMMA StatusColumn ==
  ASSUME NEW run \in RunRow, NEW t
  PROVE  /\ [run EXCEPT !.status = t].status = t
         /\ LeaseKept(run, [run EXCEPT !.status = t])
         /\ CountKept(run, [run EXCEPT !.status = t])
  BY DEF RunRow, LeaseKept, CountKept

\* A move of mission and run leaves the lease and takes one of the two rows.
LEMMA ApplyEffect ==
  ASSUME TypeInv, NEW r \in Runs, NEW t \in MissionStatus, NEW run \in RunRow,
         NEW moved \in RunRow, Apply(r, t, run, moved), run.status = runs[r].status,
         LeaseKept(runs[r], run), LeaseKept(runs[r], moved)
  PROVE  /\ Applied(r, t) /\ OthersKept(r) /\ SameLeases
         /\ CountKept(run, runs'[r]) \/ CountKept(moved, runs'[r])
<1> DEFINE y == IF Applies(r, t) THEN [moved EXCEPT !.status = t] ELSE run
<1>1. runs' = [runs EXCEPT ![r] = y]
  BY DEF Apply
<1>2. runs'[r] = y /\ OthersKept(r)
  BY <1>1, OneRow
<1>3. /\ y.status = IF Applies(r, t) THEN t ELSE runs[r].status
      /\ LeaseKept(runs[r], y)
      /\ CountKept(run, y) \/ CountKept(moved, y)
  <2>1. CASE Applies(r, t)
    BY <2>1, StatusColumn DEF LeaseKept
  <2>2. CASE ~Applies(r, t)
    BY <2>2 DEF CountKept
  <2>3. QED BY <2>1, <2>2
<1> HIDE DEF y
<1>4. Applied(r, t)
  BY <1>2, <1>3 DEF Apply, Applied, OthersKept
<1>5. SameLeases
  BY <1>2, <1>3 DEF SameLeases, OthersKept, LeaseKept
<1>6. QED BY <1>2, <1>3, <1>4, <1>5

\* A row with the counts of one that is within the budgets is within them.
LEMMA BudgetOfCounts ==
  ASSUME NEW run, NEW new, CountKept(run, new)
  PROVE  /\ WithinBudget(run) => WithinBudget(new)
         /\ \A x : MaySpend(x, run) => MaySpend(x, new)
  BY DEF CountKept, WithinBudget, MaySpend

\* The rows an answer writes keep status and lease, and what they count is
\* within the budgets if the call was.
LEMMA AnswerRowsKept ==
  ASSUME TypeInv, NEW e \in Executors, exec[e].pc = "coordinator"
  PROVE  \A run \in AnswerRows(e) \cup {runs[exec[e].run]} :
           /\ run \in RunRow
           /\ run.status = runs[exec[e].run].status
           /\ LeaseKept(runs[exec[e].run], run)
           /\ WithinBudget(runs[exec[e].run]) /\ MaySpend(exec[e], runs[exec[e].run])
                => WithinBudget(run)
<1> DEFINE r == exec[e].run
           was == runs[r]
           Fits == WithinBudget(was) /\ MaySpend(exec[e], was)
           Good(run) == /\ run \in RunRow /\ run.status = was.status
                        /\ LeaseKept(was, run) /\ (Fits => WithinBudget(run))
<1>1. /\ r \in Runs /\ was \in RunRow /\ exec[e].calls \in Nat
      /\ was.calls \in Nat /\ was.failures \in Nat
  <2>1. r \in Runs /\ was \in RunRow
    BY CountedType
  <2>2. exec[e] \in ExecRow
    BY DEF TypeInv, TypeOK
  <2>3. QED BY <2>1, <2>2 DEF RunRow, ExecRow
<1>2. \A run \in AnswerRows(e) \cup {was} : run \in RunRow /\ run.status = was.status
  BY CountedKept
<1>3. ASSUME NEW run, run \in RunRow, run.status = was.status, LeaseKept(was, run),
             run.actions = was.actions,
             Fits => run.calls <= MaxCoordinatorCalls + 1 /\ run.failures <= MaxConsecutiveFailures
      PROVE  Good(run)
  BY <1>3 DEF WithinBudget
<1>4. Fits => /\ was.calls = exec[e].calls /\ exec[e].calls < MaxCoordinatorCalls
              /\ was.failures < MaxConsecutiveFailures
  BY DEF MaySpend
<1> DEFINE c == Counted(e)
<1>5. /\ c \in RunRow /\ c.failures \in Nat /\ c.calls = exec[e].calls + 1
      /\ c.failures = was.failures /\ c.actions = was.actions /\ LeaseKept(was, c)
  <2>1. c \in RunRow
    BY <1>2 DEF AnswerRows
  <2>2. QED BY <1>1, <2>1 DEF Counted, RunRow, LeaseKept
<1> HIDE DEF c, was, Fits
<1>6. Good(was)
  BY <1>1, <1>2 DEF LeaseKept, Fits
<1>7. Good(c)
  BY <1>1, <1>2, <1>3, <1>4, <1>5, BoundsAssumption DEF AnswerRows, c
<1>9. Good([c EXCEPT !.failures = 0])
  <2> DEFINE y == [c EXCEPT !.failures = 0]
  <2>1. y \in RunRow /\ y.status = was.status
    BY <1>2 DEF AnswerRows, c
  <2>2. LeaseKept(was, y) /\ y.actions = was.actions /\ y.calls = exec[e].calls + 1 /\ y.failures = 0
    BY <1>5 DEF RunRow, LeaseKept
  <2> HIDE DEF y
  <2>3. Good(y)
    BY <1>1, <1>3, <1>4, <2>1, <2>2, BoundsAssumption
  <2>4. QED BY <2>3 DEF y
<1>10. Good([c EXCEPT !.failures = c.failures + 1])
  <2> DEFINE y == [c EXCEPT !.failures = c.failures + 1]
  <2>1. y \in RunRow /\ y.status = was.status
    BY <1>2 DEF AnswerRows, c
  <2>2. /\ LeaseKept(was, y) /\ y.actions = was.actions
        /\ y.calls = exec[e].calls + 1 /\ y.failures = c.failures + 1
    BY <1>5 DEF RunRow, LeaseKept
  <2> HIDE DEF y
  <2>3. Good(y)
    BY <1>1, <1>3, <1>4, <1>5, <2>1, <2>2, BoundsAssumption
  <2>4. QED BY <2>3 DEF y
<1>11. Good([c EXCEPT !.waiting = None])
  <2> DEFINE y == [c EXCEPT !.waiting = None]
  <2>1. y \in RunRow /\ y.status = was.status
    BY <1>2 DEF AnswerRows, c
  <2>2. CountKept(c, y) /\ LeaseKept(was, y)
    BY <1>5 DEF RunRow, CountKept, LeaseKept
  <2> HIDE DEF y
  <2>3. Good(y)
    BY <1>1, <1>3, <1>4, <1>5, <2>1, <2>2, BoundsAssumption DEF CountKept
  <2>4. QED BY <2>3 DEF y
<1>12. Good(Failed(c))
  <2> DEFINE y == Failed(c)
  <2>1. y \in RunRow /\ y.status = was.status
    BY <1>2 DEF AnswerRows, c
  <2>2. /\ LeaseKept(was, y) /\ y.actions = was.actions
        /\ y.calls = c.calls + 1 /\ y.failures = c.failures + 1
    BY <1>5 DEF Failed, RunRow, LeaseKept
  <2> HIDE DEF y
  <2>3. Good(y)
    BY <1>1, <1>3, <1>4, <1>5, <2>1, <2>2, BoundsAssumption
  <2>4. QED BY <2>3 DEF y
<1>13. Good(Failed(was))
  <2> DEFINE y == Failed(was)
  <2>1. y \in RunRow /\ y.status = was.status
    BY <1>2 DEF AnswerRows, was, r
  <2>2. /\ LeaseKept(was, y) /\ y.actions = was.actions
        /\ y.calls = was.calls + 1 /\ y.failures = was.failures + 1
    BY <1>1 DEF Failed, RunRow, LeaseKept
  <2> HIDE DEF y
  <2>3. Good(y)
    BY <1>1, <1>3, <1>4, <2>1, <2>2, BoundsAssumption
  <2>4. QED BY <2>3 DEF y
<1> HIDE DEF Good
<1>14. \A run \in AnswerRows(e) \cup {was} : Good(run)
  BY <1>6, <1>7, <1>9, <1>10, <1>11, <1>12, <1>13 DEF AnswerRows, c, was, r
<1>15. QED BY <1>14 DEF Good, was, Fits, r

\* Only executor e changes, and it stays on its run.
LEMMA ResumesEffect ==
  ASSUME TypeInv, NEW e \in Executors,
         \/ exec' = [exec EXCEPT ![e].pc = "running"]
         \/ exec' = [exec EXCEPT ![e] = [@ EXCEPT !.pc = "running", !.route = None]]
  PROVE  OnlyExec(e) /\ exec'[e].pc = "running"
<1>1. exec[e] \in ExecRow
  BY DEF TypeInv, TypeOK
<1>2. CASE exec' = [exec EXCEPT ![e].pc = "running"]
  <2> DEFINE x == [exec[e] EXCEPT !.pc = "running"]
  <2>1. x.pc = "running" /\ x.run = exec[e].run /\ x.lost = exec[e].lost
    BY <1>1 DEF ExecRow
  <2>2. exec' = [exec EXCEPT ![e] = x]
    BY <1>2
  <2> HIDE DEF x
  <2>3. QED BY <2>1, <2>2 DEF OnlyExec, TypeInv, TypeOK
<1>3. CASE exec' = [exec EXCEPT ![e] = [@ EXCEPT !.pc = "running", !.route = None]]
  <2> DEFINE x == [exec[e] EXCEPT !.pc = "running", !.route = None]
  <2>1. x.pc = "running" /\ x.run = exec[e].run /\ x.lost = exec[e].lost
    BY <1>1 DEF ExecRow
  <2>2. exec' = [exec EXCEPT ![e] = x]
    BY <1>3
  <2> HIDE DEF x
  <2>3. QED BY <2>1, <2>2 DEF OnlyExec, TypeInv, TypeOK
<1>4. QED BY <1>2, <1>3

\* An executor that neither calls the coordinator nor is in a route has nothing
\* left to spend.
LEMMA NothingToSpend ==
  ASSUME NEW x, x.pc \notin {"coordinator", "route"} PROVE \A run : MaySpend(x, run)
  BY DEF MaySpend

\* Every answer of the coordinator is a step of the worker on its run.
LEMMA AnswerWorks == ASSUME TypeInv, NEW m \in Missions, Answer(m) PROVE Works(m)
<1> DEFINE r == exec[m].run
           Rows == AnswerRows(m) \cup {runs[r]}
           Targets == {"blocked", "completed", "waiting", "paused"}
           KeptRows == OthersKept(r) /\ SameLeases /\ (WithinBudget(runs[r]) /\ MaySpend(exec[m], runs[r])
                                                    => WithinBudget(runs'[r]))
<1>1. /\ LoopFree /\ exec[m].pc = "coordinator" /\ node' = node
      /\ m \in Executors /\ exec[m].pc \in Suspended /\ exec[m].pc # "idle"
  BY DEF Answer, CoordinatorUnusable, CoordinatorFails, InvalidDecision, DecidesComplete,
         CompletionRefused, DecidesBlocked, DecidesWait, DecidesRoute, SendsPeerMessage,
         DecidesReplyWait, PeerMessageRefused, Answered, Executors, Suspended
<1>2. r \in Runs /\ runs[r] \in RunRow
  BY <1>1, CountedType
<1>3. \A run \in Rows :
        /\ run \in RunRow /\ run.status = runs[r].status /\ LeaseKept(runs[r], run)
        /\ WithinBudget(runs[r]) /\ MaySpend(exec[m], runs[r]) => WithinBudget(run)
  BY <1>1, AnswerRowsKept
<1>4. Continued(m) = Iterate(m)
  BY DEF Continued
<1>5. ASSUME NEW run \in AnswerRows(m), runs' = [runs EXCEPT ![r] = run]
      PROVE  KeptRows /\ runs'[r] = run /\ \A s \in Runs : runs'[s].status = runs[s].status
  <2>1. runs'[r] = run /\ OthersKept(r)
    BY <1>1, <1>2, <1>5, OneRow
  <2>2. QED BY <1>3, <2>1 DEF OthersKept, SameLeases, LeaseKept
<1>6. ASSUME NEW t \in Targets, NEW run \in Rows, NEW moved \in Rows,
             Apply(r, t, run, moved)
      PROVE  KeptRows /\ Applied(r, t)
  <2>1. t \in MissionStatus
    BY DEF MissionStatus, Terminal
  <2>2. /\ Applied(r, t) /\ OthersKept(r) /\ SameLeases
        /\ CountKept(run, runs'[r]) \/ CountKept(moved, runs'[r])
    BY <1>2, <1>3, <1>6, <2>1, ApplyEffect
  <2>3. QED BY <1>3, <2>2, BudgetOfCounts
<1> HIDE DEF Rows, Targets
<1>7. ASSUME NEW t \in Targets, NEW run \in Rows, NEW moved \in Rows,
             Apply(r, t, run, moved), loop' = Finish(m), Resumes(m)
      PROVE  Works(m)
  <2>1. OnlyExec(m) /\ exec'[m].pc = "running"
    BY <1>1, <1>7, ResumesEffect DEF Resumes
  <2>2. KeptRows /\ Applied(r, t)
    BY <1>6, <1>7
  <2>3. Spends(m)
    BY <2>1, <2>2, NothingToSpend DEF Spends
  <2>4. QED BY <1>1, <1>7, <2>1, <2>2, <2>3 DEF Works, Ends, Targets
<1>8. ASSUME NEW run \in AnswerRows(m), runs' = [runs EXCEPT ![r] = run], missions' = missions,
             Resumes(m),
             \/ loop' = Continued(m)
             \/ \E w \in WaitIds : loop' = At("wait", m, r, w)
      PROVE  Works(m)
  <2>1. OnlyExec(m) /\ exec'[m].pc = "running"
    BY <1>1, <1>8, ResumesEffect DEF Resumes
  <2>2. KeptRows /\ SameStatus
    BY <1>5, <1>8 DEF SameStatus
  <2>3. Spends(m)
    BY <2>1, <2>2, NothingToSpend DEF Spends
  <2>4. QED BY <1>1, <1>4, <1>8, <2>1, <2>2, <2>3 DEF Works, GoesRound, AwaitsReply
<1>9. /\ {Counted(m), [Counted(m) EXCEPT !.failures = 0],
          [Counted(m) EXCEPT !.failures = @ + 1],
          [Counted(m) EXCEPT !.waiting = None], Failed(Counted(m)), Failed(runs[r])}
           \subseteq AnswerRows(m)
      /\ AnswerRows(m) \subseteq Rows /\ runs[r] \in Rows
      /\ {"blocked", "completed", "waiting"} \subseteq Targets
  BY DEF AnswerRows, Rows, Targets
<1>10. ASSUME NEW x \in ExecRow, exec' = [exec EXCEPT ![m] = x],
              x.run = r, x.lost = exec[m].lost, x.pc \in {"backoff", "route"},
              NEW run \in AnswerRows(m), runs' = [runs EXCEPT ![r] = run],
              UNCHANGED missions, loop' = Free,
              WithinBudget(runs[r]) /\ MaySpend(exec[m], runs[r]) => MaySpend(x, run)
       PROVE  Works(m)
  <2>1. OnlyExec(m) /\ exec'[m] = x
    BY <1>1, <1>10 DEF OnlyExec, TypeInv, TypeOK
  <2>2. KeptRows /\ runs'[r] = run /\ SameStatus
    BY <1>5, <1>10 DEF SameStatus
  <2>3. Spends(m)
    BY <1>10, <2>1, <2>2 DEF Spends
  <2>4. QED BY <1>1, <1>10, <2>1, <2>2, <2>3 DEF Works, Suspends
<1> HIDE DEF KeptRows
<1>11. CASE CoordinatorUnusable(m)
  BY <1>7, <1>9, <1>11 DEF CoordinatorUnusable
<1>12. CASE DecidesComplete(m)
  BY <1>7, <1>9, <1>12 DEF DecidesComplete
<1>13. CASE CompletionRefused(m)
  BY <1>8, <1>9, <1>13 DEF CompletionRefused
<1>14. CASE DecidesBlocked(m)
  BY <1>7, <1>9, <1>14 DEF DecidesBlocked
<1>15. CASE DecidesWait(m)
  BY <1>7, <1>9, <1>15 DEF DecidesWait
<1>16. ASSUME NEW q \in Requests, SendsPeerMessage(m, q) PROVE Works(m)
  BY <1>8, <1>9, <1>16 DEF SendsPeerMessage
<1>17. CASE PeerMessageRefused(m)
  BY <1>8, <1>9, <1>17 DEF PeerMessageRefused
<1>18. CASE CoordinatorFails(m)
  <2> DEFINE failed == Failed(runs[r])
             x == [exec[m] EXCEPT !.pc = "backoff"]
  <2>1. CASE failed.failures >= MaxConsecutiveFailures
    <3>1. Apply(r, "blocked", failed, failed) /\ loop' = Finish(m) /\ Resumes(m)
      BY <1>18, <2>1 DEF CoordinatorFails, Streaks, Resumes
    <3>2. QED BY <1>7, <1>9, <3>1
  <2>2. CASE ~(failed.failures >= MaxConsecutiveFailures)
    <3>1. /\ exec' = [exec EXCEPT ![m] = x] /\ runs' = [runs EXCEPT ![r] = failed]
          /\ UNCHANGED missions /\ loop' = Free
      BY <1>18, <2>2 DEF CoordinatorFails, Streaks
    <3>2. exec[m] \in ExecRow
      BY <1>1 DEF TypeInv, TypeOK
    <3>3. x \in ExecRow /\ x.run = r /\ x.lost = exec[m].lost /\ x.pc = "backoff"
      BY <3>2 DEF ExecRow, ExecStates, Suspended
    <3> HIDE DEF x, failed
    <3>4. MaySpend(x, failed)
      BY <3>3, NothingToSpend
    <3>5. failed \in AnswerRows(m)
      BY <1>9 DEF failed
    <3>6. QED BY <1>10, <3>1, <3>3, <3>4, <3>5
  <2>3. QED BY <2>1, <2>2
<1>19. CASE InvalidDecision(m)
  <2> DEFINE failed == Failed(Counted(m))
  <2>1. CASE failed.failures >= MaxConsecutiveFailures
    BY <1>7, <1>9, <1>19, <2>1 DEF InvalidDecision, Streaks
  <2>2. CASE ~(failed.failures >= MaxConsecutiveFailures)
    BY <1>8, <1>9, <1>19, <2>2 DEF InvalidDecision, Streaks
  <2>3. QED BY <2>1, <2>2
<1>20. ASSUME NEW t \in CappedRoutes, DecidesRoute(m, t) PROVE Works(m)
  <2> DEFINE run == Counted(m)
             x == [exec[m] EXCEPT !.pc = "route", !.route = t]
  <2>1. CASE RouteBlocked(run, t) \/ FallbackBlocked(run, t)
    BY <1>7, <1>9, <1>20, <2>1 DEF DecidesRoute
  <2>2. CASE ~(RouteBlocked(run, t) \/ FallbackBlocked(run, t))
    <3>1. /\ exec' = [exec EXCEPT ![m] = x] /\ runs' = [runs EXCEPT ![r] = run]
          /\ UNCHANGED missions /\ loop' = Free
      BY <1>1, <1>20, <2>2 DEF DecidesRoute, LoopFree
    <3>2. exec[m] \in ExecRow
      BY <1>1 DEF TypeInv, TypeOK
    <3>3. /\ x \in ExecRow /\ x.run = r /\ x.lost = exec[m].lost
          /\ x.pc = "route" /\ x.route = t
      BY <3>2 DEF ExecRow, ExecStates, Suspended
    <3>4. run.failures = runs[r].failures /\ run.actions = runs[r].actions
      BY <1>2 DEF Counted, RunRow
    <3>5. run.actions[t] \in Nat /\ RouteLimit[t] \in Nat /\ ~(run.actions[t] >= RouteLimit[t])
      BY <1>2, <2>2, <3>4, BoundsAssumption DEF RouteBlocked, RunRow
    <3>6. run \in AnswerRows(m)
      BY <1>9
    <3> HIDE DEF x, run
    <3>7. MaySpend(exec[m], runs[r]) => MaySpend(x, run)
      BY <1>1, <3>3, <3>4, <3>5 DEF MaySpend
    <3>8. QED BY <1>10, <3>1, <3>3, <3>6, <3>7
  <2>3. QED BY <2>1, <2>2
<1>21. ASSUME NEW q \in Requests, NEW deadline \in BOOLEAN, DecidesReplyWait(m, q, deadline)
       PROVE  Works(m)
  <2>1. runs' = [runs EXCEPT ![r] = Counted(m)] /\ missions' = missions /\ Resumes(m)
    BY <1>21 DEF DecidesReplyWait
  <2>2. loop' = Continued(m) \/ \E w \in WaitIds : loop' = At("wait", m, r, w)
    BY <1>21 DEF DecidesReplyWait, Pending
  <2>3. QED BY <1>8, <1>9, <2>1, <2>2
<1>22. QED
  BY <1>11, <1>12, <1>13, <1>14, <1>15, <1>16, <1>17, <1>18, <1>19, <1>20, <1>21 DEF Answer

\* One more action of a route below its limit.
LEMMA OneMoreAction ==
  ASSUME NEW f \in [CappedRoutes -> Nat], NEW t \in CappedRoutes
  PROVE  LET g == [f EXCEPT ![t] = f[t] + 1]
         IN  /\ g \in [CappedRoutes -> Nat]
             /\ (\A k \in CappedRoutes : f[k] <= RouteLimit[k]) /\ f[t] < RouteLimit[t] =>
                  \A k \in CappedRoutes : g[k] <= RouteLimit[k]
<1> DEFINE g == [f EXCEPT ![t] = f[t] + 1]
<1>1. f[t] + 1 \in Nat
  OBVIOUS
<1>2. g \in [CappedRoutes -> Nat] /\ \A k \in CappedRoutes : g[k] = IF k = t THEN f[t] + 1 ELSE f[k]
  BY <1>1
<1> HIDE DEF g
<1>3. QED BY <1>1, <1>2, BoundsAssumption DEF g

\* The end of a routed action is a step of the worker on its run: the route was
\* entered below its limit and below the limit of the failure streak.
LEMMA RouteAnswerWorks == ASSUME TypeInv, NEW m \in Missions, RouteAnswer(m) PROVE Works(m)
<1> DEFINE r == exec[m].run
           t == exec[m].route
           was == runs[r]
           acted == [was.actions EXCEPT ![t] = was.actions[t] + 1]
           Fits == WithinBudget(was) /\ MaySpend(exec[m], was)
<1>1. /\ LoopFree /\ exec[m].pc = "route" /\ node' = node /\ m \in Executors
      /\ exec[m].pc \in Suspended /\ exec[m].pc # "idle"
  BY DEF RouteAnswer, RouteReturns, CodingSandboxFails, Executors, Suspended
<1>2. r \in Runs /\ was \in RunRow /\ t \in CappedRoutes
  BY <1>1 DEF TypeInv, TypeOK, Shape
<1>3. /\ was.actions \in [CappedRoutes -> Nat] /\ was.failures \in Nat
      /\ was.actions[t] \in Nat /\ RouteLimit \in [CappedRoutes -> Nat]
  BY <1>2, BoundsAssumption DEF RunRow
<1>4. Continued(m) = Iterate(m)
  BY DEF Continued
<1>5. OnlyExec(m) /\ exec'[m].pc = "running"
  BY <1>1, ResumesEffect DEF RouteAnswer, RouteReturns, CodingSandboxFails
<1>6. ASSUME NEW n \in Nat, n = 0 \/ n = was.failures + 1
      PROVE  LET y == [was EXCEPT !.actions = acted, !.failures = n]
             IN  /\ y \in RunRow /\ y.status = was.status /\ LeaseKept(was, y)
                 /\ Fits => WithinBudget(y)
  <2> DEFINE y == [was EXCEPT !.actions = acted, !.failures = n]
  <2>1. /\ acted \in [CappedRoutes -> Nat]
        /\ (\A k \in CappedRoutes : was.actions[k] <= RouteLimit[k]) /\ was.actions[t] < RouteLimit[t]
             => \A k \in CappedRoutes : acted[k] <= RouteLimit[k]
    BY <1>2, <1>3, OneMoreAction
  <2>2. Fits => /\ \A k \in CappedRoutes : was.actions[k] <= RouteLimit[k]
                /\ was.actions[t] < RouteLimit[t] /\ was.calls <= MaxCoordinatorCalls + 1
                /\ was.failures < MaxConsecutiveFailures
    BY <1>1 DEF WithinBudget, MaySpend
  <2> HIDE DEF acted, was
  <2>3. /\ y.status = was.status /\ LeaseKept(was, y) /\ y.calls = was.calls
        /\ y.failures = n /\ y.actions = acted /\ y \in RunRow
    BY <1>2, <1>6, <2>1 DEF RunRow, LeaseKept
  <2> HIDE DEF y, Fits
  <2>4. Fits => n <= MaxConsecutiveFailures
    BY <1>3, <1>6, <2>2, BoundsAssumption
  <2>5. Fits => WithinBudget(y)
    BY <2>1, <2>2, <2>3, <2>4 DEF WithinBudget
  <2>6. QED BY <2>3, <2>5 DEF y
<1> HIDE DEF acted
<1>7. ASSUME NEW outcome \in {"completed", "failed", "rejected"}, RouteReturns(m, outcome)
      PROVE  Works(m)
  <2>1. missions' = missions /\ loop' = Iterate(m)
    BY <1>4, <1>7 DEF RouteReturns
  <2>2. CASE outcome = "rejected"
    <3>1. runs' = runs
      BY <1>2, <1>7, <2>2 DEF RouteReturns, TypeInv, TypeOK
    <3>2. Spends(m)
      BY <1>5, <3>1, NothingToSpend DEF Spends
    <3>3. QED BY <1>1, <1>5, <2>1, <3>1, <3>2
              DEF Works, GoesRound, SameStatus, SameLeases, LeaseKept, OthersKept
  <2>3. CASE outcome # "rejected"
    <3> DEFINE n == IF outcome = "completed" THEN 0 ELSE was.failures + 1
               y == [was EXCEPT !.actions = acted, !.failures = n]
    <3>1. runs' = [runs EXCEPT ![r] = y]
      BY <1>7, <2>3 DEF RouteReturns, acted
    <3>2. n \in Nat /\ (n = 0 \/ n = was.failures + 1)
      BY <1>3
    <3> HIDE DEF n
    <3>3. /\ y \in RunRow /\ y.status = was.status /\ LeaseKept(was, y)
          /\ Fits => WithinBudget(y)
      BY <1>6, <3>2
    <3> HIDE DEF y
    <3>4. runs'[r] = y /\ OthersKept(r)
      BY <1>2, <3>1, OneRow
    <3>5. SameStatus /\ SameLeases
      BY <2>1, <3>3, <3>4 DEF SameStatus, SameLeases, LeaseKept, OthersKept
    <3>6. Spends(m)
      BY <1>5, <3>3, <3>4, NothingToSpend DEF Spends
    <3>7. QED BY <1>1, <1>5, <2>1, <3>4, <3>5, <3>6 DEF Works, GoesRound
  <2>4. QED BY <2>2, <2>3
<1>8. CASE CodingSandboxFails(m)
  <2> DEFINE y == [was EXCEPT !.actions = acted, !.failures = was.failures + 1]
  <2>1. Apply(r, "blocked", y, y) /\ loop' = Finish(m)
    BY <1>8 DEF CodingSandboxFails, acted
  <2>2. /\ y \in RunRow /\ y.status = was.status /\ LeaseKept(was, y)
        /\ Fits => WithinBudget(y)
    <3>1. was.failures + 1 \in Nat
      BY <1>3
    <3>2. QED BY <1>6, <3>1
  <2>3. "blocked" \in MissionStatus
    BY DEF MissionStatus, Terminal
  <2> HIDE DEF y
  <2>4. /\ Applied(r, "blocked") /\ OthersKept(r) /\ SameLeases
        /\ CountKept(y, runs'[r])
    BY <1>2, <2>1, <2>2, <2>3, ApplyEffect
  <2>5. Spends(m)
    BY <1>5, <2>2, <2>4, NothingToSpend, BudgetOfCounts DEF Spends
  <2>6. QED BY <1>1, <1>5, <2>1, <2>4, <2>5 DEF Works, Ends
<1>9. QED BY <1>7, <1>8 DEF RouteAnswer

\* So is the end of a backoff.
LEMMA BackoffWorks == ASSUME TypeInv, NEW m \in Missions, BackoffEnds(m) PROVE Works(m)
<1>1. /\ LoopFree /\ exec[m].pc = "backoff" /\ node' = node /\ m \in Executors
      /\ exec[m].pc \in Suspended /\ exec[m].pc # "idle"
      /\ loop' = Iterate(m) /\ UNCHANGED <<missions, runs>> /\ Resumes(m)
  BY DEF BackoffEnds, Executors, Suspended, Continued, rows
<1>2. OnlyExec(m) /\ exec'[m].pc = "running"
  BY <1>1, ResumesEffect DEF Resumes
<1>3. Spends(m)
  BY <1>1, <1>2, NothingToSpend DEF Spends
<1>4. QED BY <1>1, <1>2, <1>3
          DEF Works, GoesRound, SameStatus, SameLeases, LeaseKept, OthersKept

\* And the gates at the top of an iteration that has not begun a cancellation.
LEMMA TurnWorks ==
  ASSUME TypeInv, NEW m \in Missions, PauseAtBoundary(m) \/ BudgetGate(m) \/ BeginIteration(m)
  PROVE  Works(m)
<1> DEFINE r == exec[m].run
           was == runs[r]
<1>1. /\ loop.do = "iterate" /\ loop.e = m /\ was.status = "active" /\ m \in Executors
      /\ node' = node
  BY DEF PauseAtBoundary, BudgetGate, BeginIteration, Proceeds, Turn, Executors
<1>2. exec[m].pc = "running" /\ r \in Runs /\ was \in RunRow /\ exec[m] \in ExecRow
  BY <1>1 DEF TypeInv, TypeOK, Shape
<1>3. CASE PauseAtBoundary(m) \/ BudgetGate(m)
  <2>1. PICK t \in {"paused", "blocked"} : Apply(r, t, was, was)
    BY <1>3 DEF PauseAtBoundary, BudgetGate
  <2>2. exec' = exec /\ loop' = Finish(m)
    BY <1>3 DEF PauseAtBoundary, BudgetGate
  <2>3. t \in MissionStatus /\ LeaseKept(was, was)
    BY DEF MissionStatus, Terminal, LeaseKept
  <2>4. Applied(r, t) /\ OthersKept(r) /\ SameLeases /\ CountKept(was, runs'[r])
    BY <1>2, <2>1, <2>3, ApplyEffect
  <2>5. Spends(m)
    BY <1>2, <2>2, <2>4, NothingToSpend, BudgetOfCounts DEF Spends
  <2>6. QED BY <1>1, <1>2, <2>2, <2>4, <2>5 DEF Works, Ends, OnlyExec
<1>4. CASE BeginIteration(m)
  <2>1. PICK late \in BOOLEAN :
          runs' = [runs EXCEPT ![r] =
                     [was EXCEPT !.iterations = was.iterations + 1, !.late = late]]
    BY <1>4 DEF BeginIteration
  <2> DEFINE y == [was EXCEPT !.iterations = was.iterations + 1, !.late = late]
             x == [exec[m] EXCEPT !.pc = "coordinator", !.calls = was.calls]
  <2>2. y.status = was.status /\ LeaseKept(was, y) /\ CountKept(was, y)
    BY <1>2 DEF RunRow, LeaseKept, CountKept
  <2>3. /\ x.pc = "coordinator" /\ x.calls = was.calls /\ x.run = r
        /\ x.lost = exec[m].lost
    BY <1>2 DEF ExecRow
  <2>4. /\ runs' = [runs EXCEPT ![r] = y] /\ exec' = [exec EXCEPT ![m] = x]
        /\ missions' = missions /\ loop' = Free /\ ~IterationBlocked(was)
    BY <1>4, <2>1 DEF BeginIteration
  <2> HIDE DEF y
  <2>5. runs'[r] = y /\ OthersKept(r)
    BY <1>2, <2>4, OneRow
  <2> HIDE DEF x
  <2>6. OnlyExec(m) /\ exec'[m] = x
    BY <1>1, <2>3, <2>4 DEF OnlyExec, TypeInv, TypeOK
  <2>7. SameStatus /\ SameLeases
    BY <2>2, <2>4, <2>5 DEF SameStatus, SameLeases, LeaseKept, OthersKept
  <2>8. MaySpend(x, was)
    <3>1. was.calls \in Nat /\ was.failures \in Nat
      BY <1>2 DEF RunRow
    <3>2. ~(was.calls >= MaxCoordinatorCalls) /\ ~(was.failures >= MaxConsecutiveFailures)
      BY <2>4 DEF IterationBlocked
    <3>3. QED BY <2>3, <3>1, <3>2, BoundsAssumption DEF MaySpend
  <2>9. Spends(m)
    BY <2>2, <2>5, <2>6, <2>8, BudgetOfCounts DEF Spends
  <2>10. QED BY <1>1, <1>2, <2>3, <2>4, <2>5, <2>6, <2>7, <2>9 DEF Works, Begins
<1>5. QED BY <1>3, <1>4

-------------------------------------------------------------------------------
(* The other steps, by what they do to the rows.                           *)

\* No row is written, apart from the flags of a run and its reply.
Noted == SameStatus /\ SameLeases /\ SameCounts /\ exec' = exec /\ node' = node
\* The rows of r and of its mission are moved to t, or neither is.
Moved(r, t) == /\ Applied(r, t) /\ SameLeases /\ SameCounts
               /\ exec' = exec /\ node' = node

LEMMA NothingWritten ==
  ASSUME runs' = runs, missions' = missions PROVE SameStatus /\ SameLeases /\ SameCounts
  BY DEF SameStatus, SameLeases, SameCounts, LeaseKept, CountKept

\* One run row is written, in a column that is none of the above.
LEMMA RowNoted ==
  ASSUME TypeInv, NEW r \in Runs, NEW y, runs' = [runs EXCEPT ![r] = y],
         y.status = runs[r].status, LeaseKept(runs[r], y), CountKept(runs[r], y),
         missions' = missions
  PROVE  SameStatus /\ SameLeases /\ SameCounts
<1>1. runs'[r] = y /\ OthersKept(r)
  BY OneRow
<1>2. QED
  BY <1>1 DEF OthersKept, SameStatus, SameLeases, SameCounts, LeaseKept, CountKept

\* Replies, deadlines and the waits they resolve are none of the runs' business.
Elsewhere == {"free", "satisfy", "claim", "requeue"}
Hands == Noted /\ runs' = runs /\ loop.do \in Elsewhere /\ loop'.do \in Elsewhere

LEMMA HandsOn ==
  ASSUME \/ SatisfyWait \/ ClaimResume \/ Peer \/ Deadline
         \/ \E w \in WaitIds : CancelWait(w) \/ RecoverWait(w)
  PROVE  Hands
<1>1. /\ UNCHANGED <<missions, runs, exec, node>> /\ loop.do \in Elsewhere
      /\ loop'.do \in Elsewhere
  <2>1. ASSUME NEW q \in Requests, ReplyArrives(q)
        PROVE  /\ UNCHANGED <<missions, runs, exec, node>> /\ loop.do \in Elsewhere
               /\ loop'.do \in Elsewhere
    <3>1. /\ LoopFree /\ UNCHANGED <<missions, runs, exec, node>>
          /\ loop' = Free \/ \E w \in WaitIds : loop' = At("satisfy", None, None, w)
      BY <2>1 DEF ReplyArrives, Pending, Serving
    <3>2. QED BY <3>1 DEF Elsewhere, LoopFree, Free, At
  <2>2. CASE SatisfyWait \/ ClaimResume
    BY <2>2 DEF SatisfyWait, ClaimResume, Elsewhere, Free, At
  <2>3. ASSUME NEW w \in WaitIds, TimeOutWait(w) \/ CancelWait(w) \/ RecoverWait(w)
        PROVE  /\ UNCHANGED <<missions, runs, exec, node>> /\ loop.do \in Elsewhere
               /\ loop'.do \in Elsewhere
    BY <2>3 DEF TimeOutWait, CancelWait, RecoverWait, Serving, LoopFree, rows, Elsewhere, Free, At
  <2>4. QED BY <2>1, <2>2, <2>3 DEF Peer, Deadline
<1>2. QED BY <1>1, NothingWritten DEF Hands, Noted

\* The handlers that move a mission and its run.
LEMMA Moves ==
  ASSUME TypeInv
  PROVE  /\ MissionActive => Moved(loop.r, "active")
         /\ EnterWaiting  => Moved(loop.r, "waiting")
         /\ Queue => Moved(loop.r, "queued")
         /\ PauseDirectly => Moved(loop.r, "paused")
         /\ MoveToCancelled => Moved(loop.r, "cancelled")
         /\ \A m : ResumeMission(m) => Moved(Latest(m), "queued")
<1>1. loop.do \in OnRun => loop.r \in Runs
  BY DEF TypeInv, Shape
<1>2. ASSUME NEW r \in Runs, NEW t \in MissionStatus, NEW moved \in RunRow,
             LeaseKept(runs[r], moved), CountKept(runs[r], moved),
             Apply(r, t, runs[r], moved), exec' = exec, node' = node
      PROVE  Moved(r, t)
  <2>1. runs[r] \in RunRow /\ LeaseKept(runs[r], runs[r])
    BY DEF TypeInv, TypeOK, LeaseKept
  <2>2. /\ Applied(r, t) /\ OthersKept(r) /\ SameLeases
        /\ CountKept(runs[r], runs'[r]) \/ CountKept(moved, runs'[r])
    BY <1>2, <2>1, ApplyEffect
  <2>3. SameCounts
    BY <1>2, <2>2 DEF SameCounts, CountKept, OthersKept
  <2>4. QED BY <1>2, <2>2, <2>3 DEF Moved
<1>3. ASSUME NEW r \in Runs
      PROVE  runs[r] \in RunRow /\ LeaseKept(runs[r], runs[r]) /\ CountKept(runs[r], runs[r])
  BY DEF TypeInv, TypeOK, LeaseKept, CountKept
<1>4. {"active", "waiting", "queued", "paused", "cancelled"} \subseteq MissionStatus
  BY DEF MissionStatus, Terminal
<1>5. MissionActive => Moved(loop.r, "active")
  BY <1>1, <1>2, <1>3, <1>4 DEF MissionActive, OnRun
<1>6. Queue => Moved(loop.r, "queued")
  BY <1>1, <1>2, <1>3, <1>4 DEF Queue, OnRun
<1>7. PauseDirectly => Moved(loop.r, "paused")
  BY <1>1, <1>2, <1>3, <1>4 DEF PauseDirectly, OnRun
<1>8. MoveToCancelled => Moved(loop.r, "cancelled")
  BY <1>1, <1>2, <1>3, <1>4 DEF MoveToCancelled, OnRun
<1>9. ASSUME EnterWaiting PROVE Moved(loop.r, "waiting")
  <2> DEFINE y == [runs[loop.r] EXCEPT !.waiting = waits[loop.w].request]
  <2>1. loop.r \in Runs /\ runs[loop.r] \in RunRow
    BY <1>1, <1>3, <1>9 DEF EnterWaiting, OnRun
  <2>2. waits[loop.w] \in WaitRow
    BY <1>9 DEF EnterWaiting, OnWait, TypeInv, TypeOK, Shape
  <2>3. waits[loop.w].request \in Requests \cup {None}
    BY <2>2 DEF WaitRow
  <2>4. y \in RunRow
    BY <2>1, <2>3, RunRowUpdates
  <2>5. LeaseKept(runs[loop.r], y) /\ CountKept(runs[loop.r], y)
    BY <2>1 DEF RunRow, LeaseKept, CountKept
  <2>6. Apply(loop.r, "waiting", runs[loop.r], y) /\ exec' = exec /\ node' = node
    BY <1>9 DEF EnterWaiting
  <2> HIDE DEF y
  <2>7. QED BY <1>2, <1>4, <2>1, <2>4, <2>5, <2>6
<1>10. ASSUME NEW m, ResumeMission(m) PROVE Moved(Latest(m), "queued")
  <2> DEFINE r == Latest(m)
             y == [runs[r] EXCEPT !.pause = FALSE, !.waiting = None]
  <2>1. r \in Runs
    BY <1>10, NewestType DEF ResumeMission
  <2>2. runs[r] \in RunRow
    BY <1>3, <2>1
  <2>3. Apply(r, "queued", runs[r], y) /\ exec' = exec /\ node' = node
    BY <1>10 DEF ResumeMission
  <2> HIDE DEF r
  <2>4. y \in RunRow /\ LeaseKept(runs[r], y) /\ CountKept(runs[r], y)
    BY <2>2 DEF RunRow, LeaseKept, CountKept
  <2> HIDE DEF y
  <2>5. Moved(r, "queued")
    BY <1>2, <1>4, <2>1, <2>3, <2>4
  <2>6. QED BY <2>5 DEF r
<1>11. QED BY <1>5, <1>6, <1>7, <1>8, <1>9, <1>10

\* An operator's request sets a flag of the newest live run at most.
LEMMA RequestNoted ==
  ASSUME TypeInv, NEW m, \/ PauseMission(m) \/ CancelMission(m)
                         \/ StartMission(m) /\ runs' = runs
  PROVE  /\ Noted /\ LoopFree /\ node = "ready"
         /\ \/ loop' = Free
            \/ /\ Current(m) \in Runs
               /\ \E do \in {"queue", "pause", "ack"} :
                    /\ loop' = At(do, None, Current(m), 0)
                    /\ do # "queue" => ~HasTask(m)
<1> DEFINE r == Current(m)
<1>1. r \in Runs \cup {None}
  BY NewestType
<1>2. CASE PauseMission(m) \/ CancelMission(m)
  <2> DEFINE p == [runs[r] EXCEPT !.pause = TRUE]
             c == [runs[r] EXCEPT !.cancelReq = TRUE]
  <2>1. /\ r # None /\ LoopFree /\ node = "ready"
        /\ runs' = [runs EXCEPT ![r] = p] \/ runs' = [runs EXCEPT ![r] = c]
        /\ missions' = missions /\ exec' = exec /\ node' = node
        /\ loop' = Free \/ (~HasTask(m) /\ \E do \in {"pause", "ack"} : loop' = At(do, None, r, 0))
    BY <1>2 DEF PauseMission, CancelMission, Serving
  <2> HIDE DEF r
  <2>2. r \in Runs /\ runs[r] \in RunRow
    BY <1>1, <2>1 DEF TypeInv, TypeOK
  <2>3. /\ p.status = runs[r].status /\ LeaseKept(runs[r], p) /\ CountKept(runs[r], p)
        /\ c.status = runs[r].status /\ LeaseKept(runs[r], c) /\ CountKept(runs[r], c)
    BY <2>2 DEF RunRow, LeaseKept, CountKept
  <2> HIDE DEF p, c
  <2>4. Noted
    BY <2>1, <2>2, <2>3, RowNoted DEF Noted
  <2>5. QED BY <2>1, <2>2, <2>4 DEF r
<1>3. CASE StartMission(m) /\ runs' = runs
  <2>1. CASE r # None /\ loop' = At("queue", None, r, 0) /\ UNCHANGED <<rows, exec, node>>
    BY <1>1, <1>3, <2>1, NothingWritten DEF StartMission, Serving, rows, Noted
  <2>2. ASSUME CreateRun(m, None) PROVE FALSE
    <3>1. PICK s \in Runs : runs[s].status = "absent" /\ runs' = [runs EXCEPT ![s] = FreshRun]
      BY <2>2 DEF CreateRun, NextRun
    <3>2. FreshRun.status = "queued"
      BY DEF FreshRun
    <3>3. QED BY <1>3, <3>1, <3>2 DEF TypeInv, TypeOK
  <2>3. QED BY <1>3, <2>1, <2>2 DEF StartMission
<1>4. QED BY <1>2, <1>3

\* A cancellation is acknowledged.
Acked(r) ==
  /\ SameStatus /\ SameCounts /\ exec' = exec /\ node' = node
  /\ runs'[r].cancelAck /\ runs'[r].token = runs[r].token /\ runs'[r].lease = runs[r].lease
  /\ OthersKept(r)

LEMMA Acknowledged ==
  ASSUME TypeInv
  PROVE  /\ AcknowledgeDirectly => loop.r \in Runs /\ Acked(loop.r)
         /\ \A m \in Missions : AcknowledgeCancel(m) => exec[m].run \in Runs /\ Acked(exec[m].run)
<1>1. ASSUME NEW r \in Runs, runs' = [runs EXCEPT ![r].cancelAck = TRUE],
             missions' = missions, exec' = exec, node' = node
      PROVE  Acked(r)
  <2> DEFINE y == [runs[r] EXCEPT !.cancelAck = TRUE]
  <2>1. /\ y.status = runs[r].status /\ CountKept(runs[r], y) /\ y.cancelAck
        /\ y.token = runs[r].token /\ y.lease = runs[r].lease
    <3>1. runs[r] \in RunRow
      BY DEF TypeInv, TypeOK
    <3>2. QED BY <3>1 DEF RunRow, CountKept
  <2>2. runs' = [runs EXCEPT ![r] = y]
    BY <1>1
  <2> HIDE DEF y
  <2>3. runs'[r] = y /\ OthersKept(r)
    BY <2>2, OneRow
  <2>4. SameStatus /\ SameCounts
    BY <1>1, <2>1, <2>3 DEF SameStatus, SameCounts, CountKept, OthersKept
  <2>5. QED BY <1>1, <2>1, <2>3, <2>4 DEF Acked
<1>2. AcknowledgeDirectly => loop.r \in Runs /\ Acked(loop.r)
  BY <1>1 DEF AcknowledgeDirectly, OnRun, TypeInv, Shape
<1>3. ASSUME NEW m \in Missions, AcknowledgeCancel(m)
      PROVE  exec[m].run \in Runs /\ Acked(exec[m].run)
  <2>1. m \in Executors /\ exec[m].pc = "running"
    BY <1>3 DEF AcknowledgeCancel, Proceeds, Turn, Executors, TypeInv, Shape
  <2>2. exec[m].run \in Runs
    BY <2>1, CountedType
  <2>3. QED BY <1>1, <1>3, <2>2 DEF AcknowledgeCancel
<1>4. QED BY <1>2, <1>3

\* A worker acquires the lease of a run.
Acquired(m, r) ==
  /\ runs'[r].status = "active" /\ runs'[r].lease = "live" /\ runs'[r].token = m
  /\ runs'[r].cancelAck = runs[r].cancelAck
  /\ runs[r].status = "queued" \/ (runs[r].status = "active" /\ runs[r].lease # "live")
  /\ OthersKept(r) /\ SameCounts /\ missions' = missions /\ node' = node
  /\ exec'[m].pc = "running" /\ exec'[m].run = r /\ exec'[m].lost = FALSE
  /\ \A e \in Executors : e # m => exec'[e] = exec[e]
  /\ loop' = At("acquired", m, r, 0)

LEMMA AcquireEffect ==
  ASSUME TypeInv, NEW m \in Executors, NEW r \in Runs, Acquire(m, r)
  PROVE  Acquired(m, r)
<1> DEFINE y == [runs[r] EXCEPT !.status = "active", !.lease = "live", !.token = m]
           x == [Idle EXCEPT !.pc = "running", !.run = r]
<1>1. /\ y.status = "active" /\ y.lease = "live" /\ y.token = m
      /\ y.cancelAck = runs[r].cancelAck /\ CountKept(runs[r], y)
  <2>1. runs[r] \in RunRow
    BY DEF TypeInv, TypeOK
  <2>2. QED BY <2>1 DEF RunRow, CountKept
<1>2. x.pc = "running" /\ x.run = r /\ x.lost = FALSE
  BY DEF Idle
<1>3. /\ runs' = [runs EXCEPT ![r] = y] /\ exec' = [exec EXCEPT ![m] = x]
      /\ missions' = missions /\ node' = node /\ loop' = At("acquired", m, r, 0)
      /\ runs[r].status = "queued" \/ (runs[r].status = "active" /\ runs[r].lease # "live")
  BY DEF Acquire, CanAcquire
<1> HIDE DEF y, x
<1>4. runs'[r] = y /\ OthersKept(r)
  BY <1>3, OneRow
<1>5. exec'[m] = x /\ \A e \in Executors : e # m => exec'[e] = exec[e]
  BY <1>3 DEF TypeInv, TypeOK
<1>6. SameCounts
  BY <1>1, <1>4 DEF SameCounts, CountKept, OthersKept
<1>7. QED BY <1>1, <1>2, <1>3, <1>4, <1>5, <1>6 DEF Acquired

\* Only the executor m changes, and no row.
Alone(m) == /\ runs' = runs /\ missions' = missions /\ node' = node
            /\ \A e \in Executors : e # m => exec'[e] = exec[e]

LEMMA AloneEffect ==
  ASSUME TypeInv, NEW m \in Missions
  PROVE  /\ \A r \in Runs : Schedule(r) /\ r[1] = m =>
              /\ Alone(m) /\ exec'[m].pc = "scheduled" /\ exec'[m].run = r
              /\ exec'[m].lost = FALSE
              /\ loop' = loop
         /\ BeginTask(m) /\ runs' = runs => Alone(m) /\ exec'[m].pc = "idle" /\ loop' = loop
         /\ HeartbeatLost(m) =>
              /\ Alone(m) /\ exec'[m].pc = exec[m].pc /\ exec'[m].run = exec[m].run
              /\ exec'[m].calls = exec[m].calls /\ exec'[m].route = exec[m].route
              /\ exec'[m].lost /\ loop' = loop
         /\ CancelTask(m) => /\ Alone(m) /\ OnlyExec(m) /\ exec'[m].pc = "winddown" /\ loop' = loop
         /\ EndRun /\ loop.e = m => /\ Alone(m) /\ OnlyExec(m) /\ exec'[m].pc = "winddown"
                                    /\ loop' = Free
<1>1. m \in Executors /\ exec[m] \in ExecRow
  BY DEF Executors, TypeInv, TypeOK
<1>2. ASSUME NEW x, exec' = [exec EXCEPT ![m] = x]
      PROVE  exec'[m] = x /\ \A e \in Executors : e # m => exec'[e] = exec[e]
  BY <1>1, <1>2 DEF TypeInv, TypeOK
<1>3. ASSUME NEW r \in Runs, Schedule(r), r[1] = m
      PROVE  /\ Alone(m) /\ exec'[m].pc = "scheduled" /\ exec'[m].run = r
             /\ exec'[m].lost = FALSE /\ loop' = loop
  <2> DEFINE x == [Idle EXCEPT !.pc = "scheduled", !.run = r]
  <2>1. x.pc = "scheduled" /\ x.run = r /\ x.lost = FALSE
    BY DEF Idle
  <2>2. exec' = [exec EXCEPT ![m] = x] /\ UNCHANGED <<rows, loop, node>>
    BY <1>3 DEF Schedule
  <2> HIDE DEF x
  <2>3. QED BY <1>2, <2>1, <2>2 DEF Alone, rows
<1>4. ASSUME BeginTask(m), runs' = runs
      PROVE  Alone(m) /\ exec'[m].pc = "idle" /\ loop' = loop
  <2>1. CASE exec' = [exec EXCEPT ![m] = Idle] /\ UNCHANGED <<rows, loop, node>>
    BY <1>2, <2>1 DEF Alone, Idle, rows
  <2>2. ASSUME Acquire(m, exec[m].run) PROVE FALSE
    <3>1. exec[m].run \in Runs
      BY <1>1, <1>4, CountedType DEF BeginTask
    <3>2. Acquired(m, exec[m].run)
      BY <1>1, <2>2, <3>1, AcquireEffect
    <3>3. QED BY <1>4, <3>2 DEF Acquired
  <2>3. QED BY <1>4, <2>1, <2>2 DEF BeginTask
<1>5. ASSUME HeartbeatLost(m)
      PROVE  /\ Alone(m) /\ exec'[m].pc = exec[m].pc /\ exec'[m].run = exec[m].run
             /\ exec'[m].calls = exec[m].calls /\ exec'[m].route = exec[m].route
             /\ exec'[m].lost /\ loop' = loop
  <2> DEFINE x == [exec[m] EXCEPT !.lost = TRUE]
  <2>1. /\ x.pc = exec[m].pc /\ x.run = exec[m].run /\ x.calls = exec[m].calls
        /\ x.route = exec[m].route /\ x.lost
    BY <1>1 DEF ExecRow
  <2>2. exec' = [exec EXCEPT ![m] = x] /\ UNCHANGED <<rows, loop, node>>
    BY <1>5 DEF HeartbeatLost
  <2> HIDE DEF x
  <2>3. QED BY <1>2, <2>1, <2>2 DEF Alone, rows
<1>6. ASSUME NEW x \in {[exec[m] EXCEPT !.pc = "winddown", !.route = None],
                        [exec[m] EXCEPT !.pc = "winddown"]},
             exec' = [exec EXCEPT ![m] = x], runs' = runs, missions' = missions, node' = node
      PROVE  Alone(m) /\ OnlyExec(m) /\ exec'[m].pc = "winddown"
  <2>1. x.pc = "winddown" /\ x.run = exec[m].run /\ x.lost = exec[m].lost
    BY <1>1 DEF ExecRow
  <2>2. QED BY <1>2, <1>6, <2>1 DEF Alone, OnlyExec
<1>7. ASSUME CancelTask(m)
      PROVE  Alone(m) /\ OnlyExec(m) /\ exec'[m].pc = "winddown" /\ loop' = loop
  BY <1>6, <1>7 DEF CancelTask, rows
<1>8. ASSUME EndRun, loop.e = m
      PROVE  Alone(m) /\ OnlyExec(m) /\ exec'[m].pc = "winddown" /\ loop' = Free
  BY <1>6, <1>8 DEF EndRun
<1>9. QED BY <1>3, <1>4, <1>5, <1>7, <1>8

\* A worker that is done releases its lease, if it is still its own, and leaves.
LEMMA WindDownEffect ==
  ASSUME TypeInv, NEW m \in Missions, WindDown(m)
  PROVE  /\ SameStatus /\ SameCounts /\ OthersKept(exec[m].run)
         /\ \A r \in Runs : /\ runs'[r].cancelAck = runs[r].cancelAck
                            /\ runs[r].lease # "live" => runs'[r].lease # "live"
         /\ LET r == exec[m].run
            IN  IF runs[r].token = m /\ ~exec[m].lost THEN runs'[r].lease = "none"
                ELSE runs'[r] = runs[r]
         /\ exec'[m].pc = "idle" /\ \A e \in Executors : e # m => exec'[e] = exec[e]
         /\ exec[m].pc = "winddown" /\ LoopFree /\ loop' = loop /\ node' = node
<1> DEFINE r == exec[m].run
           y == [runs[r] EXCEPT !.token = "none", !.lease = "none"]
<1>1. m \in Executors /\ exec[m].pc = "winddown" /\ LoopFree /\ loop' = loop /\ node' = node
  BY DEF WindDown, Executors
<1>2. r \in Runs /\ runs[r] \in RunRow
  BY <1>1, CountedType
<1>3. exec'[m].pc = "idle" /\ \A e \in Executors : e # m => exec'[e] = exec[e]
  BY <1>1 DEF WindDown, TypeInv, TypeOK, Idle
<1>4. /\ y.status = runs[r].status /\ CountKept(runs[r], y)
      /\ y.cancelAck = runs[r].cancelAck /\ y.lease = "none"
  BY <1>2 DEF RunRow, CountKept
<1>5. /\ missions' = missions
      /\ IF runs[r].token = m /\ ~exec[m].lost THEN runs' = [runs EXCEPT ![r] = y] ELSE runs' = runs
  BY DEF WindDown, Released
<1> HIDE DEF y
<1>6. CASE runs[r].token = m /\ ~exec[m].lost
  <2>1. runs'[r] = y /\ OthersKept(r)
    BY <1>2, <1>5, <1>6, OneRow
  <2>2. SameStatus /\ SameCounts
    BY <1>4, <1>5, <2>1 DEF SameStatus, SameCounts, CountKept, OthersKept
  <2>3. QED BY <1>1, <1>3, <1>4, <1>6, <2>1, <2>2 DEF OthersKept
<1>7. CASE ~(runs[r].token = m /\ ~exec[m].lost)
  BY <1>1, <1>3, <1>5, <1>7, NothingWritten DEF OthersKept
<1>8. QED BY <1>6, <1>7

\* A lease that nobody renews expires.
LEMMA ExpiryEffect ==
  ASSUME TypeInv, NEW r \in Runs, LeaseExpires(r)
  PROVE  /\ SameStatus /\ SameCounts /\ OthersKept(r) /\ ~Renewed(r)
         /\ runs'[r].lease = "expired" /\ runs'[r].token = runs[r].token
         /\ runs'[r].cancelAck = runs[r].cancelAck
         /\ exec' = exec /\ loop' = loop /\ node' = node
<1> DEFINE y == [runs[r] EXCEPT !.lease = "expired"]
<1>1. /\ y.status = runs[r].status /\ CountKept(runs[r], y) /\ y.lease = "expired"
      /\ y.token = runs[r].token /\ y.cancelAck = runs[r].cancelAck
  <2>1. runs[r] \in RunRow
    BY DEF TypeInv, TypeOK
  <2>2. QED BY <2>1 DEF RunRow, CountKept
<1>2. /\ runs' = [runs EXCEPT ![r] = y] /\ ~Renewed(r)
      /\ UNCHANGED <<missions, exec, loop, node>>
  BY DEF LeaseExpires
<1> HIDE DEF y
<1>3. runs'[r] = y /\ OthersKept(r)
  BY <1>2, OneRow
<1>4. QED BY <1>1, <1>2, <1>3 DEF SameStatus, SameCounts, CountKept, OthersKept

\* recover() queues the runs that nobody executes, and a crash takes the tokens.
LEMMA ProcessEffect ==
  ASSUME TypeInv, NEW r \in Runs
  PROVE  /\ StartWorkers =>
              IF Recoverable(r)
              THEN /\ runs'[r].status = "queued" /\ runs'[r].lease = "none"
                   /\ runs'[r].cancelAck = runs[r].cancelAck /\ CountKept(runs[r], runs'[r])
              ELSE runs'[r] = runs[r]
         /\ Crash => /\ runs'[r].status = runs[r].status /\ runs'[r].lease = runs[r].lease
                     /\ runs'[r].cancelAck = runs[r].cancelAck /\ CountKept(runs[r], runs'[r])
<1>1. runs[r] \in RunRow
  BY DEF TypeInv, TypeOK
<1>2. ASSUME StartWorkers
      PROVE  IF Recoverable(r)
             THEN /\ runs'[r].status = "queued" /\ runs'[r].lease = "none"
                  /\ runs'[r].cancelAck = runs[r].cancelAck /\ CountKept(runs[r], runs'[r])
             ELSE runs'[r] = runs[r]
  <2> DEFINE y == [runs[r] EXCEPT !.status = "queued", !.lease = "none", !.token = "none",
                                  !.pause = FALSE]
  <2>1. /\ y.status = "queued" /\ y.lease = "none"
        /\ y.cancelAck = runs[r].cancelAck /\ CountKept(runs[r], y)
    BY <1>1 DEF RunRow, CountKept
  <2>2. runs'[r] = IF Recoverable(r) THEN y ELSE runs[r]
    BY <1>2 DEF StartWorkers
  <2> HIDE DEF y
  <2>3. QED BY <2>1, <2>2
<1>3. ASSUME Crash
      PROVE  /\ runs'[r].status = runs[r].status /\ runs'[r].lease = runs[r].lease
             /\ runs'[r].cancelAck = runs[r].cancelAck /\ CountKept(runs[r], runs'[r])
  <2> DEFINE y == [runs[r] EXCEPT !.token = "dead"]
  <2>1. /\ y.status = runs[r].status /\ y.lease = runs[r].lease
        /\ y.cancelAck = runs[r].cancelAck /\ CountKept(runs[r], y)
    BY <1>1 DEF RunRow, CountKept
  <2>2. runs'[r] = y \/ runs'[r] = runs[r]
    BY <1>3 DEF Crash
  <2> HIDE DEF y
  <2>3. QED BY <2>1, <2>2 DEF CountKept
<1>4. QED BY <1>2, <1>3

\* A reply queues the mission and the run of its wait, or leaves them alone.
LEMMA RequeueEffect ==
  ASSUME TypeInv, Requeue
  PROVE  LET r == waits[loop.w].run
         IN  /\ r \in Runs /\ waits[loop.w].state # "absent" /\ loop.w \in WaitIds
             /\ SameLeases /\ SameCounts /\ OthersKept(r)
             /\ exec' = exec /\ node' = node /\ waits' = waits /\ loop' = Free
             /\ \/ missions' = missions /\ runs' = runs
                \/ /\ missions[r[1]] = "waiting" /\ runs'[r].status = "queued"
                   /\ missions' = [missions EXCEPT ![r[1]] = "queued"]
<1> DEFINE r == waits[loop.w].run
           y == [runs[r] EXCEPT !.status = "queued", !.waiting = None]
<1>1. r \in Runs /\ waits[loop.w].state # "absent" /\ loop.w \in WaitIds
  BY DEF Requeue, OnWait, TypeInv, Shape
<1>2. exec' = exec /\ node' = node /\ waits' = waits /\ loop' = Free
  BY DEF Requeue
<1>3. CASE missions[r[1]] = "waiting"
  <2>1. runs' = [runs EXCEPT ![r] = y] /\ missions' = [missions EXCEPT ![r[1]] = "queued"]
    BY <1>3 DEF Requeue
  <2>2. runs[r] \in RunRow
    BY <1>1 DEF TypeInv, TypeOK
  <2> HIDE DEF r
  <2>3. y.status = "queued" /\ LeaseKept(runs[r], y) /\ CountKept(runs[r], y)
    BY <2>2 DEF RunRow, LeaseKept, CountKept
  <2> HIDE DEF y
  <2>4. runs'[r] = y /\ OthersKept(r)
    BY <1>1, <2>1, OneRow
  <2>5. SameLeases /\ SameCounts
    BY <2>3, <2>4 DEF SameLeases, SameCounts, LeaseKept, CountKept, OthersKept
  <2>6. QED BY <1>1, <1>2, <1>3, <2>1, <2>3, <2>4, <2>5 DEF r
<1>4. CASE missions[r[1]] # "waiting"
  <2>1. missions' = missions /\ runs' = runs
    BY <1>4 DEF Requeue
  <2>2. QED BY <1>1, <1>2, <2>1, NothingWritten DEF OthersKept
<1>5. QED BY <1>3, <1>4

\* A run row is inserted.
Created(m, r) ==
  /\ NextRun(m, r) /\ runs'[r] = FreshRun /\ OthersKept(r) /\ missions' = missions
  /\ loop' = At("queue", None, r, 0) /\ exec' = exec /\ node' = node

LEMMA CreateRunEffect ==
  ASSUME TypeInv, NEW m, CreateRun(m, None) PROVE \E r \in Runs : Created(m, r)
<1>1. PICK r \in Runs : /\ NextRun(m, r) /\ runs' = [runs EXCEPT ![r] = FreshRun]
                        /\ loop' = At("queue", None, r, 0)
  BY DEF CreateRun
<1>2. runs'[r] = FreshRun /\ OthersKept(r)
  BY <1>1, OneRow
<1>3. QED BY <1>1, <1>2 DEF CreateRun, Created

-------------------------------------------------------------------------------
(* The budgets.  Only the steps of a worker on its run count, each within  *)
(* what the gates before its await left: a mission has one worker, so no   *)
(* one else counts on that run meanwhile, and no other step counts at all. *)

\* No run-step call is under way, and a worker has a run of its own mission.
NoStep == loop.do # "step" /\ (loop.do = "queue" => loop.e = None)
OwnRuns ==
  /\ NoStep
  /\ \A m \in Missions : exec[m].pc # "idle" => exec[m].run[1] = m /\ HasRow(exec[m].run)

Budget ==
  /\ \A r \in Runs : WithinBudget(runs[r])
  /\ \A m \in Missions : exec[m].pc # "idle" => MaySpend(exec[m], runs[exec[m].run])

\* A step other than those counts nothing and calls nobody.
SameCall(m) == /\ exec'[m].pc = exec[m].pc /\ exec'[m].run = exec[m].run
               /\ exec'[m].calls = exec[m].calls /\ exec'[m].route = exec[m].route
OffDuty(m)  == /\ exec'[m].pc \notin {"coordinator", "route", "backoff"}
               /\ exec'[m].pc # "idle" => exec'[m].run[1] = m /\ HasRow(exec'[m].run)
RowsStay    == \A r \in Runs : HasRow(r) => HasRow(r)'
Bookkept ==
  /\ \A r \in Runs : CountKept(runs[r], runs'[r]) \/ (~HasRow(r) /\ runs'[r] = FreshRun)
  /\ \A m \in Missions : SameCall(m) \/ OffDuty(m)
  /\ RowsStay /\ NoStep'

LEMMA NotedBooks ==
  ASSUME NoStep', exec' = exec,
         \/ SameStatus /\ SameCounts
         \/ \E r \in Runs, t \in MissionStatus : Applied(r, t) /\ SameCounts
  PROVE  Bookkept
<1>1. RowsStay
  BY DEF SameStatus, Applied, RowsStay, HasRow, MissionStatus, Terminal
<1>2. QED BY <1>1 DEF Bookkept, SameCounts, SameCall

LEMMA FreeBooks == (loop' = Free \/ loop' = loop) /\ NoStep => NoStep'
  BY DEF NoStep, Free, At

LEMMA LoopStepBooks ==
  ASSUME Callers = {}, TypeInv, OwnRuns, LoopStep PROVE (\E m \in Missions : Works(m)) \/ Bookkept
<1>1. Executors = Missions /\ NoStep
  BY DEF Executors, OwnRuns
<1>2. {"active", "waiting", "queued", "paused", "cancelled"} \subseteq MissionStatus
  BY DEF MissionStatus, Terminal
<1>3. loop.do \in OnRun => loop.r \in Runs
  BY DEF TypeInv, Shape
<1>4. CASE MissionActive \/ EnterWaiting \/ Queue \/ PauseDirectly \/ MoveToCancelled
  <2>1. \E r \in Runs, t \in MissionStatus : Applied(r, t) /\ SameCounts
    <3>1. loop.r \in Runs
      BY <1>3, <1>4 DEF MissionActive, EnterWaiting, Queue, PauseDirectly, MoveToCancelled, OnRun
    <3>2. QED BY <1>2, <1>4, <3>1, Moves DEF Moved
  <2>2. exec' = exec
    BY <1>4 DEF MissionActive, EnterWaiting, Queue, PauseDirectly, MoveToCancelled
  <2>3. NoStep'
    BY <1>1, <1>4 DEF MissionActive, EnterWaiting, Queue, PauseDirectly, MoveToCancelled,
                      NoStep, Iterate, Finish, CancelDone, Free, At, TypeInv, TypeOK, LoopRow
  <2>4. QED BY <2>1, <2>2, <2>3, NotedBooks
<1>5. CASE EndRun
  <2>1. loop.e \in Missions
    BY <1>1, <1>5 DEF EndRun, TypeInv, Shape, ByExec
  <2>2. Alone(loop.e) /\ OnlyExec(loop.e) /\ exec'[loop.e].pc = "winddown" /\ loop' = Free
    BY <1>5, <2>1, AloneEffect
  <2>3. exec[loop.e].pc = "running"
    BY <1>5 DEF EndRun, TypeInv, Shape
  <2>4. OffDuty(loop.e) /\ \A m \in Missions : m # loop.e => SameCall(m)
    BY <1>1, <2>1, <2>2, <2>3 DEF OffDuty, SameCall, OnlyExec, OwnRuns
  <2>5. SameCounts /\ RowsStay
    BY <2>2 DEF Alone, SameCounts, CountKept, RowsStay, HasRow
  <2>6. QED BY <1>1, <2>2, <2>4, <2>5, FreeBooks DEF Bookkept, SameCounts
<1>6. CASE SatisfyWait \/ ClaimResume
  <2>1. Hands
    BY <1>6, HandsOn
  <2>2. NoStep'
    BY <2>1 DEF Hands, Elsewhere, NoStep
  <2>3. QED BY <2>1, <2>2, NotedBooks DEF Hands, Noted
<1>7. CASE CancelMissionWaits \/ \E e \in Executors : IterationStopped(e)
  <2>1. runs' = runs /\ missions' = missions /\ exec' = exec
    BY <1>7 DEF CancelMissionWaits, IterationStopped, rows
  <2>2. NoStep'
    BY <1>7 DEF CancelMissionWaits, IterationStopped, CancelDone, NoStep, Finish, Free, At
  <2>3. QED BY <2>1, <2>2, NothingWritten, NotedBooks
<1>8. CASE Requeue
  <2> DEFINE r == waits[loop.w].run
  <2>1. /\ SameCounts /\ OthersKept(r) /\ exec' = exec /\ loop' = Free
        /\ runs' = runs \/ runs'[r].status = "queued"
    BY <1>8, RequeueEffect
  <2>2. RowsStay
    BY <2>1 DEF RowsStay, HasRow, OthersKept
  <2>3. QED BY <1>1, <2>1, <2>2, FreeBooks DEF Bookkept, SameCounts, SameCall
<1>9. CASE EnqueueRetry
  <2>1. PICK r \in Runs : Created(loop.r[1], r)
    BY <1>9, CreateRunEffect DEF EnqueueRetry
  <2>2. RowsStay
    BY <2>1 DEF Created, OthersKept, RowsStay, HasRow, NextRun
  <2>3. QED BY <2>1, <2>2 DEF Created, NextRun, OthersKept, HasRow, Bookkept, CountKept,
                             SameCall, NoStep, At
<1>10. CASE StepAcquires
  BY <1>1, <1>10 DEF StepAcquires, NoStep
<1>11. CASE AcknowledgeDirectly
  <2>1. NoStep'
    BY <1>11 DEF AcknowledgeDirectly, NoStep, At
  <2>2. QED BY <1>11, <2>1, Acknowledged, NotedBooks DEF Acked
<1>12. ASSUME NEW e \in Missions, AcknowledgeCancel(e) PROVE Bookkept
  <2>1. NoStep'
    BY <1>12 DEF AcknowledgeCancel, NoStep, At
  <2>2. QED BY <1>12, <2>1, Acknowledged, NotedBooks DEF Acked
<1>13. ASSUME NEW e \in Missions, PauseAtBoundary(e) \/ BudgetGate(e) \/ BeginIteration(e)
       PROVE  Works(e)
  BY <1>13, TurnWorks
<1>14. QED
  BY <1>1, <1>4, <1>5, <1>6, <1>7, <1>8, <1>9, <1>10, <1>11, <1>12, <1>13 DEF LoopStep

LEMMA WorkerBooks ==
  ASSUME Callers = {}, TypeInv, OwnRuns, Worker PROVE (\E m \in Missions : Works(m)) \/ Bookkept
<1>1. Executors = Missions /\ NoStep
  BY DEF Executors, OwnRuns
<1>2. ASSUME NEW m \in Missions, Alone(m), SameCall(m) \/ OffDuty(m), loop' = loop PROVE Bookkept
  <2>1. SameCounts /\ RowsStay
    BY <1>2 DEF Alone, SameCounts, CountKept, RowsStay, HasRow
  <2>2. \A k \in Missions : SameCall(k) \/ OffDuty(k)
    BY <1>1, <1>2 DEF Alone, SameCall
  <2>3. QED BY <1>1, <1>2, <2>1, <2>2, FreeBooks DEF Bookkept, SameCounts
<1>3. ASSUME NEW r \in Runs, Schedule(r) PROVE Bookkept
  <2>1. r[1] \in Missions /\ HasRow(r)
    BY <1>3 DEF Schedule, Runs, HasRow
  <2>2. QED BY <1>2, <1>3, <2>1, AloneEffect DEF OffDuty
<1>4. ASSUME NEW r \in Runs, LeaseExpires(r) PROVE Bookkept
  BY <1>1, <1>4, ExpiryEffect, FreeBooks, NotedBooks
<1>5. ASSUME NEW m \in Missions, BeginTask(m) PROVE Bookkept
  <2>1. CASE runs' = runs
    BY <1>2, <1>5, <2>1, AloneEffect DEF OffDuty
  <2>2. CASE runs' # runs
    <3> DEFINE r == exec[m].run
    <3>1. r \in Runs /\ r[1] = m /\ HasRow(r)
      BY <1>1, <1>5, CountedType DEF BeginTask, OwnRuns
    <3>2. Acquired(m, r)
      BY <1>1, <1>5, <2>2, <3>1, AcquireEffect DEF BeginTask, rows
    <3> HIDE DEF r
    <3>3. RowsStay
      BY <3>1, <3>2 DEF Acquired, OthersKept, RowsStay, HasRow
    <3>4. OffDuty(m) /\ \A k \in Missions : k # m => SameCall(k)
      BY <1>1, <3>1, <3>2 DEF Acquired, OffDuty, SameCall
    <3>5. NoStep'
      BY <3>2 DEF Acquired, NoStep, At
    <3>6. QED BY <3>2, <3>3, <3>4, <3>5 DEF Acquired, Bookkept, SameCounts
  <2>3. QED BY <2>1, <2>2
<1>6. ASSUME NEW m \in Missions, WindDown(m) PROVE Bookkept
  <2>1. /\ SameStatus /\ SameCounts /\ exec'[m].pc = "idle" /\ loop' = loop
        /\ \A k \in Missions : k # m => exec'[k] = exec[k]
    BY <1>1, <1>6, WindDownEffect
  <2>2. \A k \in Missions : SameCall(k) \/ OffDuty(k)
    BY <2>1 DEF SameCall, OffDuty
  <2>3. QED BY <1>1, <2>1, <2>2, FreeBooks DEF Bookkept, SameCounts, SameStatus, RowsStay, HasRow
<1>7. ASSUME NEW m \in Missions, HeartbeatLost(m) PROVE Bookkept
  BY <1>2, <1>7, AloneEffect DEF SameCall
<1>8. QED
  BY <1>1, <1>3, <1>4, <1>5, <1>6, <1>7, AnswerWorks, RouteAnswerWorks, BackoffWorks DEF Worker

LEMMA OperatorBooks ==
  ASSUME Callers = {}, TypeInv, OwnRuns, Operator \/ Peer \/ Deadline PROVE Bookkept
<1>1. NoStep
  BY DEF OwnRuns
<1>2. CASE Peer \/ Deadline \/ \E w \in WaitIds : CancelWait(w)
  <2>1. Hands
    BY <1>2, HandsOn
  <2>2. NoStep'
    BY <2>1 DEF Hands, Elsewhere, NoStep
  <2>3. QED BY <2>1, <2>2, NotedBooks DEF Hands, Noted
<1>3. ASSUME NEW m \in Missions, CreateRun(m, None) PROVE Bookkept
  <2>1. PICK r \in Runs : Created(m, r)
    BY <1>3, CreateRunEffect
  <2>2. RowsStay
    BY <2>1 DEF Created, OthersKept, RowsStay, HasRow, NextRun
  <2>3. QED BY <2>1, <2>2 DEF Created, NextRun, OthersKept, HasRow, Bookkept, CountKept,
                             SameCall, NoStep, At
<1>4. ASSUME NEW m \in Missions, \/ PauseMission(m) \/ CancelMission(m)
                                 \/ StartMission(m) /\ runs' = runs
      PROVE  Bookkept
  <2>1. /\ Noted
        /\ loop' = Free \/ \E do \in {"queue", "pause", "ack"} : loop' = At(do, None, Current(m), 0)
    BY <1>4, RequestNoted
  <2>2. NoStep'
    BY <2>1 DEF NoStep, Free, At
  <2>3. QED BY <2>1, <2>2, NotedBooks DEF Noted
<1>5. ASSUME NEW m \in Missions, StartMission(m) PROVE Bookkept
  BY <1>3, <1>4, <1>5 DEF StartMission, rows
<1>6. ASSUME NEW m \in Missions, RetryMission(m) PROVE Bookkept
  <2>1. runs' = runs /\ exec' = exec /\ loop'.do = "retry"
    BY <1>6 DEF RetryMission, At
  <2>2. QED BY <2>1 DEF Bookkept, CountKept, SameCall, RowsStay, HasRow, NoStep
<1>7. ASSUME NEW m \in Missions, ResumeMission(m) PROVE Bookkept
  <2>1. Moved(Latest(m), "queued") /\ loop' = loop /\ exec' = exec
    BY <1>7, Moves DEF ResumeMission
  <2>2. Latest(m) \in Runs /\ "queued" \in MissionStatus
    BY <1>7, NewestType DEF ResumeMission, MissionStatus
  <2>3. QED BY <1>1, <2>1, <2>2, FreeBooks, NotedBooks DEF Moved
<1>8. QED BY <1>2, <1>4, <1>5, <1>6, <1>7 DEF Operator

LEMMA ProcessBooks ==
  ASSUME Callers = {}, TypeInv, OwnRuns, Process PROVE Bookkept
<1>1. Executors = Missions /\ NoStep
  BY DEF Executors, OwnRuns
<1>2. CASE StartWorkers
  <2>1. \A r \in Runs : CountKept(runs[r], runs'[r]) /\ (HasRow(r) => HasRow(r)')
    BY <1>2, ProcessEffect DEF CountKept, HasRow
  <2>2. exec' = exec /\ loop' = loop
    BY <1>2 DEF StartWorkers
  <2>3. QED BY <1>1, <2>1, <2>2, FreeBooks DEF Bookkept, SameCall, RowsStay
<1>3. CASE Crash
  <2>1. \A r \in Runs : CountKept(runs[r], runs'[r]) /\ (HasRow(r) => HasRow(r)')
    BY <1>3, ProcessEffect DEF CountKept, HasRow
  <2>2. /\ loop' = Free
        /\ \A m \in Missions : exec'[m].pc = "idle"
    BY <1>1, <1>3 DEF Crash, Idle
  <2>3. QED BY <1>1, <2>1, <2>2, FreeBooks DEF Bookkept, OffDuty, RowsStay
<1>4. CASE BecomeReady \/ BeginShutdown \/ Stopped
  <2>1. runs' = runs /\ missions' = missions /\ exec' = exec /\ loop' = loop
    BY <1>4 DEF BecomeReady, BeginShutdown, Stopped, rows
  <2>2. QED BY <1>1, <2>1, FreeBooks, NothingWritten, NotedBooks
<1>5. ASSUME NEW w \in WaitIds, RecoverWait(w) PROVE Bookkept
  <2>1. Hands
    BY <1>5, HandsOn
  <2>2. NoStep'
    BY <2>1 DEF Hands, Elsewhere, NoStep
  <2>3. QED BY <2>1, <2>2, NotedBooks DEF Hands, Noted
<1>6. ASSUME NEW m \in Missions, CancelTask(m) PROVE Bookkept
  <2>1. Alone(m) /\ OnlyExec(m) /\ exec'[m].pc = "winddown" /\ loop' = loop
    BY <1>6, AloneEffect
  <2>2. exec[m].pc # "idle"
    BY <1>6 DEF CancelTask, Suspended
  <2>3. OffDuty(m) /\ \A k \in Missions : k # m => SameCall(k)
    BY <1>1, <2>1, <2>2 DEF OffDuty, SameCall, OnlyExec, OwnRuns
  <2>4. SameCounts /\ RowsStay
    BY <2>1 DEF Alone, SameCounts, CountKept, RowsStay, HasRow
  <2>5. QED BY <1>1, <2>1, <2>3, <2>4, FreeBooks DEF Bookkept, SameCounts
<1>7. QED BY <1>2, <1>3, <1>4, <1>5, <1>6 DEF Process

LEMMA StepBooks ==
  ASSUME Callers = {}, TypeInv, OwnRuns, [Next]_vars
  PROVE  (\E m \in Missions : Works(m)) \/ Bookkept
<1>1. CASE UNCHANGED vars
  <2>1. runs' = runs /\ missions' = missions /\ exec' = exec /\ loop' = loop /\ NoStep
    BY <1>1 DEF vars, OwnRuns
  <2>2. QED BY <2>1, NothingWritten, FreeBooks, NotedBooks
<1>2. QED
  BY <1>1, LoopStepBooks, WorkerBooks, OperatorBooks, ProcessBooks DEF Next

\* The work of one worker leaves the others on their own runs.
LEMMA WorksOwn ==
  ASSUME Callers = {}, TypeInv, OwnRuns, NEW m \in Missions, Works(m)
  PROVE  /\ OwnRuns' /\ RowsStay /\ exec[m].run \in Runs
         /\ \A k \in Missions : k # m => /\ exec'[k] = exec[k]
                                         /\ exec[k].pc # "idle" => exec[k].run # exec[m].run
<1>1. /\ Executors = Missions /\ OthersKept(exec[m].run) /\ OnlyExec(m) /\ exec[m].pc # "idle"
  BY DEF Executors, Works
<1>2. exec[m].run \in Runs
  BY <1>1, CountedType
<1>3. RowsStay
  <2>1. SameStatus \/ \E t \in {"blocked", "completed", "waiting", "paused"} : Applied(exec[m].run, t)
    BY DEF Works, Begins, Suspends, GoesRound, AwaitsReply, Ends
  <2>2. QED BY <2>1 DEF RowsStay, HasRow, SameStatus, Applied
<1>4. NoStep'
  BY DEF Works, Begins, Suspends, GoesRound, AwaitsReply, Ends, NoStep, Iterate, Finish, Free, At
<1>5. \A k \in Missions : exec'[k].pc # "idle" => exec'[k].run[1] = k /\ HasRow(exec'[k].run)
  BY <1>1 DEF OnlyExec, OwnRuns
<1>6. \A k \in Missions : exec'[k].pc # "idle" => exec'[k].run \in Runs
  BY <1>1, CountedType DEF OnlyExec
<1>7. OwnRuns'
  BY <1>3, <1>4, <1>5, <1>6 DEF OwnRuns, RowsStay, HasRow
<1>8. QED BY <1>1, <1>2, <1>3, <1>7 DEF OwnRuns, OnlyExec

LEMMA StepOwn ==
  ASSUME Callers = {}, TypeInv, OwnRuns, [Next]_vars PROVE OwnRuns' /\ RowsStay
<1>1. ASSUME Bookkept PROVE OwnRuns'
  <2>1. ASSUME NEW m \in Missions, exec'[m].pc # "idle"
        PROVE  exec'[m].run[1] = m /\ HasRow(exec'[m].run) /\ exec'[m].run \in Runs
    <3>1. TypeInv' /\ Executors = Missions
      BY StepType DEF Executors
    <3>2. exec'[m].run \in Runs
      BY <2>1, <3>1 DEF TypeInv, Shape
    <3>3. QED BY <1>1, <2>1, <3>2 DEF Bookkept, SameCall, OffDuty, OwnRuns
  <2>2. QED BY <1>1, <2>1 DEF Bookkept, OwnRuns, RowsStay, HasRow
<1>2. QED BY <1>1, StepBooks, WorksOwn DEF Bookkept

LEMMA StepBudget ==
  ASSUME Callers = {}, TypeInv, OwnRuns, Budget, [Next]_vars PROVE Budget'
<1>1. Executors = Missions
  BY DEF Executors
<1>2. ASSUME NEW m \in Missions, Works(m) PROVE Budget'
  <2> DEFINE r == exec[m].run
  <2>1. /\ r \in Runs /\ OthersKept(r) /\ Spends(m) /\ OnlyExec(m) /\ exec[m].pc # "idle"
        /\ \A k \in Missions : k # m => /\ exec'[k] = exec[k]
                                        /\ exec[k].pc # "idle" => exec[k].run # r
    BY <1>2, WorksOwn DEF Works
  <2>2. /\ WithinBudget(runs'[r]) /\ MaySpend(exec'[m], runs'[r]) /\ exec'[m].run = r
    BY <2>1 DEF Spends, Budget, OnlyExec
  <2>3. \A k \in Missions : exec[k].pc # "idle" => exec[k].run \in Runs
    BY <1>1, CountedType
  <2> HIDE DEF r
  <2>4. \A s \in Runs : WithinBudget(runs'[s])
    BY <2>1, <2>2 DEF OthersKept, Budget
  <2>5. ASSUME NEW k \in Missions, exec'[k].pc # "idle"
        PROVE  MaySpend(exec'[k], runs'[exec'[k].run])
    BY <2>1, <2>2, <2>3, <2>5 DEF OthersKept, Budget
  <2>6. QED BY <2>4, <2>5 DEF Budget, WithinBudget, MaySpend
<1>3. ASSUME Bookkept PROVE Budget'
  <2>1. WithinBudget(FreshRun)
    BY BoundsAssumption DEF WithinBudget, FreshRun
  <2>2. \A r \in Runs : WithinBudget(runs'[r])
    BY <1>3, <2>1, BudgetOfCounts DEF Bookkept, Budget
  <2>3. ASSUME NEW m \in Missions, exec'[m].pc # "idle"
        PROVE  MaySpend(exec'[m], runs'[exec'[m].run])
    <3>1. CASE OffDuty(m)
      BY <3>1, NothingToSpend DEF OffDuty
    <3>2. CASE SameCall(m)
      <4> DEFINE r == exec[m].run
      <4>1. r \in Runs /\ HasRow(r) /\ MaySpend(exec[m], runs[r])
        BY <1>1, <2>3, <3>2, CountedType DEF SameCall, OwnRuns, Budget
      <4>2. MaySpend(exec[m], runs'[r])
        BY <1>3, <4>1, BudgetOfCounts DEF Bookkept
      <4>3. QED BY <3>2, <4>2 DEF SameCall, MaySpend
    <3>3. QED BY <1>3, <3>1, <3>2 DEF Bookkept
  <2>4. QED BY <2>2, <2>3 DEF Budget, WithinBudget, MaySpend
<1>4. QED BY <1>2, <1>3, StepBooks

LEMMA OwnInit == Init => OwnRuns /\ Budget
<1>1. Init => OwnRuns
  BY DEF Init, OwnRuns, NoStep, Idle, Free, At, Executors
<1>2. Init => Budget
  BY BoundsAssumption DEF Init, Budget, WithinBudget, NoRun, FreshRun, Idle, Executors
<1>3. QED BY <1>1, <1>2

\* The runaway limits of budgets.py hold for every run the worker pool executes,
\* across pauses, resumes, wake-ups, retries and crashes: what an await was
\* allowed to begin is still allowed when its result is counted, although the
\* count is read before the await and written after it.  (With a run-step call
\* a run can have two executors, and each overwrites what the other counts.)
THEOREM BudgetRespectedHolds == ASSUME Callers = {} PROVE Spec => []BudgetRespected
<1>1. Init => TypeInv /\ OwnRuns /\ Budget
  BY TypeInit, OwnInit
<1>2. TypeInv /\ OwnRuns /\ Budget /\ [Next]_vars => TypeInv' /\ OwnRuns' /\ Budget'
  BY StepType, StepOwn, StepBudget
<1>3. Budget => \A r \in Runs : WithinBudget(runs[r])
  BY DEF Budget
<1>4. Spec => [](\A r \in Runs : WithinBudget(runs[r]))
  BY <1>1, <1>2, <1>3, PTL DEF Spec
<1>5. (\A r \in Runs : WithinBudget(runs[r])) /\ IterationBudget => BudgetRespected
  BY DEF WithinBudget, IterationBudget, BudgetRespected
<1>6. QED BY <1>4, <1>5, IterationBudgetHolds, PTL

-------------------------------------------------------------------------------
(* The rows of a mission: its runs are inserted in order, one at a time,   *)
(* and only its newest run may be live.                                    *)

LiveNewest == \A r \in Runs : Live(r) => IsTop(r)
InOrder    == \A r, s \in Runs : HasRow(r) /\ s[1] = r[1] /\ s[2] < r[2] => HasRow(s)
HasNewest  == \A r \in Runs : HasRow(r) => \E s \in Runs : s[1] = r[1] /\ IsTop(s)
\* A mission with a live run is not over.
Over       == \A r \in Runs : Live(r) => missions[r[1]] \notin Terminal
RowInv     == LiveNewest /\ InOrder /\ HasNewest /\ Over

\* Runs of one mission differ in their number.
LEMMA SameRun ==
  ASSUME NEW r \in Runs, NEW s \in Runs, r[1] = s[1], r[2] <= s[2], s[2] <= r[2]
  PROVE  r = s
<1>1. r[2] \in Nat /\ s[2] \in Nat
  BY BoundsAssumption DEF Runs
<1>2. r[2] = s[2]
  BY <1>1
<1>3. QED BY <1>2 DEF Runs

LEMMA OneTop ==
  ASSUME NEW r \in Runs, NEW s \in Runs, IsTop(r), IsTop(s), r[1] = s[1] PROVE r = s
  BY SameRun DEF IsTop

LEMMA OneLive ==
  ASSUME RowInv, NEW r \in Runs, NEW s \in Runs, Live(r), Live(s), r[1] = s[1] PROVE r = s
  BY OneTop DEF RowInv, LiveNewest

\* What current_for_mission and latest_for_mission find.
LEMMA NewestFound ==
  ASSUME NEW S, S \subseteq Runs
  PROVE  /\ Newest(S) # None => /\ Newest(S) \in S /\ IsNewest(Newest(S), S)
         /\ \A r \in S : IsNewest(r, S) => Newest(S) # None
<1>1. CASE \E r \in S : IsNewest(r, S)
  <2>1. Newest(S) \in S /\ IsNewest(Newest(S), S)
    BY <1>1 DEF Newest
  <2>2. None \notin S
    BY NamesAssumption
  <2>3. QED BY <2>1, <2>2
<1>2. CASE ~\E r \in S : IsNewest(r, S)
  BY <1>2 DEF Newest
<1>3. QED BY <1>1, <1>2

LEMMA CurrentFound ==
  ASSUME RowInv, NEW m \in Missions
  PROVE  /\ Current(m) # None => Current(m) \in Runs /\ Current(m)[1] = m /\ Live(Current(m))
         /\ Current(m) = None => \A r \in Runs : r[1] = m => ~Live(r)
<1> DEFINE S == {r \in RunsOf(m) : runs[r].status \notin Terminal}
<1>1. S = {r \in Runs : r[1] = m /\ Live(r)}
  BY DEF RunsOf, Live, HasRow
<1>2. Current(m) = Newest(S)
  BY DEF Current
<1>3. \A r \in S : IsNewest(r, S)
  BY <1>1 DEF RowInv, LiveNewest, IsTop, IsNewest, Live
<1> HIDE DEF S
<1>4. S \subseteq Runs
  BY <1>1
<1>5. QED BY <1>1, <1>2, <1>3, <1>4, NewestFound

LEMMA LatestFound ==
  ASSUME RowInv, NEW m \in Missions
  PROVE  /\ Latest(m) # None => Latest(m) \in Runs /\ Latest(m)[1] = m /\ IsTop(Latest(m))
         /\ Latest(m) = None => \A r \in Runs : r[1] = m => ~HasRow(r)
<1> DEFINE S == RunsOf(m)
<1>1. S = {r \in Runs : r[1] = m /\ HasRow(r)}
  BY DEF RunsOf, HasRow
<1>2. Latest(m) = Newest(S)
  BY DEF Latest
<1> HIDE DEF S
<1>3. S \subseteq Runs
  BY <1>1
<1>4. CASE Latest(m) # None
  BY <1>1, <1>2, <1>3, <1>4, NewestFound DEF IsTop, IsNewest
<1>5. ASSUME Latest(m) = None, NEW r \in Runs, r[1] = m, HasRow(r) PROVE FALSE
  <2>1. PICK s \in Runs : s[1] = m /\ IsTop(s)
    BY <1>5 DEF RowInv, HasNewest
  <2>2. s \in S /\ IsNewest(s, S)
    BY <1>1, <2>1 DEF IsTop, IsNewest
  <2>3. QED BY <1>2, <1>3, <1>5, <2>2, NewestFound
<1>6. QED BY <1>4, <1>5

\* A step that inserts no row and makes no run live keeps the rows in order.
LEMMA RowsKept ==
  ASSUME RowInv, \A r \in Runs : HasRow(r)' <=> HasRow(r),
         \A r \in Runs : Live(r)' => Live(r) /\ missions'[r[1]] \notin Terminal
  PROVE  RowInv'
<1>1. \A r \in Runs : IsTop(r)' <=> IsTop(r)
  BY DEF IsTop, HasRow
<1>2. LiveNewest'
  BY <1>1 DEF RowInv, LiveNewest, Live, HasRow, IsTop
<1>3. InOrder'
  BY DEF RowInv, InOrder, HasRow
<1>4. HasNewest'
  BY <1>1 DEF RowInv, HasNewest, HasRow, IsTop
<1>5. Over'
  BY DEF Over, Live, HasRow
<1>6. QED BY <1>2, <1>3, <1>4, <1>5 DEF RowInv

LEMMA StatusRows ==
  ASSUME RowInv, SameStatus
  PROVE  RowInv' /\ \A r \in Runs : Live(r)' <=> Live(r)
<1>1. \A r \in Runs : (HasRow(r)' <=> HasRow(r)) /\ (Live(r)' <=> Live(r))
  BY DEF SameStatus, HasRow, Live
<1>2. QED BY <1>1, RowsKept DEF RowInv, Over, SameStatus

\* A live run and its mission are moved: the mission has no other live run.
LEMMA AppliedRows ==
  ASSUME TypeInv, RowInv, NEW r \in Runs, NEW t \in MissionStatus, Live(r), Applied(r, t)
  PROVE  /\ RowInv'
         /\ \A s \in Runs : s # r => (Live(s)' <=> Live(s))
         /\ t \notin Terminal => Live(r)'
<1>1. missions \in [Missions -> MissionStatus] /\ r[1] \in Missions
  BY DEF TypeInv, TypeOK, Runs
<1>2. t # "absent"
  BY DEF MissionStatus, Terminal
<1>3. \A s \in Runs : HasRow(s)' <=> HasRow(s)
  BY <1>2 DEF Applied, HasRow, Live
<1>4. \A s \in Runs : s # r => (Live(s)' <=> Live(s))
  BY DEF Applied, HasRow, Live
<1>5. t \notin Terminal => Live(r)'
  BY <1>2 DEF Applied, HasRow, Live
<1>6. ASSUME NEW s \in Runs, Live(s)' PROVE Live(s) /\ missions'[s[1]] \notin Terminal
  <2>1. Live(s)
    BY <1>4, <1>6
  <2>2. missions[s[1]] \notin Terminal
    BY <2>1 DEF RowInv, Over
  <2>3. CASE missions' = missions
    BY <2>1, <2>2, <2>3
  <2>4. CASE Applies(r, t) /\ missions' = [missions EXCEPT ![r[1]] = t]
    <3>1. s[1] \in Missions
      BY DEF Runs
    <3>2. CASE s[1] # r[1]
      BY <1>1, <2>1, <2>2, <2>4, <3>1, <3>2
    <3>3. CASE s[1] = r[1]
      <4>1. s = r
        BY <2>1, <3>3, OneLive
      <4>2. t \notin Terminal
        BY <1>6, <2>4, <4>1 DEF Live, Applied
      <4>3. QED BY <1>1, <2>1, <2>4, <3>3, <4>2
    <3>4. QED BY <3>2, <3>3
  <2>5. QED BY <2>3, <2>4 DEF Applied
<1>7. QED BY <1>3, <1>4, <1>5, <1>6, RowsKept

\* A run is inserted for a mission that is not over and has no live run.
LEMMA CreatedRows ==
  ASSUME TypeInv, RowInv, NEW m \in Missions, NEW r \in Runs, Created(m, r),
         missions[m] \notin Terminal, \A s \in Runs : s[1] = m => ~Live(s)
  PROVE  RowInv' /\ (\A s \in Runs : Live(s) => Live(s)') /\ Live(r)' /\ IsTop(r)'
<1>1. /\ r[1] = m /\ ~HasRow(r) /\ \A i \in 1 .. (r[2] - 1) : HasRow(<<m, i>>)
      /\ OthersKept(r) /\ missions' = missions
  BY DEF Created, NextRun, HasRow
<1>2. /\ \A s \in Runs : s # r => (HasRow(s)' <=> HasRow(s)) /\ (Live(s)' <=> Live(s))
      /\ HasRow(r)' /\ Live(r)'
  BY DEF Created, OthersKept, HasRow, Live, FreshRun, Terminal
<1>3. ASSUME NEW s \in Runs, s[1] = m, HasRow(s)' PROVE s[2] <= r[2]
  <2>1. r[2] \in Nat /\ s[2] \in Nat
    BY BoundsAssumption DEF Runs
  <2>2. s # r /\ r[2] < s[2] => FALSE
    BY <1>1, <1>2, <1>3 DEF RowInv, InOrder
  <2>3. QED BY <2>1, <2>2
<1>4. IsTop(r)'
  BY <1>1, <1>2, <1>3 DEF IsTop
<1>5. ASSUME NEW s \in Runs, s[1] # m PROVE IsTop(s)' <=> IsTop(s)
  BY <1>1, <1>2, <1>5 DEF IsTop
<1>6. LiveNewest'
  BY <1>1, <1>2, <1>4, <1>5 DEF RowInv, LiveNewest
<1>7. InOrder'
  <2>1. ASSUME NEW s \in Runs, s[1] = m, s[2] < r[2] PROVE HasRow(s)
    <3>1. s = <<m, s[2]>> /\ s[2] \in 1 .. MaxRuns /\ r[2] \in 1 .. MaxRuns
      BY <2>1 DEF Runs
    <3>2. s[2] \in 1 .. (r[2] - 1)
      BY <2>1, <3>1, BoundsAssumption
    <3>3. QED BY <1>1, <3>1, <3>2
  <2>2. QED BY <1>1, <1>2, <2>1 DEF RowInv, InOrder
<1>8. HasNewest'
  BY <1>1, <1>2, <1>4, <1>5 DEF RowInv, HasNewest
<1>9. Over'
  BY <1>1, <1>2 DEF RowInv, Over
<1>10. QED BY <1>2, <1>4, <1>6, <1>7, <1>8, <1>9 DEF RowInv

-------------------------------------------------------------------------------
(* What goes with the rows: the waits, the workers and the handler that    *)
(* holds the loop.                                                         *)

\* A wait names the run that made it.
WaitRuns == \A w \in WaitIds : waits[w].state # "absent" => HasRow(waits[w].run)
\* A process that is down executes nothing.
Down == node = "down" => LoopFree /\ \A m \in Missions : exec[m].pc = "idle"
\* A worker in an await works on a live run.
Working == \A m \in Missions : exec[m].pc \in Suspended => Live(exec[m].run)
\* What the handler holding the loop found in its last transaction still holds.
Held ==
  /\ loop.do \in {"acquired", "queue", "cancel", "ack", "pause", "wait"} => Live(loop.r)
  /\ loop.do = "acquired" => runs[loop.r].status = "active"
  /\ loop.do \in {"iterate", "finish", "acquired", "wait"} => loop.r = exec[loop.e].run
  /\ loop.do \in {"cancel", "cancel_waits"} /\ loop.e # None => loop.r = exec[loop.e].run
  /\ loop.do = "cancel_waits" => ~Live(loop.r)
  /\ loop.do \in {"ack", "pause"} \/ (loop.do = "cancel" /\ loop.e = None)
       => ~HasTask(loop.r[1])
  /\ loop.do = "retry" => /\ missions[loop.r[1]] = "queued"
                          /\ \A r \in Runs : r[1] = loop.r[1] => ~Live(r)
Steady == OwnRuns /\ RowInv /\ WaitRuns /\ Down /\ Working /\ Held

\* A wait is made for a request of a worker's run, and names that run for ever.
WaitOwners ==
  \A w \in WaitIds : waits'[w].state # "absent" =>
    \/ waits[w].state # "absent" /\ waits'[w].run = waits[w].run
    \/ /\ Requests # {}
       /\ \E m \in Missions : exec[m].pc # "idle" /\ waits'[w].run = exec[m].run

LEMMA StepWaitOwners ==
  ASSUME Callers = {}, TypeInv, [Next]_vars PROVE WaitOwners
<1>1. Executors = Missions
  BY DEF Executors
<1>2. ASSUME waits' = waits PROVE WaitOwners
  BY <1>2 DEF WaitOwners
<1>3. ASSUME NEW w \in WaitIds, waits[w].state # "absent", NEW s, waits' = [waits EXCEPT ![w].state = s]
      PROVE  WaitOwners
  <2>1. waits[w] \in WaitRow
    BY DEF TypeInv, TypeOK
  <2>2. [waits[w] EXCEPT !.state = s].run = waits[w].run
    BY <2>1 DEF WaitRow
  <2>3. QED BY <1>3, <2>2 DEF WaitOwners, TypeInv, TypeOK
<1>4. ASSUME NEW w \in WaitIds, waits[w].state # "absent", NEW s, waits' = [waits EXCEPT ![w].resume = s]
      PROVE  WaitOwners
  <2>1. waits[w] \in WaitRow
    BY DEF TypeInv, TypeOK
  <2>2. [waits[w] EXCEPT !.resume = s].run = waits[w].run
    BY <2>1 DEF WaitRow
  <2>3. QED BY <1>4, <2>2 DEF WaitOwners, TypeInv, TypeOK
<1>5. loop.do \in OnWait => loop.w \in WaitIds /\ waits[loop.w].state # "absent"
  BY DEF TypeInv, Shape
<1>6. CASE SatisfyWait
  BY <1>3, <1>5, <1>6 DEF SatisfyWait, OnWait
<1>7. CASE ClaimResume
  BY <1>2, <1>4, <1>5, <1>7 DEF ClaimResume, OnWait
<1>8. CASE CancelMissionWaits
  <2>1. ASSUME NEW w \in WaitIds
        PROVE  waits'[w].run = waits[w].run /\ (waits[w].state = "absent" => waits'[w] = waits[w])
    <3>1. waits[w] \in WaitRow
      BY DEF TypeInv, TypeOK
    <3>2. [waits[w] EXCEPT !.state = "cancelled"].run = waits[w].run
      BY <3>1 DEF WaitRow
    <3>3. /\ waits'[w] = waits[w] \/ waits'[w] = [waits[w] EXCEPT !.state = "cancelled"]
          /\ waits[w].state = "absent" => waits'[w] = waits[w]
      BY <1>8 DEF CancelMissionWaits, PendingOf
    <3>4. QED BY <3>2, <3>3
  <2>2. QED BY <2>1 DEF WaitOwners
<1>9. ASSUME NEW e \in Missions, NEW q \in Requests, NEW deadline \in BOOLEAN,
             DecidesReplyWait(e, q, deadline)
      PROVE  WaitOwners
  <2> DEFINE r == exec[e].run
             wait == [NoWait EXCEPT !.run = r, !.request = q, !.deadline = deadline]
             a == [wait EXCEPT !.state = "satisfied", !.resume = "inline"]
             b == [wait EXCEPT !.state = "pending"]
  <2>1. exec[e].pc # "idle"
    BY <1>9 DEF DecidesReplyWait, Answered
  <2>2. a.run = r /\ b.run = r
    BY DEF NoWait
  <2>3. \/ waits' = waits
        \/ \E w \in WaitIds : waits' = [waits EXCEPT ![w] = a] \/ waits' = [waits EXCEPT ![w] = b]
    BY <1>9 DEF DecidesReplyWait
  <2> HIDE DEF a, b
  <2>4. QED BY <2>1, <2>2, <2>3 DEF WaitOwners, TypeInv, TypeOK
<1>10. ASSUME NEW w \in WaitIds, TimeOutWait(w) \/ CancelWait(w) PROVE WaitOwners
  BY <1>3, <1>10 DEF TimeOutWait, CancelWait, Due
<1>11. CASE LoopStep
  <2>1. \/ SatisfyWait \/ ClaimResume \/ CancelMissionWaits \/ waits' = waits
    BY <1>11 DEF LoopStep, MissionActive, EndRun, EnterWaiting, Requeue, Queue, EnqueueRetry,
                 CreateRun, StepAcquires, Acquire, PauseDirectly, AcknowledgeDirectly,
                 MoveToCancelled, IterationStopped, AcknowledgeCancel, PauseAtBoundary,
                 BudgetGate, BeginIteration, rows
  <2>2. QED BY <1>2, <1>6, <1>7, <1>8, <2>1
<1>12. CASE Worker
  <2>1. ASSUME NEW e \in Missions, Answer(e) PROVE WaitOwners
    <3>1. \/ waits' = waits
          \/ \E q \in Requests, deadline \in BOOLEAN : DecidesReplyWait(e, q, deadline)
      BY <2>1 DEF Answer, CoordinatorUnusable, CoordinatorFails, InvalidDecision, DecidesComplete,
                  CompletionRefused, DecidesBlocked, DecidesWait, DecidesRoute, SendsPeerMessage,
                  PeerMessageRefused
    <3>2. QED BY <1>2, <1>9, <3>1
  <2>2. ASSUME NEW e \in Missions, RouteAnswer(e) \/ BackoffEnds(e) PROVE waits' = waits
    BY <2>2 DEF RouteAnswer, RouteReturns, CodingSandboxFails, BackoffEnds, rows
  <2>3. ASSUME NEW m \in Missions, BeginTask(m) \/ WindDown(m) \/ HeartbeatLost(m)
        PROVE  waits' = waits
    BY <2>3 DEF BeginTask, Acquire, WindDown, HeartbeatLost, rows
  <2>4. ASSUME NEW r \in Runs, Schedule(r) \/ LeaseExpires(r) PROVE waits' = waits
    BY <2>4 DEF Schedule, LeaseExpires, rows
  <2>5. QED BY <1>1, <1>2, <1>12, <2>1, <2>2, <2>3, <2>4 DEF Worker
<1>13. CASE Operator
  <2>1. ASSUME NEW m \in Missions, \/ StartMission(m) \/ RetryMission(m) \/ PauseMission(m)
                                   \/ ResumeMission(m) \/ CancelMission(m)
        PROVE  waits' = waits
    BY <2>1 DEF StartMission, CreateRun, RetryMission, PauseMission, ResumeMission, CancelMission, rows
  <2>2. QED BY <1>2, <1>10, <1>13, <2>1 DEF Operator
<1>14. CASE Process
  <2>1. waits' = waits
    BY <1>14 DEF Process, StartWorkers, BecomeReady, BeginShutdown, Stopped, Crash, RecoverWait,
                 CancelTask, rows
  <2>2. QED BY <1>2, <2>1
<1>15. ASSUME NEW q \in Requests, ReplyArrives(q) PROVE WaitOwners
  BY <1>2, <1>15 DEF ReplyArrives
<1>16. CASE UNCHANGED vars
  BY <1>2, <1>16 DEF vars
<1>17. QED
  BY <1>10, <1>11, <1>12, <1>13, <1>14, <1>15, <1>16 DEF Next, Peer, Deadline

LEMMA StepWaitRuns ==
  ASSUME Callers = {}, TypeInv, Steady, [Next]_vars PROVE WaitRuns'
<1>1. RowsStay /\ WaitOwners /\ Executors = Missions
  BY StepOwn, StepWaitOwners DEF Steady, Executors
<1>2. \A w \in WaitIds : waits[w].state # "absent" => waits[w].run \in Runs
  BY DEF TypeInv, Shape
<1>3. \A m \in Missions : exec[m].pc # "idle" => exec[m].run \in Runs /\ HasRow(exec[m].run)
  BY <1>1, CountedType DEF Steady, OwnRuns
<1>4. ASSUME NEW w \in WaitIds, waits'[w].state # "absent"
      PROVE  waits'[w].run \in Runs /\ HasRow(waits'[w].run)
  BY <1>1, <1>2, <1>3, <1>4 DEF WaitOwners, Steady, WaitRuns
<1>5. QED BY <1>1, <1>4 DEF WaitRuns, RowsStay, HasRow

\* A step that leaves a worker on its run keeps it at work.
LEMMA WorkingKept ==
  ASSUME Working, \A m \in Missions : exec'[m].pc \in Suspended =>
                    /\ exec[m].pc \in Suspended /\ exec'[m].run = exec[m].run
                    /\ Live(exec[m].run) => Live(exec[m].run)'
  PROVE  Working'
  BY DEF Working, Live, HasRow

\* The loop is free, or goes on in a handler that relies on nothing but its run.
LEMMA HeldPassed ==
  ASSUME loop'.do \in Elsewhere \cup {"iterate", "finish"},
         loop'.do \in {"iterate", "finish"} => loop'.r = exec'[loop'.e].run
  PROVE  Held'
  BY DEF Held, Elsewhere

LEMMA HeldContinued ==
  ASSUME NEW e, exec'[e].run = exec[e].run, loop' \in {Free, Iterate(e), Finish(e)}
  PROVE  Held'
  BY HeldPassed DEF Free, Iterate, Finish, At, Elsewhere

LEMMA HeldFree == ASSUME LoopFree \/ loop' = Free, loop' = loop \/ loop' = Free PROVE Held'
  BY HeldPassed DEF LoopFree, Free, At, Elsewhere

Keeps == RowInv' /\ Working' /\ Held'

LEMMA WorksKeeps ==
  ASSUME Callers = {}, TypeInv, Steady, NEW m \in Missions, Works(m)
  PROVE  Keeps /\ Live(exec[m].run)
<1> DEFINE r == exec[m].run
<1>1. /\ Executors = Missions /\ r \in Runs /\ OnlyExec(m)
      /\ \A k \in Missions : k # m => /\ exec'[k] = exec[k]
                                      /\ exec[k].pc # "idle" => exec[k].run # r
  BY WorksOwn DEF Works, Steady, Executors
<1>2. Live(r)
  <2>1. runs[r].status = "active" \/ exec[m].pc \in Suspended
    BY DEF Works, Begins, Suspends, GoesRound, AwaitsReply, Ends, Suspended
  <2>2. QED BY <2>1 DEF Steady, Working, Live, HasRow, Terminal
<1>3. \A k \in Missions : exec[k].pc \in Suspended => exec[k].run \in Runs /\ exec[k].pc # "idle"
  BY <1>1, CountedType DEF Suspended
<1>4. CASE SameStatus
  <2>1. RowInv' /\ \A s \in Runs : Live(s)' <=> Live(s)
    BY <1>4, StatusRows DEF Steady
  <2>2. Working'
    BY <1>1, <1>2, <1>3, <2>1 DEF Steady, Working, OnlyExec, Live, HasRow
  <2>3. \/ loop' \in {Free, Iterate(m), Finish(m)}
        \/ \E w \in WaitIds : loop' = At("wait", m, r, w)
    BY <1>4 DEF Works, Begins, Suspends, GoesRound, AwaitsReply, Ends
  <2>4. CASE loop' \in {Free, Iterate(m), Finish(m)}
    BY <1>1, <1>2, <2>1, <2>2, <2>4, HeldContinued DEF OnlyExec, Keeps
  <2>5. ASSUME NEW w \in WaitIds, loop' = At("wait", m, r, w) PROVE Held'
    <3>1. runs'[r].status \notin Terminal \cup {"absent"}
      BY <1>1, <1>2, <2>1 DEF Live, HasRow
    <3>2. exec'[m].run = r
      BY <1>1 DEF OnlyExec
    <3>3. loop'.do = "wait" /\ loop'.r = r /\ loop'.e = m
      BY <2>5 DEF At
    <3>4. QED BY <3>1, <3>2, <3>3 DEF Held, Live, HasRow
  <2>6. QED BY <1>2, <2>1, <2>2, <2>3, <2>4, <2>5 DEF Keeps
<1>5. ASSUME Ends(m) PROVE Keeps
  <2>1. PICK t \in {"blocked", "completed", "waiting", "paused"} : Applied(r, t)
    BY <1>5 DEF Ends
  <2>2. t \in MissionStatus
    BY DEF MissionStatus, Terminal
  <2> HIDE DEF r
  <2>3. RowInv' /\ \A s \in Runs : s # r => (Live(s)' <=> Live(s))
    BY <1>1, <1>2, <2>1, <2>2, AppliedRows DEF Steady
  <2>4. \A k \in Missions : exec'[k].pc \in Suspended => k # m
    BY <1>5 DEF Ends, Suspended
  <2>5. Working'
    <3>1. \A k \in Missions : exec'[k].pc \in Suspended =>
            /\ exec'[k] = exec[k] /\ exec[k].run \in Runs /\ exec[k].run # r
      BY <1>1, <1>3, <2>4
    <3>2. QED BY <3>1, <2>3, WorkingKept DEF Steady
  <2>6. Held'
    BY <1>1, <1>5, HeldContinued DEF Ends, OnlyExec
  <2>7. QED BY <2>3, <2>5, <2>6 DEF Keeps
<1>6. QED
  BY <1>2, <1>4, <1>5 DEF Works, Begins, Suspends, GoesRound, AwaitsReply, Ends

LEMMA NotedKeeps ==
  ASSUME TypeInv, Steady, SameStatus, exec' = exec, Held' PROVE Keeps
<1>1. RowInv' /\ \A r \in Runs : Live(r)' <=> Live(r)
  BY StatusRows DEF Steady
<1>2. Working'
  BY DEF Steady, Working, SameStatus, Live, HasRow, Executors, TypeInv, TypeOK, Shape, Suspended
<1>3. QED BY <1>1, <1>2 DEF Keeps

LEMMA MovedKeeps ==
  ASSUME Callers = {}, TypeInv, Steady, NEW r \in Runs, NEW t \in MissionStatus, Live(r),
         Moved(r, t), Held', \/ t \notin Terminal
                             \/ \A m \in Missions : exec[m].pc \in Suspended => exec[m].run # r
  PROVE  Keeps
<1>1. /\ RowInv' /\ \A s \in Runs : s # r => (Live(s)' <=> Live(s))
      /\ t \notin Terminal => Live(r)'
  BY AppliedRows DEF Steady, Moved
<1>2. \A k \in Missions : exec[k].pc \in Suspended => exec[k].run \in Runs
  BY CountedType DEF Suspended, Executors
<1>3. Working'
  BY <1>1, <1>2, WorkingKept DEF Steady, Moved
<1>4. QED BY <1>1, <1>3 DEF Keeps

NoReopen == \A r \in Runs : ~Reopened(r)

\* A reply queues the live run that waits for it, unless it reopens one.
LEMMA RequeueKeeps ==
  ASSUME Callers = {}, TypeInv, Steady, NoReopen, Requeue
  PROVE  /\ Keeps
         /\ LET r == waits[loop.w].run
            IN  runs' = runs \/ Live(r)
<1> DEFINE r == waits[loop.w].run
<1>1. /\ r \in Runs /\ HasRow(r) /\ OthersKept(r) /\ exec' = exec /\ loop' = Free
      /\ \/ missions' = missions /\ runs' = runs
         \/ /\ missions[r[1]] = "waiting" /\ runs'[r].status = "queued"
            /\ missions' = [missions EXCEPT ![r[1]] = "queued"]
  BY RequeueEffect DEF Steady, WaitRuns
<1>2. Held'
  BY <1>1, HeldFree
<1> HIDE DEF r
<1>3. CASE missions' = missions /\ runs' = runs
  BY <1>1, <1>2, <1>3, NothingWritten, NotedKeeps DEF r
<1>4. CASE /\ missions[r[1]] = "waiting" /\ runs'[r].status = "queued"
           /\ missions' = [missions EXCEPT ![r[1]] = "queued"]
  <2>1. Live(r)
    BY <1>1, <1>4 DEF NoReopen, Reopened, Live, HasRow, Terminal
  <2>2. \A s \in Runs : (HasRow(s)' <=> HasRow(s)) /\ (Live(s)' <=> Live(s))
    BY <1>1, <1>4, <2>1 DEF OthersKept, HasRow, Live, Terminal
  <2>3. \A m \in Missions : missions'[m] = missions[m] \/ missions'[m] = "queued"
    BY <1>4 DEF TypeInv, TypeOK
  <2>4. \A s \in Runs : s[1] \in Missions
    BY DEF Runs
  <2>5. \A s \in Runs : Live(s)' => Live(s) /\ missions'[s[1]] \notin Terminal
    BY <2>2, <2>3, <2>4 DEF Steady, RowInv, Over, Terminal
  <2>6. RowInv'
    BY <2>2, <2>5, RowsKept DEF Steady
  <2>7. \A k \in Missions : exec[k].pc \in Suspended => exec[k].run \in Runs
    BY CountedType DEF Suspended, Executors
  <2>8. Working'
    BY <1>1, <2>2, <2>7, WorkingKept DEF Steady
  <2>9. QED BY <1>2, <2>1, <2>6, <2>8 DEF Keeps, r
<1>5. QED BY <1>1, <1>3, <1>4

LEMMA LoopStepKeeps ==
  ASSUME Callers = {}, TypeInv, Steady, NoReopen, LoopStep PROVE Keeps
<1>1. Executors = Missions /\ NoStep
  BY DEF Executors, Steady, OwnRuns
<1>2. /\ {"active", "waiting", "queued", "paused", "cancelled"} \subseteq MissionStatus
      /\ {"active", "waiting", "queued", "paused"} \cap Terminal = {}
  BY DEF MissionStatus, Terminal
<1>3. loop.do \in OnRun => loop.r \in Runs
  BY DEF TypeInv, Shape
<1>4. CASE MissionActive \/ EnterWaiting \/ Queue \/ PauseDirectly
  <2>1. loop.r \in Runs /\ Live(loop.r)
    BY <1>3, <1>4 DEF MissionActive, EnterWaiting, Queue, PauseDirectly, OnRun, Steady, Held
  <2>2. Held'
    BY <1>1, <1>4, HeldContinued DEF MissionActive, EnterWaiting, Queue, PauseDirectly, NoStep
  <2>3. PICK t \in {"active", "waiting", "queued", "paused"} : Moved(loop.r, t)
    BY <1>4, Moves
  <2>4. QED BY <1>2, <2>1, <2>2, <2>3, MovedKeeps
<1>5. CASE MoveToCancelled
  <2>1. loop.r \in Runs /\ Live(loop.r) /\ Moved(loop.r, "cancelled") /\ exec' = exec
    BY <1>3, <1>5, Moves DEF MoveToCancelled, OnRun, Steady, Held, Moved
  <2>2. ASSUME NEW m \in Missions, exec[m].pc \in Suspended PROVE exec[m].run # loop.r
    <3>1. exec[m].pc # "idle" /\ exec[m].run[1] = m
      BY <2>2 DEF Suspended, Steady, OwnRuns
    <3>2. CASE loop.e = None
      BY <1>5, <3>1, <3>2 DEF MoveToCancelled, Steady, Held, HasTask
    <3>3. CASE loop.e # None
      <4>1. loop.r = exec[loop.e].run /\ exec[loop.e].pc = "running"
        BY <1>5, <3>3 DEF MoveToCancelled, Steady, Held, TypeInv, Shape
      <4>2. loop.e \in Missions
        BY <1>1, <3>3 DEF TypeInv, TypeOK, LoopRow
      <4>3. loop.e # m /\ exec[loop.e].run[1] = loop.e
        BY <2>2, <4>1, <4>2 DEF Suspended, Steady, OwnRuns
      <4>4. QED BY <3>1, <4>1, <4>3
    <3>4. QED BY <3>2, <3>3
  <2>3. Held'
    <3>1. CASE Applies(loop.r, "cancelled")
      <4>1. runs'[loop.r].status = "cancelled"
        BY <2>1, <3>1 DEF Moved, Applied
      <4>2. loop' = [loop EXCEPT !.do = "cancel_waits"]
        BY <1>5, <3>1 DEF MoveToCancelled
      <4>3. loop'.do = "cancel_waits" /\ loop'.e = loop.e /\ loop'.r = loop.r
        BY <4>2 DEF TypeInv, TypeOK, LoopRow
      <4>4. loop.e # None => loop.r = exec[loop.e].run
        BY <1>5 DEF MoveToCancelled, Steady, Held
      <4>5. QED BY <2>1, <4>1, <4>3, <4>4 DEF Held, Live, Terminal
    <3>2. CASE ~Applies(loop.r, "cancelled")
      BY <1>5, <2>1, <3>2, HeldContinued DEF MoveToCancelled, CancelDone
    <3>3. QED BY <3>1, <3>2
  <2>4. QED BY <1>2, <2>1, <2>2, <2>3, MovedKeeps
<1>6. CASE CancelMissionWaits \/ \E e \in Executors : IterationStopped(e)
  <2>1. SameStatus /\ exec' = exec
    BY <1>6, NothingWritten DEF CancelMissionWaits, IterationStopped, rows
  <2>2. Held'
    BY <1>6, <2>1, HeldContinued DEF CancelMissionWaits, CancelDone, IterationStopped
  <2>3. QED BY <2>1, <2>2, NotedKeeps
<1>7. CASE SatisfyWait \/ ClaimResume
  <2>1. Hands
    BY <1>7, HandsOn
  <2>2. Held'
    BY <2>1, HeldPassed DEF Hands, Elsewhere
  <2>3. QED BY <2>1, <2>2, NotedKeeps DEF Hands, Noted
<1>8. CASE EndRun
  <2>1. loop.e \in Missions
    BY <1>1, <1>8 DEF EndRun, TypeInv, Shape, ByExec
  <2>2. Alone(loop.e) /\ OnlyExec(loop.e) /\ exec'[loop.e].pc = "winddown" /\ loop' = Free
    BY <1>8, <2>1, AloneEffect
  <2>3. SameStatus
    BY <2>2, NothingWritten DEF Alone
  <2>4. RowInv' /\ \A r \in Runs : Live(r)' <=> Live(r)
    BY <2>3, StatusRows DEF Steady
  <2>5. Working'
    BY <1>1, <2>1, <2>2 DEF Alone, Steady, Working, Suspended, Live, HasRow
  <2>6. QED BY <2>2, <2>4, <2>5, HeldFree DEF Keeps
<1>9. CASE EnqueueRetry
  <2> DEFINE m == loop.r[1]
  <2>1. /\ loop.r \in Runs /\ m \in Missions /\ missions[m] \notin Terminal
        /\ \A s \in Runs : s[1] = m => ~Live(s)
    BY <1>3, <1>9 DEF EnqueueRetry, OnRun, Steady, Held, Runs, Terminal
  <2>2. PICK r \in Runs : Created(m, r)
    BY <1>9, CreateRunEffect DEF EnqueueRetry
  <2> HIDE DEF m
  <2>3. RowInv' /\ (\A s \in Runs : Live(s) => Live(s)') /\ Live(r)'
    BY <2>1, <2>2, CreatedRows DEF Steady
  <2>4. \A k \in Missions : exec[k].pc \in Suspended => exec[k].run \in Runs
    BY <1>1, CountedType DEF Suspended
  <2>5. Working'
    BY <2>2, <2>3, <2>4, WorkingKept DEF Created, Steady
  <2>6. Held'
    BY <2>2, <2>3 DEF Created, Held, At
  <2>7. QED BY <2>3, <2>5, <2>6 DEF Keeps
<1>10. CASE AcknowledgeDirectly
  <2>1. Acked(loop.r) /\ loop.r \in Runs
    BY <1>10, Acknowledged
  <2>2. Live(loop.r) /\ ~HasTask(loop.r[1])
    BY <1>10 DEF AcknowledgeDirectly, Steady, Held
  <2>3. runs'[loop.r].status \notin Terminal \cup {"absent"}
    BY <2>1, <2>2 DEF Acked, SameStatus, Live, HasRow
  <2>4. loop'.do = "cancel" /\ loop'.e = None /\ loop'.r = loop.r /\ exec' = exec
    BY <1>10 DEF AcknowledgeDirectly, At
  <2>5. Held'
    BY <2>2, <2>3, <2>4 DEF Held, Live, HasRow, HasTask
  <2>6. QED BY <2>1, <2>5, NotedKeeps DEF Acked
<1>11. ASSUME NEW e \in Missions, AcknowledgeCancel(e) PROVE Keeps
  <2>1. Acked(exec[e].run) /\ exec[e].run \in Runs
    BY <1>11, Acknowledged
  <2>2. runs'[exec[e].run].status = "active"
    BY <1>11, <2>1 DEF AcknowledgeCancel, Proceeds, Acked, SameStatus
  <2>3. loop'.do = "cancel" /\ loop'.e = e /\ loop'.r = exec[e].run /\ exec' = exec
    BY <1>11 DEF AcknowledgeCancel, At
  <2>4. e # None
    BY <1>1, NamesAssumption
  <2>5. Held'
    BY <2>2, <2>3, <2>4 DEF Held, Live, HasRow, Terminal
  <2>6. QED BY <2>1, <2>5, NotedKeeps DEF Acked
<1>12. ASSUME NEW e \in Missions, PauseAtBoundary(e) \/ BudgetGate(e) \/ BeginIteration(e)
       PROVE  Keeps
  BY <1>12, TurnWorks, WorksKeeps
<1>13. CASE StepAcquires
  BY <1>1, <1>13 DEF StepAcquires, NoStep
<1>14. QED
  BY <1>1, <1>4, <1>5, <1>6, <1>7, <1>8, <1>9, <1>10, <1>11, <1>12, <1>13, RequeueKeeps
     DEF LoopStep

LEMMA AloneKeeps ==
  ASSUME Callers = {}, TypeInv, Steady, NEW m \in Missions, Alone(m), LoopFree, loop' = loop,
         exec'[m].pc \in Suspended => exec'[m].pc = exec[m].pc /\ exec'[m].run = exec[m].run
  PROVE  Keeps
<1>1. Executors = Missions
  BY DEF Executors
<1>2. RowInv' /\ \A r \in Runs : Live(r)' <=> Live(r)
  BY NothingWritten, StatusRows DEF Steady, Alone
<1>3. Working'
  BY <1>1 DEF Alone, Steady, Working, Live, HasRow
<1>4. QED BY <1>2, <1>3, HeldFree DEF Keeps

LEMMA AcquiredKeeps ==
  ASSUME Callers = {}, TypeInv, Steady, NEW m \in Missions, NEW r \in Runs, Acquired(m, r)
  PROVE  Keeps
<1>1. \A s \in Runs : /\ HasRow(s)' <=> HasRow(s)
                      /\ Live(s)' <=> Live(s)
  BY DEF Acquired, OthersKept, HasRow, Live, Terminal
<1>2. Live(r) /\ missions' = missions
  BY DEF Acquired, Live, HasRow, Terminal
<1>3. RowInv'
  BY <1>1, <1>2, RowsKept DEF Steady, RowInv, Over
<1>4. \A k \in Missions : exec[k].pc \in Suspended => exec[k].run \in Runs
  BY CountedType DEF Suspended, Executors
<1>5. Working'
  <2>1. \A k \in Missions : exec'[k].pc \in Suspended => k # m /\ exec'[k] = exec[k]
    BY DEF Acquired, Suspended, Executors
  <2>2. QED BY <1>1, <1>4, <2>1, WorkingKept DEF Steady
<1>6. Held'
  <2>1. loop'.do = "acquired" /\ loop'.e = m /\ loop'.r = r
    BY DEF Acquired, At
  <2>2. exec'[m].run = r /\ runs'[r].status = "active"
    BY DEF Acquired
  <2>3. QED BY <2>1, <2>2 DEF Held, Live, HasRow, Terminal
<1>7. QED BY <1>3, <1>5, <1>6 DEF Keeps

LEMMA WorkerKeeps ==
  ASSUME Callers = {}, TypeInv, Steady, Worker PROVE Keeps
<1>1. Executors = Missions
  BY DEF Executors
<1>2. ASSUME NEW r \in Runs, Schedule(r) PROVE Keeps
  <2>1. r[1] \in Missions /\ LoopFree
    BY <1>2 DEF Schedule, Runs
  <2>2. Alone(r[1]) /\ exec'[r[1]].pc = "scheduled" /\ loop' = loop
    BY <1>2, <2>1, AloneEffect
  <2>3. QED BY <2>1, <2>2, AloneKeeps DEF Suspended
<1>3. ASSUME NEW r \in Runs, LeaseExpires(r) PROVE Keeps
  <2>1. SameStatus /\ exec' = exec /\ loop' = loop /\ LoopFree
    BY <1>3, ExpiryEffect DEF LeaseExpires
  <2>2. QED BY <2>1, HeldFree, NotedKeeps
<1>4. ASSUME NEW m \in Missions, BeginTask(m) PROVE Keeps
  <2>1. CASE runs' = runs
    <3>1. Alone(m) /\ exec'[m].pc = "idle" /\ loop' = loop /\ LoopFree
      BY <1>4, <2>1, AloneEffect DEF BeginTask
    <3>2. QED BY <3>1, AloneKeeps DEF Suspended
  <2>2. CASE runs' # runs
    <3>1. exec[m].run \in Runs
      BY <1>1, <1>4, CountedType DEF BeginTask
    <3>2. Acquired(m, exec[m].run)
      BY <1>1, <1>4, <2>2, <3>1, AcquireEffect DEF BeginTask, rows
    <3>3. QED BY <3>1, <3>2, AcquiredKeeps
  <2>3. QED BY <2>1, <2>2
<1>5. ASSUME NEW m \in Missions, WindDown(m) PROVE Keeps
  <2>1. /\ SameStatus /\ exec'[m].pc = "idle" /\ loop' = loop /\ LoopFree
        /\ \A k \in Missions : k # m => exec'[k] = exec[k]
    BY <1>1, <1>5, WindDownEffect
  <2>2. RowInv' /\ \A r \in Runs : Live(r)' <=> Live(r)
    BY <2>1, StatusRows DEF Steady
  <2>3. \A k \in Missions : exec[k].pc \in Suspended => exec[k].run \in Runs
    BY <1>1, CountedType DEF Suspended
  <2>4. \A k \in Missions : exec'[k].pc \in Suspended => exec'[k] = exec[k]
    BY <2>1 DEF Suspended
  <2>5. Working'
    BY <2>2, <2>3, <2>4, WorkingKept DEF Steady
  <2>6. QED BY <2>1, <2>2, <2>5, HeldFree DEF Keeps
<1>6. ASSUME NEW m \in Missions, HeartbeatLost(m) PROVE Keeps
  <2>1. /\ Alone(m) /\ exec'[m].pc = exec[m].pc /\ exec'[m].run = exec[m].run
        /\ loop' = loop /\ LoopFree
    BY <1>6, AloneEffect DEF HeartbeatLost
  <2>2. QED BY <2>1, AloneKeeps
<1>7. ASSUME NEW m \in Missions, Answer(m) \/ RouteAnswer(m) \/ BackoffEnds(m) PROVE Keeps
  BY <1>7, AnswerWorks, RouteAnswerWorks, BackoffWorks, WorksKeeps
<1>8. QED BY <1>1, <1>2, <1>3, <1>4, <1>5, <1>6, <1>7 DEF Worker

LEMMA OperatorKeeps ==
  ASSUME Callers = {}, TypeInv, Steady, Operator \/ Peer \/ Deadline PROVE Keeps
<1>1. Executors = Missions
  BY DEF Executors
<1>2. CASE Peer \/ Deadline \/ \E w \in WaitIds : CancelWait(w)
  <2>1. Hands
    BY <1>2, HandsOn
  <2>2. Held'
    BY <2>1, HeldPassed DEF Hands, Elsewhere
  <2>3. QED BY <2>1, <2>2, NotedKeeps DEF Hands, Noted
<1>3. ASSUME NEW m \in Missions, CreateRun(m, None), Current(m) = None, missions[m] \notin Terminal
      PROVE  Keeps
  <2>1. PICK r \in Runs : Created(m, r)
    BY <1>3, CreateRunEffect
  <2>2. RowInv' /\ (\A s \in Runs : Live(s) => Live(s)') /\ Live(r)'
    BY <1>3, <2>1, CurrentFound, CreatedRows DEF Steady
  <2>3. \A k \in Missions : exec[k].pc \in Suspended => exec[k].run \in Runs
    BY <1>1, CountedType DEF Suspended
  <2>4. Working'
    BY <2>1, <2>2, <2>3, WorkingKept DEF Created, Steady
  <2>5. Held'
    BY <2>1, <2>2 DEF Created, Held, At
  <2>6. QED BY <2>2, <2>4, <2>5 DEF Keeps
<1>4. ASSUME NEW m \in Missions, \/ PauseMission(m) \/ CancelMission(m)
                                 \/ StartMission(m) /\ runs' = runs
      PROVE  Keeps
  <2>1. PICK r : r = Current(m)
    OBVIOUS
  <2>2. /\ Noted
        /\ \/ loop' = Free
           \/ /\ r \in Runs
              /\ \E do \in {"queue", "pause", "ack"} :
                   loop' = At(do, None, r, 0) /\ (do # "queue" => ~HasTask(m))
    BY <1>4, <2>1, RequestNoted
  <2>3. Held'
    <3>1. CASE loop' = Free
      BY <3>1, HeldFree
    <3>2. ASSUME r \in Runs, NEW do \in {"queue", "pause", "ack"},
                 loop' = At(do, None, r, 0), do # "queue" => ~HasTask(m)
          PROVE  Held'
      <4>1. r # None
        BY <3>2, NamesAssumption
      <4>2. Live(r) /\ r[1] = m
        BY <2>1, <4>1, CurrentFound DEF Steady
      <4>3. runs'[r].status \notin Terminal \cup {"absent"} /\ exec' = exec
        BY <2>2, <3>2, <4>2 DEF Noted, SameStatus, Live, HasRow
      <4>4. loop'.do = do /\ loop'.e = None /\ loop'.r = r
        BY <3>2 DEF At
      <4>5. QED BY <3>2, <4>2, <4>3, <4>4 DEF Held, Live, HasRow, HasTask
    <3>3. QED BY <2>2, <3>1, <3>2
  <2>4. QED BY <2>2, <2>3, NotedKeeps DEF Noted
<1>5. ASSUME NEW m \in Missions, StartMission(m) PROVE Keeps
  BY <1>3, <1>4, <1>5 DEF StartMission, rows
<1>6. ASSUME NEW m \in Missions, RetryMission(m) PROVE Keeps
  <2>1. /\ missions' = [missions EXCEPT ![m] = "queued"] /\ runs' = runs /\ exec' = exec
        /\ \A r \in Runs : r[1] = m => ~Live(r)
    BY <1>6, CurrentFound DEF RetryMission, Steady
  <2>2. PICK r \in Runs : r[1] = m /\ loop' = At("retry", None, r, 0)
    BY <1>6 DEF RetryMission, NextRun
  <2>3. \A s \in Runs : (HasRow(s)' <=> HasRow(s)) /\ (Live(s)' <=> Live(s))
    BY <2>1 DEF HasRow, Live
  <2>4. \A s \in Runs : Live(s)' => Live(s) /\ missions'[s[1]] \notin Terminal
    BY <2>1, <2>3 DEF Steady, RowInv, Over, Runs, TypeInv, TypeOK
  <2>5. RowInv'
    BY <2>3, <2>4, RowsKept DEF Steady
  <2>6. \A k \in Missions : exec[k].pc \in Suspended => exec[k].run \in Runs
    BY <1>1, CountedType DEF Suspended
  <2>7. Working'
    BY <2>1, <2>3, <2>6, WorkingKept DEF Steady
  <2>8. loop'.do = "retry" /\ loop'.r = r /\ missions'[m] = "queued"
    BY <2>1, <2>2 DEF At, TypeInv, TypeOK
  <2>9. Held'
    BY <2>1, <2>2, <2>3, <2>8 DEF Held
  <2>10. QED BY <2>5, <2>7, <2>9 DEF Keeps
<1>7. ASSUME NEW m \in Missions, ResumeMission(m) PROVE Keeps
  <2>1. PICK r : r = Latest(m)
    OBVIOUS
  <2>2. r # None /\ runs[r].status \in {"paused", "waiting"} /\ loop' = loop /\ LoopFree
    BY <1>7, <2>1 DEF ResumeMission, Serving
  <2>3. Moved(r, "queued")
    BY <1>7, <2>1, Moves
  <2>4. r \in Runs /\ Live(r)
    BY <2>1, <2>2, NewestType DEF Live, HasRow, Terminal
  <2>5. "queued" \in MissionStatus \ Terminal
    BY DEF MissionStatus, Terminal
  <2>6. QED BY <2>2, <2>3, <2>4, <2>5, HeldFree, MovedKeeps
<1>8. QED BY <1>2, <1>4, <1>5, <1>6, <1>7 DEF Operator

LEMMA ProcessKeeps ==
  ASSUME Callers = {}, TypeInv, Steady, Process PROVE Keeps
<1>1. Executors = Missions
  BY DEF Executors
<1>2. CASE StartWorkers
  <2>1. LoopFree /\ (\A m \in Missions : exec[m].pc = "idle") /\ exec' = exec /\ loop' = loop
    BY <1>2 DEF StartWorkers, Steady, Down
  <2>2. \A r \in Runs : (HasRow(r)' <=> HasRow(r)) /\ (Live(r)' <=> Live(r))
    BY <1>2, ProcessEffect DEF HasRow, Live, Recoverable, Terminal
  <2>3. \A m \in Missions : missions'[m] = missions[m] \/ missions'[m] = "queued"
    BY <1>2 DEF StartWorkers
  <2>4. \A r \in Runs : Live(r)' => Live(r) /\ missions'[r[1]] \notin Terminal
    BY <2>2, <2>3 DEF Steady, RowInv, Over, Terminal, Runs
  <2>5. RowInv'
    BY <2>2, <2>4, RowsKept DEF Steady
  <2>6. Working'
    BY <2>1 DEF Working, Suspended
  <2>7. QED BY <2>1, <2>5, <2>6, HeldFree DEF Keeps
<1>3. CASE Crash
  <2>1. SameStatus
    BY <1>3, ProcessEffect DEF SameStatus, Crash
  <2>2. RowInv' /\ loop' = Free /\ \A m \in Missions : exec'[m].pc = "idle"
    BY <1>1, <1>3, <2>1, StatusRows DEF Steady, Crash, Idle
  <2>3. Working'
    BY <2>2 DEF Working, Suspended
  <2>4. QED BY <2>2, <2>3, HeldFree DEF Keeps
<1>4. CASE BecomeReady \/ BeginShutdown \/ Stopped
  <2>1. SameStatus /\ exec' = exec /\ loop' = loop /\ LoopFree
    BY <1>4, NothingWritten DEF BecomeReady, BeginShutdown, Stopped, Serving, rows
  <2>2. QED BY <2>1, HeldFree, NotedKeeps
<1>5. ASSUME NEW w \in WaitIds, RecoverWait(w) PROVE Keeps
  <2>1. Hands
    BY <1>5, HandsOn
  <2>2. Held'
    BY <2>1, HeldPassed DEF Hands, Elsewhere
  <2>3. QED BY <2>1, <2>2, NotedKeeps DEF Hands, Noted
<1>6. ASSUME NEW m \in Missions, CancelTask(m) PROVE Keeps
  <2>1. Alone(m) /\ exec'[m].pc = "winddown" /\ loop' = loop /\ LoopFree
    BY <1>6, AloneEffect DEF CancelTask
  <2>2. QED BY <2>1, AloneKeeps DEF Suspended
<1>7. QED BY <1>2, <1>3, <1>4, <1>5, <1>6 DEF Process

\* Nothing runs while the process is down.
LEMMA StepDown ==
  ASSUME Callers = {}, TypeInv, Down, [Next]_vars PROVE Down'
<1> SUFFICES ASSUME node' = "down" PROVE LoopFree' /\ \A m \in Missions : exec'[m].pc = "idle"
  BY DEF Down
<1>1. Executors = Missions
  BY DEF Executors
<1>2. CASE Crash
  BY <1>1, <1>2 DEF Crash, LoopFree, Idle
<1>3. CASE Stopped
  BY <1>1, <1>3 DEF Stopped, LoopFree
<1>4. CASE node = "down" /\ ~Crash /\ ~Stopped
  <2>1. LoopFree /\ \A m \in Missions : exec[m].pc = "idle"
    BY <1>4 DEF Down
  <2>2. exec' = exec /\ loop' = loop
    <3>1. CASE LoopStep
      <4>1. loop.do = "free"
        BY <2>1 DEF LoopFree, Free, At
      <4>2. \A e \in Executors : ~Turn(e)
        BY <4>1 DEF Turn
      <4>3. \A e \in Executors : /\ ~IterationStopped(e) /\ ~AcknowledgeCancel(e)
                                 /\ ~PauseAtBoundary(e) /\ ~BudgetGate(e) /\ ~BeginIteration(e)
        BY <4>2 DEF IterationStopped, AcknowledgeCancel, PauseAtBoundary, BudgetGate,
                    BeginIteration, Proceeds
      <4>4. /\ ~MissionActive /\ ~EndRun /\ ~EnterWaiting /\ ~SatisfyWait /\ ~ClaimResume
            /\ ~Requeue /\ ~Queue /\ ~EnqueueRetry /\ ~StepAcquires
        BY <4>1 DEF MissionActive, EndRun, EnterWaiting, SatisfyWait, ClaimResume, Requeue,
                    Queue, EnqueueRetry, StepAcquires
      <4>5. ~PauseDirectly /\ ~AcknowledgeDirectly /\ ~MoveToCancelled /\ ~CancelMissionWaits
        BY <4>1 DEF PauseDirectly, AcknowledgeDirectly, MoveToCancelled, CancelMissionWaits
      <4>6. QED BY <3>1, <4>3, <4>4, <4>5 DEF LoopStep
    <3>2. CASE Worker
      <4>1. \A e \in Missions : ~Answer(e) /\ ~RouteAnswer(e) /\ ~BackoffEnds(e)
        <5>1. \A e \in Missions : ~Answered(e)
          BY <2>1 DEF Answered
        <5>2. \A e \in Missions : /\ ~CoordinatorUnusable(e) /\ ~CoordinatorFails(e)
                                  /\ ~InvalidDecision(e) /\ ~DecidesComplete(e)
          BY <5>1 DEF CoordinatorUnusable, CoordinatorFails, InvalidDecision, DecidesComplete
        <5>3. \A e \in Missions : /\ ~CompletionRefused(e) /\ ~DecidesBlocked(e)
                                  /\ ~DecidesWait(e) /\ ~PeerMessageRefused(e)
          BY <5>1 DEF CompletionRefused, DecidesBlocked, DecidesWait, PeerMessageRefused
        <5>4. \A e \in Missions : /\ \A t \in CappedRoutes : ~DecidesRoute(e, t)
                                  /\ \A q \in Requests : ~SendsPeerMessage(e, q)
                                  /\ \A q \in Requests, d \in BOOLEAN : ~DecidesReplyWait(e, q, d)
          BY <5>1 DEF DecidesRoute, SendsPeerMessage, DecidesReplyWait
        <5>5. \A e \in Missions : ~Answer(e)
          BY <5>2, <5>3, <5>4 DEF Answer
        <5>6. \A e \in Missions : ~RouteAnswer(e) /\ ~BackoffEnds(e)
          BY <2>1 DEF RouteAnswer, RouteReturns, CodingSandboxFails, BackoffEnds
        <5>7. QED BY <5>5, <5>6
      <4>2. \A m \in Missions : ~BeginTask(m) /\ ~WindDown(m) /\ ~HeartbeatLost(m)
        BY <2>1 DEF BeginTask, WindDown, HeartbeatLost, Suspended
      <4>3. \E r \in Runs : Schedule(r) \/ LeaseExpires(r)
        BY <1>1, <3>2, <4>1, <4>2 DEF Worker
      <4>4. QED BY <1>4, <4>3 DEF Schedule, LeaseExpires
    <3>3. CASE Operator \/ Peer \/ Deadline
      BY <1>4, <3>3 DEF Operator, StartMission, RetryMission, PauseMission, ResumeMission,
           CancelMission, RunOneStep, CancelWait, Peer, ReplyArrives, Deadline, TimeOutWait, Serving
    <3>4. CASE Process
      BY <1>4, <3>4 DEF Process, StartWorkers, BecomeReady, BeginShutdown, RecoverWait,
           CancelTask, Serving
    <3>5. CASE UNCHANGED vars
      BY <3>5 DEF vars
    <3>6. QED BY <3>1, <3>2, <3>3, <3>4, <3>5 DEF Next
  <2>3. QED BY <2>1, <2>2 DEF LoopFree
<1>5. CASE node # "down" /\ ~Crash /\ ~Stopped
  <2>1. node' # "down"
    <3>1. CASE node' = node
      BY <1>5, <3>1
    <3>2. CASE StartWorkers \/ BecomeReady \/ BeginShutdown
      BY <3>2 DEF StartWorkers, BecomeReady, BeginShutdown
    <3>3. CASE LoopStep
      BY <1>5, <3>3 DEF LoopStep, MissionActive, EndRun, EnterWaiting,
            SatisfyWait, ClaimResume, Requeue, Queue, EnqueueRetry, CreateRun, StepAcquires, Acquire,
            PauseDirectly, AcknowledgeDirectly, MoveToCancelled, CancelMissionWaits,
            IterationStopped, AcknowledgeCancel, PauseAtBoundary, BudgetGate, BeginIteration
    <3>4. CASE Worker
      <4>1. ASSUME NEW m \in Missions, Answer(m) \/ RouteAnswer(m) \/ BackoffEnds(m)
            PROVE  node' = node
        BY <4>1, AnswerWorks, RouteAnswerWorks, BackoffWorks DEF Works
      <4>2. ASSUME NEW m \in Missions, BeginTask(m) \/ WindDown(m) \/ HeartbeatLost(m)
            PROVE  node' = node
        BY <4>2 DEF BeginTask, Acquire, WindDown, HeartbeatLost
      <4>3. ASSUME NEW r \in Runs, Schedule(r) \/ LeaseExpires(r) PROVE node' = node
        BY <4>3 DEF Schedule, LeaseExpires
      <4>4. QED BY <1>1, <1>5, <3>4, <4>1, <4>2, <4>3 DEF Worker
    <3>5. CASE Operator \/ Peer \/ Deadline
      BY <1>5, <3>5 DEF Operator, StartMission, CreateRun, RetryMission, PauseMission,
           ResumeMission, CancelMission, RunOneStep, CancelWait, Peer, ReplyArrives, Deadline,
           TimeOutWait
    <3>6. CASE Process
      BY <1>5, <3>1, <3>2, <3>6 DEF Process, RecoverWait, CancelTask
    <3>7. CASE UNCHANGED vars
      BY <1>5, <3>7 DEF vars
    <3>8. QED BY <3>3, <3>4, <3>5, <3>6, <3>7 DEF Next
  <2>2. QED BY <2>1
<1>6. QED BY <1>2, <1>3, <1>4, <1>5

LEMMA StepSteady ==
  ASSUME Callers = {}, TypeInv, Steady, [Next]_vars, [NoReopen]_vars PROVE Steady'
<1>1. CASE Next /\ NoReopen
  <2>1. Keeps
    BY <1>1, LoopStepKeeps, WorkerKeeps, OperatorKeeps, ProcessKeeps DEF Next
  <2>2. QED BY <2>1, StepOwn, StepWaitRuns, StepDown DEF Steady, Keeps
<1>2. CASE UNCHANGED vars
  <2>1. SameStatus /\ exec' = exec /\ loop' = loop
    BY <1>2, NothingWritten DEF vars
  <2>2. Held'
    BY <1>2 DEF vars, Steady, Held, Live, HasRow, HasTask
  <2>3. Keeps
    BY <2>1, <2>2, NotedKeeps
  <2>4. QED BY <2>3, StepOwn, StepWaitRuns, StepDown DEF Steady, Keeps
<1>3. CASE NoReopen /\ UNCHANGED vars
  BY <1>2, <1>3
<1>4. QED BY <1>1, <1>2

LEMMA SteadyInit == ASSUME Init PROVE Steady
<1>1. /\ \A r \in Runs : ~HasRow(r)
      /\ \A w \in WaitIds : waits[w].state = "absent"
      /\ \A m \in Missions : exec[m].pc = "idle"
      /\ LoopFree /\ node = "ready"
  BY DEF Init, NoRun, FreshRun, NoWait, Idle, HasRow, LoopFree, Executors
<1>2. RowInv
  BY <1>1 DEF RowInv, LiveNewest, InOrder, HasNewest, Over, Live
<1>3. Held
  BY <1>1 DEF Held, LoopFree, Free, At
<1>4. QED
  BY <1>1, <1>2, <1>3, OwnInit DEF Steady, WaitRuns, Down, Working, Suspended

\* When no request expects a reply there are no waits, so that nothing reopens a
\* run: the premise TerminalRunFinal of the theorem below then holds of itself.
THEOREM TerminalRunFinalHolds ==
  ASSUME Callers = {}, Requests = {} PROVE Spec => TerminalRunFinal
<1> DEFINE NoWaits == \A w \in WaitIds : waits[w].state = "absent"
<1>1. Init => TypeInv /\ NoWaits
  BY TypeInit DEF Init, NoWait
<1>2. TypeInv /\ NoWaits /\ [Next]_vars => TypeInv' /\ NoWaits'
  BY StepType, StepWaitOwners DEF WaitOwners
<1>3. TypeInv /\ NoWaits /\ [Next]_vars => NoReopen
  <2> SUFFICES ASSUME TypeInv, NoWaits, [Next]_vars PROVE NoReopen
    OBVIOUS
  <2>1. loop.do # "requeue"
    BY DEF TypeInv, Shape, OnWait
  <2>2. QED BY <2>1, StepKept DEF RunsKept, Kept, KeptStatus, NoReopen, Reopened
<1>4. QED
  BY <1>1, <1>2, <1>3, PTL DEF Spec, TerminalRunFinal, NoReopen

\* A mission whose row is terminal has no live run, through retries, starts,
\* cancellations, restarts and crashes: a crash never separates the two rows in
\* that way.  It needs that no late resume reopens a run (_requeue_mission).
THEOREM TerminalMissionStoppedHolds ==
  ASSUME Callers = {} PROVE Spec /\ TerminalRunFinal => []TerminalMissionStopped
<1>1. Init => TypeInv /\ Steady
  BY TypeInit, SteadyInit
<1>2. TypeInv /\ Steady /\ [Next]_vars /\ [NoReopen]_vars => TypeInv' /\ Steady'
  BY StepType, StepSteady
<1>3. TypeInv /\ Steady => TerminalMissionStopped
  BY CurrentFound DEF Steady, RowInv, Over, TerminalMissionStopped
<1>4. QED
  BY <1>1, <1>2, <1>3, PTL DEF Spec, TerminalRunFinal, NoReopen

-------------------------------------------------------------------------------
(* The two rows agree, and an active run has an executor.  The handlers    *)
(* write in two transactions, so this holds between them of every mission  *)
(* but that of the handler which holds the loop, and it is said below how  *)
(* the rows of that one may differ.  A crash between the two would leave   *)
(* them so: from here on the process does not crash, though it may be shut *)
(* down and started again.                                                 *)

Agree(m)   == \A r \in Runs : r[1] = m /\ IsTop(r) => runs[r].status = missions[m]
AllAgree   == \A m \in Missions : Agree(m)
\* A mission without a run was never started.
Unstarted  == \A m \in Missions : (\A r \in Runs : r[1] = m => ~HasRow(r)) => missions[m] = "received"
Between(m) == loop.do \in {"acquired", "queue", "retry"} /\ loop.r[1] = m
Agreement  ==
  /\ Unstarted
  /\ \A m \in Missions : Between(m) \/ Agree(m)
  /\ loop.do = "acquired" => missions[loop.r[1]] \in {"queued", "active"}
  /\ loop.do = "queue" => \/ Agree(loop.r[1])
                          \/ /\ runs[loop.r].status = "queued"
                             /\ missions[loop.r[1]] \in {"received", "queued"}

\* An acknowledged run is about to be cancelled, or is over.
AckEnds == \A r \in Runs : runs[r].cancelAck /\ Live(r) => loop.do = "cancel" /\ loop.r = r

Active(r) == runs[r].status = "active"
On(m, r)  == exec[m].pc \in Suspended \cup {"running", "winddown"} /\ exec[m].run = r
\* An active run is executed by the worker of its mission, whose token it bears,
\* unless the node was shut down: then recover() will find its lease released.
\* Only a shutdown lets a worker end with its run active.
Owned ==
  /\ \A r \in Runs : Active(r) =>
       \/ On(r[1], r) /\ runs[r].token = r[1]
       \/ ~On(r[1], r) /\ node \in {"stopping", "down"} /\ runs[r].lease # "live"
  /\ \A m \in Missions : exec[m].pc # "idle" /\ exec[m].lost => ~Active(exec[m].run)
  /\ \A m \in Missions : exec[m].pc = "winddown" /\ Active(exec[m].run) => node = "stopping"
  /\ loop.do = "finish" /\ Active(loop.r) => node = "stopping"

Consistent == Agreement /\ AckEnds /\ Owned

LEMMA AgreeOutside ==
  ASSUME Agreement, loop.do \notin {"acquired", "queue", "retry"} PROVE AllAgree
  BY DEF Agreement, Between, AllAgree

LEMMA AgreementFrom ==
  ASSUME AllAgree', Unstarted', loop'.do # "acquired", TypeInv' PROVE Agreement'
<1>1. loop'.do = "queue" => loop'.r \in Runs
  BY DEF TypeInv, Shape, OnRun
<1>2. loop'.do = "queue" => loop'.r[1] \in Missions
  BY <1>1 DEF Runs
<1>3. QED BY <1>2 DEF Agreement, AllAgree, Agree, Between

\* No status changes.
LEMMA StatusAgrees ==
  ASSUME SameStatus, AllAgree, Unstarted PROVE AllAgree' /\ Unstarted'
<1>1. \A r \in Runs : HasRow(r)' <=> HasRow(r)
  BY DEF SameStatus, HasRow
<1>2. \A r \in Runs : IsTop(r)' <=> IsTop(r)
  BY <1>1 DEF IsTop, HasRow
<1>3. AllAgree'
  BY <1>2 DEF AllAgree, Agree, SameStatus, IsTop, HasRow
<1>4. QED BY <1>1, <1>3 DEF Unstarted, SameStatus, HasRow

\* A live run and its mission are moved: they agree already, or the move is made.
LEMMA AppliedAgrees ==
  ASSUME TypeInv, RowInv, NEW r \in Runs, NEW t \in MissionStatus, Live(r), Applied(r, t),
         Unstarted, \A m \in Missions : m # r[1] => Agree(m), Agree(r[1]) \/ Applies(r, t)
  PROVE  AllAgree' /\ Unstarted'
<1>1. missions \in [Missions -> MissionStatus] /\ r[1] \in Missions /\ HasRow(r) /\ IsTop(r)
  BY DEF TypeInv, TypeOK, Runs, RowInv, LiveNewest, Live
<1>2. t # "absent"
  BY DEF MissionStatus, Terminal
<1>3. \A s \in Runs : HasRow(s)' <=> HasRow(s)
  BY <1>1, <1>2 DEF Applied, HasRow
<1>4. \A s \in Runs : IsTop(s)' <=> IsTop(s)
  BY <1>3 DEF IsTop, HasRow
<1>5. \A m \in Missions : m # r[1] => missions'[m] = missions[m]
  BY <1>1 DEF Applied
<1>6. \A s \in Runs : s[1] # r[1] => runs'[s].status = runs[s].status
  BY DEF Applied
<1>7. ASSUME NEW s \in Runs, s[1] = r[1], IsTop(s) PROVE runs'[s].status = missions'[r[1]]
  <2>1. s = r
    BY <1>1, <1>7, OneTop
  <2>2. CASE Applies(r, t)
    BY <1>1, <2>1, <2>2 DEF Applied
  <2>3. CASE ~Applies(r, t)
    BY <1>1, <2>1, <2>3 DEF Applied, Agree
  <2>4. QED BY <2>2, <2>3
<1>8. AllAgree'
  BY <1>4, <1>5, <1>6, <1>7 DEF AllAgree, Agree, IsTop, HasRow
<1>9. Unstarted'
  BY <1>1, <1>3, <1>5 DEF Unstarted, HasRow
<1>10. QED BY <1>8, <1>9

LEMMA AckEndsKept ==
  ASSUME AckEnds, loop.do # "cancel",
         \A r \in Runs : Live(r)' /\ runs'[r].cancelAck => Live(r) /\ runs[r].cancelAck
  PROVE  AckEnds'
  BY DEF AckEnds, Live, HasRow

\* No executor changes, and no run becomes active.
LEMMA OwnedKept ==
  ASSUME Callers = {}, TypeInv, Owned, exec' = exec, node' = node,
         \A r \in Runs : Active(r)' => /\ Active(r) /\ runs'[r].token = runs[r].token
                                       /\ runs[r].lease # "live" => runs'[r].lease # "live",
         loop'.do = "finish" /\ Active(loop.r)' => node = "stopping"
  PROVE  Owned'
<1>1. \A m \in Missions : exec[m].pc # "idle" => exec[m].run \in Runs
  BY CountedType DEF Executors
<1>2. \A r \in Runs : On(r[1], r)' <=> On(r[1], r)
  BY DEF On
<1>3. \A m \in Missions : exec[m].pc # "idle" /\ Active(exec[m].run)' => Active(exec[m].run)
  BY <1>1 DEF Active
<1>4. QED BY <1>2, <1>3 DEF Owned, Active, On

\* While the rows agree, a move that an active run allows is made, and so is the
\* cancellation of any live run.
LEMMA LiveApplies ==
  ASSUME TypeInv, RowInv, AllAgree, NEW r \in Runs, Live(r)
  PROVE  /\ missions[r[1]] = runs[r].status
         /\ Active(r) => \A t \in MissionStatus \ {"received"} : Applies(r, t)
         /\ Applies(r, "cancelled")
<1>1. missions[r[1]] = runs[r].status
  BY DEF AllAgree, Agree, RowInv, LiveNewest, Runs
<1>2. runs[r].status \in {"received", "queued", "active", "waiting", "paused"}
  <2>1. runs[r].status \in RunStatus
    BY DEF TypeInv, TypeOK, RunRow
  <2>2. QED BY <2>1 DEF RunStatus, MissionStatus, Live, HasRow
<1>3. Active(r) => \A t \in MissionStatus \ {"received"} : Applies(r, t)
  BY <1>1 DEF Applies, CanTransition, Allowed, Active, MissionStatus, Terminal
<1>4. Applies(r, "cancelled")
  BY <1>1, <1>2 DEF Applies, CanTransition, Allowed, MissionStatus, Terminal
<1>5. QED BY <1>1, <1>3, <1>4

\* The work of a worker on its run.
LEMMA WorksConsistent ==
  ASSUME Callers = {}, TypeInv, TypeInv', Steady, Consistent, NEW m \in Missions, Works(m)
  PROVE  Consistent'
<1> DEFINE r == exec[m].run
<1>1. /\ Executors = Missions /\ r \in Runs /\ r[1] = m /\ OnlyExec(m) /\ OthersKept(r)
      /\ SameLeases /\ node' = node /\ Live(r)
      /\ \A k \in Missions : k # m => /\ exec'[k] = exec[k]
                                      /\ exec[k].pc # "idle" => exec[k].run # r
  BY WorksOwn, WorksKeeps DEF Works, Steady, OwnRuns, Executors
<1>2. loop.do \in {"free", "iterate"} /\ loop'.do \in {"free", "iterate", "wait", "finish"}
  BY DEF Works, Begins, Suspends, GoesRound, AwaitsReply, Ends, LoopFree, Free, At, Iterate, Finish
<1>3. AllAgree /\ Unstarted /\ RowInv
  BY <1>2, AgreeOutside DEF Consistent, Agreement, Steady
<1>4. /\ exec[m].pc \in Suspended \cup {"running"}
      /\ exec'[m].pc \in {"coordinator", "backoff", "route", "running"}
  BY DEF Works, Begins, Suspends, GoesRound, AwaitsReply, Ends, LoopFree, Suspended, TypeInv, Shape
<1>5. exec'[m].pc \in Suspended \cup {"running"}
  BY <1>4 DEF Suspended
<1>6. PICK t \in {"blocked", "completed", "waiting", "paused"} :
        SameStatus \/ (Ends(m) /\ Applied(r, t))
  BY DEF Works, Begins, Suspends, GoesRound, AwaitsReply, Ends
<1>7. t \in MissionStatus /\ t # "active" /\ t # "absent"
  BY DEF MissionStatus, Terminal
<1>8. AllAgree' /\ Unstarted' /\ \A s \in Runs : Live(s)' => Live(s)
  <2>1. CASE SameStatus
    BY <1>3, <2>1, StatusAgrees, StatusRows
  <2>2. CASE Applied(r, t)
    <3> HIDE DEF r
    <3>1. \A k \in Missions : Agree(k)
      BY <1>3 DEF AllAgree
    <3>2. QED BY <1>1, <1>3, <1>7, <2>2, <3>1, AppliedAgrees, AppliedRows
  <2>3. QED BY <1>6, <2>1, <2>2
<1>9. Agreement'
  BY <1>2, <1>8, AgreementFrom
<1>10. AckEnds'
  BY <1>1, <1>2, <1>8, AckEndsKept DEF Consistent, SameLeases, LeaseKept
<1>11. \A s \in Runs : Active(s)' => Active(s)
  BY <1>6, <1>7 DEF Active, SameStatus, Applied
<1>12. loop'.do = "finish" => runs'[loop'.r].status # "active"
  <2> SUFFICES ASSUME loop'.do = "finish" PROVE runs'[loop'.r].status # "active"
    OBVIOUS
  <2>1. Ends(m)
    BY DEF Works, Begins, Suspends, GoesRound, AwaitsReply, Ends, Free, Iterate, At
  <2>2. loop'.r = r
    BY <2>1 DEF Ends, Finish, At
  <2>3. PICK u \in {"blocked", "completed", "waiting", "paused"} : Applied(r, u)
    BY <2>1 DEF Ends
  <2>4. Active(r) => Applies(r, u)
    <3>1. u \in MissionStatus \ {"received"}
      BY DEF MissionStatus, Terminal
    <3>2. QED BY <1>1, <1>3, <3>1, LiveApplies
  <2>5. runs'[r].status # "active"
    <3>1. CASE Active(r)
      BY <1>1, <2>3, <2>4, <3>1 DEF Applied
    <3>2. CASE ~Active(r)
      BY <1>1, <2>3, <3>2 DEF Applied, Active
    <3>3. QED BY <3>1, <3>2
  <2>6. QED BY <2>2, <2>5
<1>13. Owned'
  <2>1. \A s \in Runs : On(s[1], s)' <=> On(s[1], s)
    <3>1. \A k \in Missions : \A s : On(k, s)' <=> On(k, s)
      BY <1>1, <1>4, <1>5 DEF On, OnlyExec
    <3>2. QED BY <3>1 DEF Runs
  <2>2. ASSUME NEW k \in Missions, exec'[k].pc # "idle", runs'[exec'[k].run].status = "active"
        PROVE  /\ Active(exec[k].run) /\ exec[k].pc # "idle" /\ exec'[k].lost = exec[k].lost
               /\ exec'[k].pc = "winddown" => exec[k].pc = "winddown"
    <3>1. /\ exec[k].pc # "idle" /\ exec'[k].run = exec[k].run /\ exec'[k].lost = exec[k].lost
          /\ exec'[k].pc = "winddown" => exec[k].pc = "winddown"
      BY <1>1, <1>4, <1>5, <2>2 DEF OnlyExec, Suspended
    <3>2. exec[k].run \in Runs
      BY <1>1, <3>1, CountedType
    <3>3. QED BY <1>11, <2>2, <3>1, <3>2 DEF Active
  <2>3. \A s \in Runs : Active(s)' =>
          \/ On(s[1], s)' /\ runs'[s].token = s[1]
          \/ ~On(s[1], s)' /\ node' \in {"stopping", "down"} /\ runs'[s].lease # "live"
    BY <1>1, <1>11, <2>1 DEF Consistent, Owned, SameLeases, LeaseKept
  <2>4. ASSUME NEW k \in Missions, exec'[k].pc # "idle", runs'[exec'[k].run].status = "active"
        PROVE  ~exec'[k].lost /\ (exec'[k].pc = "winddown" => node' = "stopping")
    BY <1>1, <2>2, <2>4 DEF Consistent, Owned
  <2>5. QED BY <1>12, <2>3, <2>4 DEF Owned, Active
<1>14. QED BY <1>9, <1>10, <1>13 DEF Consistent

\* A handler that moves no row.
LEMMA NotedConsistent ==
  ASSUME Callers = {}, TypeInv, TypeInv', Consistent, SameStatus, exec' = exec, node' = node,
         \A r \in Runs : /\ runs'[r].token = runs[r].token
                         /\ runs[r].lease # "live" => runs'[r].lease # "live",
         loop.do \notin {"acquired", "queue", "retry"}, loop'.do # "acquired", AckEnds',
         loop'.do = "finish" /\ runs'[loop'.r].status = "active" => node = "stopping"
  PROVE  Consistent'
<1>1. AllAgree /\ Unstarted
  BY AgreeOutside DEF Consistent, Agreement
<1>2. Agreement'
  BY <1>1, StatusAgrees, AgreementFrom
<1>3. Owned'
  BY OwnedKept DEF Consistent, SameStatus, Active
<1>4. QED BY <1>2, <1>3 DEF Consistent

\* A handler that moves a live run and its mission.
LEMMA MovedConsistent ==
  ASSUME Callers = {}, TypeInv, TypeInv', Steady, Consistent, NEW r \in Runs,
         NEW t \in MissionStatus, Live(r), Moved(r, t), t # "active" \/ Active(r),
         \/ loop.do \notin {"acquired", "queue", "retry"}
         \/ loop.r = r /\ loop.do \in {"acquired", "queue"} /\ (Agree(r[1]) \/ Applies(r, t)),
         loop.do = "cancel" => loop.r = r /\ t = "cancelled" /\ Applies(r, t),
         loop'.do # "acquired",
         loop'.do = "finish" => runs'[loop'.r].status # "active"
  PROVE  Consistent'
<1>1. \A m \in Missions : m # r[1] => Agree(m)
  BY DEF Consistent, Agreement, Between
<1>2. Agree(r[1]) \/ Applies(r, t)
  BY DEF Consistent, Agreement, Between, Runs
<1>3. AllAgree' /\ Unstarted'
  BY <1>1, <1>2, AppliedAgrees DEF Steady, Consistent, Agreement, Moved
<1>4. \A s \in Runs : s # r => (Live(s)' <=> Live(s))
  BY AppliedRows DEF Steady, Moved
<1>5. \A s \in Runs : Active(s)' => Active(s)
  BY DEF Moved, Applied, Active
<1>6. Owned'
  BY <1>5, OwnedKept DEF Consistent, Moved, SameLeases, LeaseKept, Active
<1>7. AckEnds'
  <2>1. CASE loop.do # "cancel"
    BY <1>4, <2>1, AckEndsKept DEF Consistent, Moved, SameLeases, LeaseKept
  <2>2. CASE loop.do = "cancel"
    <3>1. ~Live(r)' /\ loop.r = r
      BY <2>2 DEF Moved, Applied, Live, Terminal
    <3>2. \A s \in Runs : Live(s)' => s # r /\ Live(s)
      BY <1>4, <3>1
    <3>3. \A s \in Runs : runs'[s].cancelAck => runs[s].cancelAck
      BY DEF Moved, SameLeases, LeaseKept
    <3>4. QED BY <3>1, <3>2, <3>3 DEF Consistent, AckEnds
  <2>3. QED BY <2>1, <2>2
<1>8. QED BY <1>3, <1>6, <1>7, AgreementFrom DEF Consistent

\* A step of one executor that writes no row.
LEMMA AloneConsistent ==
  ASSUME Callers = {}, TypeInv, TypeInv', Consistent, NEW m \in Missions, Alone(m),
         loop.do \in {"free", "finish"}, loop'.do = "free",
         \A s : On(m, s)' <=> On(m, s),
         exec'[m].pc # "idle" /\ runs[exec'[m].run].status = "active"
           => ~exec'[m].lost /\ (exec'[m].pc = "winddown" => node = "stopping")
  PROVE  Consistent'
<1>1. AllAgree /\ Unstarted /\ SameStatus /\ SameLeases /\ Executors = Missions
  BY AgreeOutside, NothingWritten DEF Consistent, Agreement, Alone, Executors
<1>2. Agreement'
  BY <1>1, StatusAgrees, AgreementFrom
<1>3. AckEnds'
  BY <1>1, AckEndsKept DEF Consistent, SameStatus, SameLeases, LeaseKept, Live, HasRow
<1>4. Owned'
  <2>1. \A k \in Missions : k # m => exec'[k] = exec[k]
    BY <1>1 DEF Alone
  <2>2. \A r \in Runs : On(r[1], r)' <=> On(r[1], r)
    <3>1. \A k \in Missions : \A r : On(k, r)' <=> On(k, r)
      BY <2>1 DEF On
    <3>2. QED BY <3>1 DEF Runs
  <2>3. ASSUME NEW k \in Missions, exec'[k].pc # "idle", runs'[exec'[k].run].status = "active"
        PROVE  ~exec'[k].lost /\ (exec'[k].pc = "winddown" => node' = "stopping")
    BY <2>1, <2>3 DEF Alone, Consistent, Owned, Active
  <2>4. \A r \in Runs : Active(r)' =>
          \/ On(r[1], r)' /\ runs'[r].token = r[1]
          \/ ~On(r[1], r)' /\ node' \in {"stopping", "down"} /\ runs'[r].lease # "live"
    BY <2>2 DEF Alone, Consistent, Owned, Active
  <2>5. QED BY <2>3, <2>4 DEF Owned, Active
<1>5. QED BY <1>2, <1>3, <1>4 DEF Consistent

LEMMA AcquiredConsistent ==
  ASSUME Callers = {}, TypeInv, TypeInv', Steady, Consistent, NEW m \in Missions, NEW r \in Runs,
         r[1] = m, Acquired(m, r), LoopFree, exec[m].pc = "scheduled"
  PROVE  Consistent'
<1>1. /\ AllAgree /\ Unstarted /\ Executors = Missions /\ loop.do = "free" /\ Live(r)
      /\ loop'.do = "acquired" /\ loop'.r = r
  BY AgreeOutside DEF Consistent, Agreement, LoopFree, Free, At, Executors, Acquired, Live,
                      HasRow, Terminal
<1>2. \A s \in Runs : (HasRow(s)' <=> HasRow(s)) /\ (Live(s)' <=> Live(s))
  BY DEF Acquired, OthersKept, HasRow, Live, Terminal
<1>3. \A s \in Runs : IsTop(s)' <=> IsTop(s)
  BY <1>2 DEF IsTop, HasRow
<1>4. missions' = missions /\ \A s \in Runs : s # r => runs'[s] = runs[s]
  BY DEF Acquired, OthersKept
<1>5. missions'[m] \in {"queued", "active"}
  BY <1>1, LiveApplies DEF Steady, Acquired
<1>6. Agreement'
  <2>1. ASSUME NEW k \in Missions, k # m PROVE Agree(k)'
    <3>1. Agree(k)
      BY <1>1 DEF AllAgree
    <3>2. QED BY <1>3, <1>4, <2>1, <3>1 DEF Agree, IsTop, HasRow
  <2>2. Unstarted'
    BY <1>1, <1>2, <1>4 DEF Unstarted, HasRow
  <2>3. QED BY <1>1, <1>5, <2>1, <2>2 DEF Agreement, Between
<1>7. AckEnds'
  BY <1>1, <1>2, <1>4, AckEndsKept DEF Consistent, Acquired
<1>8. Owned'
  <2>1. /\ \A k \in Missions : k # m => exec'[k] = exec[k]
        /\ exec'[m].run = r /\ exec'[m].pc = "running" /\ ~exec'[m].lost
        /\ runs'[r].token = m /\ node' = node
    BY <1>1 DEF Acquired
  <2>2. ASSUME NEW s \in Runs, s # r
        PROVE  On(s[1], s)' <=> On(s[1], s)
    <3>1. CASE s[1] = m
      BY <2>1, <2>2, <3>1 DEF On, Suspended
    <3>2. CASE s[1] # m
      BY <2>1, <3>2 DEF On, Runs
    <3>3. QED BY <3>1, <3>2
  <2>3. On(r[1], r)'
    BY <2>1 DEF On
  <2>4. \A s \in Runs : Active(s)' =>
          \/ On(s[1], s)' /\ runs'[s].token = s[1]
          \/ ~On(s[1], s)' /\ node' \in {"stopping", "down"} /\ runs'[s].lease # "live"
    BY <1>4, <2>1, <2>2, <2>3 DEF Consistent, Owned, Active
  <2>5. ASSUME NEW k \in Missions, exec'[k].pc # "idle", runs'[exec'[k].run].status = "active"
        PROVE  ~exec'[k].lost /\ (exec'[k].pc = "winddown" => node' = "stopping")
    <3>1. CASE k = m
      BY <2>1, <3>1
    <3>2. CASE k # m
      <4>1. exec'[k] = exec[k] /\ exec[k].run \in Runs /\ exec[k].run # r
        BY <1>1, <2>1, <2>5, <3>2, CountedType DEF Steady, OwnRuns
      <4>2. QED BY <1>4, <2>1, <2>5, <4>1 DEF Consistent, Owned, Active
    <3>3. QED BY <3>1, <3>2
  <2>6. QED BY <1>1, <2>4, <2>5 DEF Owned, Active
<1>9. QED BY <1>6, <1>7, <1>8 DEF Consistent

\* A worker leaves a run of its own active only when the node shuts down.
LEMMA WindDownConsistent ==
  ASSUME Callers = {}, TypeInv, TypeInv', Steady, Consistent, NEW m \in Missions, WindDown(m)
  PROVE  Consistent'
<1> DEFINE r == exec[m].run
<1>1. /\ SameStatus /\ OthersKept(r) /\ node' = node /\ exec[m].pc = "winddown"
      /\ \A s \in Runs : /\ runs'[s].cancelAck = runs[s].cancelAck
                         /\ runs[s].lease # "live" => runs'[s].lease # "live"
      /\ IF runs[r].token = m /\ ~exec[m].lost THEN runs'[r].lease = "none" ELSE runs'[r] = runs[r]
      /\ exec'[m].pc = "idle" /\ \A k \in Executors : k # m => exec'[k] = exec[k]
      /\ LoopFree /\ loop' = loop
  BY WindDownEffect
<1>2. /\ r \in Runs /\ r[1] = m /\ Executors = Missions
      /\ loop.do = "free" /\ loop'.do = "free"
  <2>1. Executors = Missions /\ loop.do = "free" /\ loop'.do = "free"
    BY <1>1 DEF Executors, LoopFree, Free, At
  <2>2. QED BY <1>1, <2>1, CountedType DEF Steady, OwnRuns
<1> HIDE DEF r
<1>3. AllAgree /\ Unstarted
  BY <1>2, AgreeOutside DEF Consistent, Agreement
<1>4. Agreement'
  BY <1>1, <1>2, <1>3, StatusAgrees, AgreementFrom
<1>5. AckEnds'
  BY <1>1, <1>2, AckEndsKept DEF Consistent, SameStatus, Live, HasRow
<1>6. Owned'
  <2>1. \A s \in Runs : Active(s)' <=> Active(s)
    BY <1>1 DEF SameStatus, Active
  <2>2. ASSUME NEW s \in Runs, Active(s)
        PROVE  \/ On(s[1], s)' /\ runs'[s].token = s[1]
               \/ ~On(s[1], s)' /\ node \in {"stopping", "down"} /\ runs'[s].lease # "live"
    <3>1. CASE s[1] # m
      <4>1. On(s[1], s)' <=> On(s[1], s)
        BY <1>1, <1>2, <3>1 DEF On, Runs
      <4>2. runs'[s] = runs[s]
        BY <1>1, <1>2, <3>1 DEF OthersKept
      <4>3. QED BY <2>2, <4>1, <4>2 DEF Consistent, Owned
    <3>2. CASE s = r
      <4>1. On(m, s) /\ ~On(m, s)'
        BY <1>1, <3>2 DEF On, r, Suspended
      <4>2. runs[r].token = m /\ ~exec[m].lost /\ node = "stopping"
        BY <1>1, <1>2, <2>2, <3>2, <4>1 DEF Consistent, Owned, r
      <4>3. QED BY <1>1, <1>2, <3>2, <4>1, <4>2
    <3>3. CASE s[1] = m /\ s # r
      <4>1. ~On(m, s) /\ ~On(m, s)'
        BY <1>1, <3>3 DEF On, r, Suspended
      <4>2. runs'[s] = runs[s]
        BY <1>1, <3>3 DEF OthersKept
      <4>3. QED BY <2>2, <3>3, <4>1, <4>2 DEF Consistent, Owned
    <3>4. QED BY <3>1, <3>2, <3>3
  <2>3. ASSUME NEW k \in Missions, exec'[k].pc # "idle", runs'[exec'[k].run].status = "active"
        PROVE  ~exec'[k].lost /\ (exec'[k].pc = "winddown" => node' = "stopping")
    <3>1. exec'[k] = exec[k] /\ exec[k].run \in Runs
      BY <1>1, <1>2, <2>3, CountedType
    <3>2. QED BY <1>1, <2>1, <2>3, <3>1 DEF Consistent, Owned, Active
  <2>4. QED BY <1>1, <1>2, <2>1, <2>2, <2>3 DEF Owned, Active
<1>7. QED BY <1>4, <1>5, <1>6 DEF Consistent

\* A run is inserted for a mission that was never started, or is retried.
LEMMA CreatedConsistent ==
  ASSUME Callers = {}, TypeInv, TypeInv', Steady, Consistent, NEW m \in Missions, NEW r \in Runs,
         Created(m, r), \A s \in Runs : s[1] = m => ~Live(s),
         \/ LoopFree /\ missions[m] \notin Terminal
         \/ loop.do = "retry" /\ loop.r[1] = m /\ missions[m] = "queued"
  PROVE  Consistent'
<1>1. /\ r[1] = m /\ ~HasRow(r) /\ runs'[r] = FreshRun /\ missions' = missions
      /\ \A s \in Runs : s # r => runs'[s] = runs[s]
      /\ exec' = exec /\ node' = node /\ loop'.do = "queue" /\ loop'.r = r
  BY DEF Created, NextRun, OthersKept, HasRow, At
<1>2. missions[m] \in {"received", "queued"}
  <2>1. CASE LoopFree /\ missions[m] \notin Terminal
    <3>1. AllAgree /\ Unstarted
      BY <2>1, AgreeOutside DEF Consistent, Agreement, LoopFree, Free, At
    <3>2. ASSUME NEW s \in Runs, s[1] = m, HasRow(s) PROVE FALSE
      <4>1. PICK k \in Runs : k[1] = m /\ IsTop(k)
        BY <3>2 DEF Steady, RowInv, HasNewest
      <4>2. runs[k].status = missions[m] /\ HasRow(k)
        BY <3>1, <4>1 DEF AllAgree, Agree, IsTop
      <4>3. QED BY <2>1, <4>1, <4>2 DEF Live
    <3>3. QED BY <3>1, <3>2 DEF Unstarted
  <2>2. QED BY <2>1
<1>3. FreshRun.status = "queued" /\ ~FreshRun.cancelAck
  BY DEF FreshRun
<1>4. Agreement'
  <2>1. ASSUME NEW k \in Missions, k # m PROVE Agree(k)'
    <3>1. Agree(k)
      BY <2>1 DEF Consistent, Agreement, Between, LoopFree, Free, At
    <3>2. \A s \in Runs : s[1] = k => (IsTop(s)' <=> IsTop(s))
      BY <1>1, <2>1 DEF IsTop, HasRow
    <3>3. QED BY <1>1, <2>1, <3>1, <3>2 DEF Agree, IsTop, HasRow
  <2>2. HasRow(r)'
    BY <1>1, <1>3 DEF HasRow
  <2>3. Unstarted'
    BY <1>1, <2>2 DEF Consistent, Agreement, Unstarted, HasRow
  <2>4. QED BY <1>1, <1>2, <1>3, <2>1, <2>3 DEF Agreement, Between
<1>5. loop.do \notin {"cancel", "finish"}
  BY DEF LoopFree, Free, At
<1>6. AckEnds'
  <2>1. \A s \in Runs : Live(s)' /\ runs'[s].cancelAck => Live(s) /\ runs[s].cancelAck
    BY <1>1, <1>3 DEF Live, HasRow
  <2>2. QED BY <1>5, <2>1, AckEndsKept DEF Consistent
<1>7. Owned'
  BY <1>1, <1>3, OwnedKept DEF Consistent, Active
<1>8. QED BY <1>4, <1>6, <1>7 DEF Consistent

\* A reply queues the run and the mission that wait for it.
LEMMA RequeueConsistent ==
  ASSUME Callers = {}, TypeInv, TypeInv', Steady, Consistent, NoReopen, Requeue
  PROVE  Consistent'
<1>1. loop.do = "requeue" /\ loop'.do = "free"
  BY DEF Requeue, Free, At
<1>2. PICK r \in Runs :
        /\ SameLeases /\ OthersKept(r) /\ exec' = exec /\ node' = node
        /\ runs' = runs \/ Live(r)
        /\ \/ missions' = missions /\ runs' = runs
           \/ /\ runs'[r].status = "queued"
              /\ missions' = [missions EXCEPT ![r[1]] = "queued"]
  BY RequeueEffect, RequeueKeeps
<1>3. AllAgree /\ Unstarted
  BY <1>1, AgreeOutside DEF Consistent, Agreement
<1>4. CASE missions' = missions /\ runs' = runs
  <2>1. AckEnds'
    BY <1>1, <1>4, AckEndsKept DEF Consistent, Live, HasRow
  <2>2. QED BY <1>1, <1>2, <1>4, <2>1, NothingWritten, NotedConsistent DEF SameLeases, LeaseKept
<1>5. CASE /\ runs'[r].status = "queued" /\ Live(r)
           /\ missions' = [missions EXCEPT ![r[1]] = "queued"]
  <2>1. \A s \in Runs : (HasRow(s)' <=> HasRow(s)) /\ (Live(s)' <=> Live(s))
    BY <1>2, <1>5 DEF OthersKept, HasRow, Live, Terminal
  <2>2. \A s \in Runs : IsTop(s)' <=> IsTop(s)
    BY <2>1 DEF IsTop, HasRow
  <2>3. r[1] \in Missions /\ missions'[r[1]] = "queued"
        /\ \A m \in Missions : m # r[1] => missions'[m] = missions[m]
    BY <1>5 DEF Runs, TypeInv, TypeOK
  <2>4. AllAgree'
    <3>1. ASSUME NEW m \in Missions, m # r[1] PROVE Agree(m)'
      BY <1>2, <1>3, <2>2, <2>3, <3>1 DEF AllAgree, Agree, OthersKept, IsTop, HasRow
    <3>2. ASSUME NEW s \in Runs, s[1] = r[1], IsTop(s) PROVE s = r
      BY <1>5, <3>2, OneTop DEF Steady, RowInv, LiveNewest
    <3>3. Agree(r[1])'
      BY <1>5, <2>2, <2>3, <3>2 DEF Agree, IsTop, HasRow
    <3>4. QED BY <3>1, <3>3 DEF AllAgree
  <2>5. Unstarted'
    BY <1>3, <1>5, <2>1, <2>3 DEF Unstarted, HasRow, Live
  <2>6. AckEnds'
    BY <1>1, <1>2, <2>1, AckEndsKept DEF Consistent, SameLeases, LeaseKept
  <2>7. Owned'
    <3>1. \A s \in Runs : Active(s)' => Active(s)
      BY <1>2, <1>5 DEF OthersKept, Active
    <3>2. QED BY <1>1, <1>2, <3>1, OwnedKept DEF Consistent, SameLeases, LeaseKept
  <2>8. QED BY <1>1, <2>4, <2>5, <2>6, <2>7, AgreementFrom DEF Consistent
<1>6. runs'[r].status = "queued" => Live(r)
  BY <1>2 DEF Live, HasRow, Terminal
<1>7. QED BY <1>2, <1>4, <1>5, <1>6

LEMMA LoopStepConsistent ==
  ASSUME Callers = {}, TypeInv, TypeInv', Steady, Consistent, NoReopen, LoopStep PROVE Consistent'
<1>1. Executors = Missions /\ NoStep
  BY DEF Executors, Steady, OwnRuns
<1>2. {"active", "waiting", "queued", "paused", "cancelled"} \subseteq MissionStatus \ {"received"}
  BY DEF MissionStatus, Terminal
<1>3. loop.do \in OnRun => loop.r \in Runs
  BY DEF TypeInv, Shape
<1>4. loop.do \in {"wait", "pause", "cancel"} => AllAgree /\ Live(loop.r) /\ loop.r \in Runs
  BY <1>3, AgreeOutside DEF Consistent, Agreement, Steady, Held, OnRun
<1>5. CASE MissionActive
  <2>1. /\ loop.do = "acquired" /\ loop.r \in Runs /\ Active(loop.r) /\ Live(loop.r)
        /\ loop'.do = "iterate"
    BY <1>3, <1>5 DEF MissionActive, OnRun, Steady, Held, Active, Iterate, At
  <2>2. Applies(loop.r, "active")
    BY <2>1 DEF Consistent, Agreement, Applies, CanTransition, Allowed, Active, MissionStatus,
                Terminal
  <2>3. Moved(loop.r, "active")
    BY <1>5, Moves
  <2>4. QED BY <1>2, <2>1, <2>2, <2>3, MovedConsistent
<1>6. CASE Queue
  <2>1. loop.do = "queue" /\ loop.r \in Runs /\ Live(loop.r) /\ loop'.do = "free"
    BY <1>1, <1>3, <1>6 DEF Queue, OnRun, Steady, Held, NoStep, Free, At
  <2>2. Agree(loop.r[1]) \/ Applies(loop.r, "queued")
    BY <2>1 DEF Consistent, Agreement, Applies, CanTransition, Allowed, MissionStatus, Terminal
  <2>3. Moved(loop.r, "queued")
    BY <1>6, Moves
  <2>4. QED BY <1>2, <2>1, <2>2, <2>3, MovedConsistent
<1>7. CASE PauseDirectly
  <2>1. loop.do = "pause" /\ loop'.do = "free" /\ Moved(loop.r, "paused")
    BY <1>7, Moves DEF PauseDirectly, Free, At
  <2>2. QED BY <1>2, <1>4, <2>1, MovedConsistent
<1>8. CASE EnterWaiting
  <2>1. /\ loop.do = "wait" /\ loop'.do = "finish" /\ loop'.r = loop.r
        /\ Moved(loop.r, "waiting")
    BY <1>8, Moves DEF EnterWaiting, Steady, Held, Finish, At
  <2>2. Active(loop.r) => Applies(loop.r, "waiting")
    BY <1>2, <1>4, <2>1, LiveApplies DEF Steady
  <2>3. runs'[loop.r].status # "active"
    BY <1>4, <2>1, <2>2 DEF Moved, Applied, Active
  <2>4. QED BY <1>2, <1>4, <2>1, <2>3, MovedConsistent
<1>9. CASE MoveToCancelled
  <2>1. loop.do = "cancel" /\ Moved(loop.r, "cancelled")
    BY <1>9, Moves DEF MoveToCancelled
  <2>2. Applies(loop.r, "cancelled")
    BY <1>4, <2>1, LiveApplies DEF Steady
  <2>3. loop'.do = "cancel_waits"
    BY <1>9, <2>2 DEF MoveToCancelled, TypeInv, TypeOK, LoopRow
  <2>4. QED BY <1>2, <1>4, <2>1, <2>2, <2>3, MovedConsistent
<1>10. CASE CancelMissionWaits \/ \E e \in Executors : IterationStopped(e)
  <2>1. /\ runs' = runs /\ missions' = missions /\ exec' = exec /\ node' = node
        /\ loop.do \in {"cancel_waits", "iterate"} /\ loop'.do \in {"free", "finish"}
    BY <1>10 DEF CancelMissionWaits, IterationStopped, Turn, CancelDone, Free, Finish, At, rows
  <2>2. loop'.do = "finish" /\ runs'[loop'.r].status = "active" => node = "stopping"
    <3>1. CASE CancelMissionWaits
      <4>1. ~Live(loop.r) /\ (loop.e # None => loop.r = exec[loop.e].run)
        BY <3>1 DEF CancelMissionWaits, Steady, Held
      <4>2. loop'.do = "finish" => loop'.r = loop.r
        BY <3>1, <4>1 DEF CancelMissionWaits, CancelDone, Free, Finish, At
      <4>3. QED BY <2>1, <4>1, <4>2 DEF Live, HasRow, Terminal
    <3>2. ASSUME NEW e \in Missions, IterationStopped(e), Active(exec[e].run)
          PROVE  node = "stopping"
      <4>1. exec[e].lost \/ node = "stopping"
        BY <3>2 DEF IterationStopped, Stops, Active
      <4>2. exec[e].pc # "idle"
        BY <3>2 DEF IterationStopped, Turn, TypeInv, Shape
      <4>3. QED BY <3>2, <4>1, <4>2 DEF Consistent, Owned
    <3>3. ASSUME NEW e \in Missions, IterationStopped(e) PROVE loop'.r = exec[e].run
      BY <3>3 DEF IterationStopped, Finish, At
    <3>4. QED BY <1>1, <1>10, <2>1, <3>1, <3>2, <3>3 DEF Active
  <2>3. AckEnds'
    BY <2>1, AckEndsKept DEF Consistent, Live, HasRow
  <2>4. QED BY <2>1, <2>2, <2>3, NothingWritten, NotedConsistent
<1>11. CASE SatisfyWait \/ ClaimResume
  <2>1. /\ Noted /\ runs' = runs /\ loop.do \in Elsewhere /\ loop'.do \in Elsewhere
    BY <1>11, HandsOn DEF Hands
  <2>2. AckEnds'
    BY <2>1, AckEndsKept DEF Consistent, Live, HasRow, Elsewhere
  <2>3. QED BY <2>1, <2>2, NotedConsistent DEF Noted, Elsewhere
<1>12. CASE EndRun
  <2> DEFINE m == loop.e
  <2>1. m \in Missions /\ loop.do = "finish" /\ exec[m].pc = "running" /\ loop.r = exec[m].run
    BY <1>1, <1>12 DEF EndRun, TypeInv, Shape, ByExec, Steady, Held
  <2>2. PICK e \in Missions : e = m
    BY <2>1
  <2>3. Alone(e) /\ OnlyExec(e) /\ exec'[e].pc = "winddown" /\ loop' = Free
    BY <1>12, <2>2, AloneEffect
  <2>4. \A s : On(e, s)' <=> On(e, s)
    BY <2>1, <2>2, <2>3 DEF On, OnlyExec
  <2>5. runs[exec'[e].run].status = "active" => ~exec'[e].lost /\ node = "stopping"
    BY <2>1, <2>2, <2>3 DEF OnlyExec, Consistent, Owned, Active
  <2>6. loop'.do = "free"
    BY <2>3 DEF Free, At
  <2>7. QED BY <2>1, <2>3, <2>4, <2>5, <2>6, AloneConsistent
<1>13. CASE EnqueueRetry
  <2> DEFINE m == loop.r[1]
  <2>1. /\ loop.do = "retry" /\ m \in Missions /\ missions[m] = "queued"
        /\ \A s \in Runs : s[1] = m => ~Live(s)
    BY <1>3, <1>13 DEF EnqueueRetry, OnRun, Steady, Held, Runs
  <2>2. PICK r \in Runs : Created(m, r)
    BY <1>13, CreateRunEffect DEF EnqueueRetry
  <2>3. QED BY <2>1, <2>2, CreatedConsistent
<1>14. ASSUME NEW r \in Runs, Acked(r), Live(r), loop.do \in {"ack", "iterate"},
              loop'.do = "cancel", loop'.r = r
       PROVE  Consistent'
  <2>1. /\ \A s \in Runs : runs'[s].token = runs[s].token /\ runs'[s].lease = runs[s].lease
        /\ \A s \in Runs : s # r => runs'[s] = runs[s]
    BY <1>14 DEF Acked, OthersKept
  <2>2. AckEnds'
    BY <1>14, <2>1 DEF Consistent, AckEnds, Live, HasRow
  <2>3. QED BY <1>14, <2>1, <2>2, NotedConsistent DEF Acked
<1>15. CASE AcknowledgeDirectly
  <2>1. Acked(loop.r) /\ loop.r \in Runs /\ Live(loop.r) /\ loop.do = "ack"
    BY <1>15, Acknowledged DEF AcknowledgeDirectly, Steady, Held
  <2>2. PICK r \in Runs : r = loop.r
    BY <2>1
  <2>3. loop'.do = "cancel" /\ loop'.r = r
    BY <1>15, <2>2 DEF AcknowledgeDirectly, At
  <2>4. QED BY <1>14, <2>1, <2>2, <2>3
<1>16. ASSUME NEW e \in Missions, AcknowledgeCancel(e) PROVE Consistent'
  <2>1. PICK r \in Runs : r = exec[e].run /\ Acked(r)
    BY <1>16, Acknowledged
  <2>2. Live(r) /\ loop.do = "iterate" /\ loop'.do = "cancel" /\ loop'.r = r
    BY <1>16, <2>1 DEF AcknowledgeCancel, Proceeds, Turn, Live, HasRow, Terminal, At
  <2>3. QED BY <1>14, <2>1, <2>2
<1>17. ASSUME NEW e \in Missions, PauseAtBoundary(e) \/ BudgetGate(e) \/ BeginIteration(e)
       PROVE  Consistent'
  BY <1>17, TurnWorks, WorksConsistent
<1>18. CASE StepAcquires
  BY <1>1, <1>18 DEF StepAcquires, NoStep
<1>19. QED
  BY <1>1, <1>5, <1>6, <1>7, <1>8, <1>9, <1>10, <1>11, <1>12, <1>13, <1>15, <1>16, <1>17,
     <1>18, RequeueConsistent DEF LoopStep

LEMMA WorkerConsistent ==
  ASSUME Callers = {}, TypeInv, TypeInv', Steady, Consistent, Worker PROVE Consistent'
<1>1. Executors = Missions
  BY DEF Executors
<1>2. LoopFree => loop.do = "free"
  BY DEF LoopFree, Free, At
<1>3. ASSUME NEW r \in Runs, Schedule(r) PROVE Consistent'
  <2>1. PICK m \in Missions : m = r[1]
    BY DEF Runs
  <2>2. /\ loop.do = "free" /\ exec[m].pc = "idle" /\ runs[r].status = "queued"
    BY <1>2, <1>3, <2>1 DEF Schedule, HasTask
  <2>3. /\ Alone(m) /\ exec'[m].pc = "scheduled" /\ exec'[m].run = r /\ loop' = loop
    BY <1>3, <2>1, AloneEffect
  <2>4. \A s : On(m, s)' <=> On(m, s)
    BY <2>2, <2>3 DEF On, Suspended
  <2>5. QED BY <2>2, <2>3, <2>4, AloneConsistent
<1>4. ASSUME NEW r \in Runs, LeaseExpires(r) PROVE Consistent'
  <2>1. /\ SameStatus /\ exec' = exec /\ node' = node /\ loop' = loop /\ loop.do = "free"
        /\ OthersKept(r) /\ runs'[r].lease = "expired" /\ runs'[r].token = runs[r].token
        /\ runs'[r].cancelAck = runs[r].cancelAck
    BY <1>2, <1>4, ExpiryEffect DEF LeaseExpires
  <2>2. \A s \in Runs : /\ runs'[s].token = runs[s].token
                        /\ runs[s].lease # "live" => runs'[s].lease # "live"
                        /\ runs'[s].cancelAck = runs[s].cancelAck
    BY <2>1 DEF OthersKept
  <2>3. AckEnds'
    BY <2>1, <2>2, AckEndsKept DEF Consistent, SameStatus, Live, HasRow
  <2>4. QED BY <2>1, <2>2, <2>3, NotedConsistent
<1>5. ASSUME NEW m \in Missions, BeginTask(m) PROVE Consistent'
  <2>1. LoopFree /\ loop.do = "free" /\ exec[m].pc = "scheduled"
    BY <1>2, <1>5 DEF BeginTask
  <2>2. CASE runs' = runs
    <3>1. Alone(m) /\ exec'[m].pc = "idle" /\ loop' = loop
      BY <1>5, <2>2, AloneEffect
    <3>2. \A s : On(m, s)' <=> On(m, s)
      BY <2>1, <3>1 DEF On, Suspended
    <3>3. QED BY <2>1, <3>1, <3>2, AloneConsistent
  <2>3. CASE runs' # runs
    <3>1. PICK r \in Runs : r = exec[m].run
      BY <1>1, <2>1, CountedType
    <3>2. r[1] = m
      BY <2>1, <3>1 DEF Steady, OwnRuns
    <3>3. Acquired(m, r)
      BY <1>1, <1>5, <2>3, <3>1, AcquireEffect DEF BeginTask, rows
    <3>4. QED BY <2>1, <3>2, <3>3, AcquiredConsistent
  <2>4. QED BY <2>2, <2>3
<1>6. ASSUME NEW m \in Missions, HeartbeatLost(m) PROVE Consistent'
  <2>1. /\ loop.do = "free" /\ exec[m].pc \in Suspended
        /\ runs[exec[m].run].token # m \/ runs[exec[m].run].status # "active"
    BY <1>2, <1>6 DEF HeartbeatLost
  <2>2. /\ Alone(m) /\ exec'[m].pc = exec[m].pc /\ exec'[m].run = exec[m].run /\ loop' = loop
    BY <1>6, AloneEffect
  <2>3. \A s : On(m, s)' <=> On(m, s)
    BY <2>2 DEF On
  <2>4. runs[exec[m].run].status # "active"
    <3>1. PICK r \in Runs : r = exec[m].run /\ r[1] = m
      BY <1>1, <2>1, CountedType DEF Suspended, Steady, OwnRuns
    <3>2. On(r[1], r)
      BY <2>1, <3>1 DEF On
    <3>3. QED BY <2>1, <3>1, <3>2 DEF Consistent, Owned, Active
  <2>5. QED BY <2>1, <2>2, <2>3, <2>4, AloneConsistent
<1>7. ASSUME NEW m \in Missions, Answer(m) \/ RouteAnswer(m) \/ BackoffEnds(m) PROVE Consistent'
  BY <1>7, AnswerWorks, RouteAnswerWorks, BackoffWorks, WorksConsistent
<1>8. QED
  BY <1>1, <1>3, <1>4, <1>5, <1>6, <1>7, WindDownConsistent DEF Worker

LEMMA HandsConsistent ==
  ASSUME Callers = {}, TypeInv, TypeInv', Steady, Consistent, Hands PROVE Consistent'
<1>1. Noted /\ runs' = runs /\ loop.do \in Elsewhere /\ loop'.do \in Elsewhere
  BY DEF Hands
<1>2. AckEnds'
  BY <1>1, AckEndsKept DEF Consistent, Live, HasRow, Elsewhere
<1>3. QED BY <1>1, <1>2, NotedConsistent DEF Noted, Elsewhere

LEMMA OperatorConsistent ==
  ASSUME Callers = {}, TypeInv, TypeInv', Steady, Consistent, Operator \/ Peer \/ Deadline
  PROVE  Consistent'
<1>1. LoopFree => loop.do = "free"
  BY DEF LoopFree, Free, At
<1>2. CASE Peer \/ Deadline \/ \E w \in WaitIds : CancelWait(w)
  BY <1>2, HandsOn, HandsConsistent
<1>3. ASSUME NEW m \in Missions, StartMission(m) \/ PauseMission(m) \/ CancelMission(m)
      PROVE  Consistent'
  <2>1. LoopFree /\ loop.do = "free"
    BY <1>1, <1>3 DEF StartMission, PauseMission, CancelMission, Serving
  <2>2. CASE CreateRun(m, None) /\ Current(m) = None /\ missions[m] \notin Terminal
    <3>1. PICK r \in Runs : Created(m, r)
      BY <2>2, CreateRunEffect
    <3>2. QED BY <2>1, <2>2, <3>1, CurrentFound, CreatedConsistent DEF Steady
  <2>3. CASE PauseMission(m) \/ CancelMission(m) \/ (StartMission(m) /\ runs' = runs)
    <3>1. Noted /\ loop'.do \in {"free", "queue", "pause", "ack"}
      BY <2>3, RequestNoted DEF Free, At
    <3>2. AckEnds'
      BY <2>1, <3>1, AckEndsKept DEF Consistent, Noted, SameStatus, SameLeases, LeaseKept,
                                     Live, HasRow
    <3>3. QED BY <2>1, <3>1, <3>2, NotedConsistent DEF Noted, SameLeases, LeaseKept
  <2>4. QED BY <1>3, <2>2, <2>3 DEF StartMission, rows
<1>4. ASSUME NEW m \in Missions, RetryMission(m) PROVE Consistent'
  <2>1. /\ LoopFree /\ loop.do = "free" /\ missions[m] \in {"blocked", "failed"}
        /\ missions' = [missions EXCEPT ![m] = "queued"]
        /\ runs' = runs /\ exec' = exec /\ node' = node
    BY <1>1, <1>4 DEF RetryMission, Serving
  <2>2. PICK r \in Runs : r[1] = m /\ loop' = At("retry", None, r, 0)
    BY <1>4 DEF RetryMission, NextRun
  <2>3. loop'.do = "retry" /\ loop'.r[1] = m
    BY <2>2 DEF At
  <2>4. \A k \in Missions : missions'[k] = IF k = m THEN "queued" ELSE missions[k]
    BY <2>1 DEF TypeInv, TypeOK
  <2>5. \A k \in Missions : k # m => Agree(k)'
    <3>1. AllAgree
      BY <2>1, AgreeOutside DEF Consistent, Agreement
    <3>2. QED BY <2>1, <2>4, <3>1 DEF AllAgree, Agree, IsTop, HasRow
  <2>6. Unstarted'
    BY <2>1, <2>4 DEF Consistent, Agreement, Unstarted, HasRow
  <2>7. Agreement'
    BY <2>3, <2>5, <2>6 DEF Agreement, Between
  <2>8. AckEnds'
    BY <2>1, AckEndsKept DEF Consistent, Live, HasRow
  <2>9. Owned'
    BY <2>1, <2>3, OwnedKept DEF Consistent, Active
  <2>10. QED BY <2>7, <2>8, <2>9 DEF Consistent
<1>5. ASSUME NEW m \in Missions, ResumeMission(m) PROVE Consistent'
  <2>1. PICK r : r = Latest(m)
    OBVIOUS
  <2>2. r # None /\ runs[r].status \in {"paused", "waiting"} /\ loop' = loop /\ loop.do = "free"
    BY <1>1, <1>5, <2>1 DEF ResumeMission, Serving
  <2>3. Moved(r, "queued")
    BY <1>5, <2>1, Moves
  <2>4. r \in Runs /\ Live(r)
    BY <2>1, <2>2, NewestType DEF Live, HasRow, Terminal
  <2>5. "queued" \in MissionStatus
    BY DEF MissionStatus
  <2>6. QED BY <2>2, <2>3, <2>4, <2>5, MovedConsistent
<1>6. QED BY <1>2, <1>3, <1>4, <1>5 DEF Operator

\* recover() queues the active runs that nobody executes, with their missions.
LEMMA RecoverConsistent ==
  ASSUME Callers = {}, TypeInv, TypeInv', Steady, Consistent, StartWorkers PROVE Consistent'
<1>1. /\ LoopFree /\ loop' = loop /\ exec' = exec /\ node = "down"
      /\ \A m \in Missions : exec[m].pc = "idle"
  BY DEF StartWorkers, Steady, Down
<1>2. loop.do = "free" /\ loop'.do = "free"
  BY <1>1 DEF LoopFree, Free, At
<1>3. AllAgree /\ Unstarted
  BY <1>2, AgreeOutside DEF Consistent, Agreement
<1>4. \A r \in Runs :
        IF Recoverable(r)
        THEN runs'[r].status = "queued" /\ runs'[r].cancelAck = runs[r].cancelAck
        ELSE runs'[r] = runs[r]
  BY ProcessEffect
<1>5. \A m \in Missions :
        missions'[m] = IF \E r \in Runs : r[1] = m /\ Recoverable(r) THEN "queued" ELSE missions[m]
  BY DEF StartWorkers
<1>6. \A r \in Runs : Recoverable(r) => Live(r) /\ IsTop(r)
  BY DEF Recoverable, Live, HasRow, Terminal, Steady, RowInv, LiveNewest
<1>7. \A r \in Runs : (HasRow(r)' <=> HasRow(r)) /\ (Live(r)' => Live(r))
  BY <1>4, <1>6 DEF HasRow, Live
<1>8. \A r \in Runs : IsTop(r)' <=> IsTop(r)
  BY <1>7 DEF IsTop, HasRow
<1>9. AllAgree'
  <2>1. ASSUME NEW m \in Missions, NEW r \in Runs, r[1] = m, IsTop(r)
        PROVE  runs'[r].status = missions'[m]
    <3>1. CASE Recoverable(r)
      BY <1>4, <1>5, <2>1, <3>1
    <3>2. CASE ~Recoverable(r)
      <4>1. \A s \in Runs : s[1] = m => ~Recoverable(s)
        BY <1>6, <2>1, <3>2, OneTop
      <4>2. QED BY <1>3, <1>4, <1>5, <2>1, <3>2, <4>1 DEF AllAgree, Agree
    <3>3. QED BY <3>1, <3>2
  <2>2. QED BY <1>8, <2>1 DEF AllAgree, Agree, IsTop, HasRow
<1>10. Unstarted'
  BY <1>3, <1>5, <1>6, <1>7 DEF Unstarted, HasRow, Live
<1>11. AckEnds'
  BY <1>2, <1>4, <1>7, AckEndsKept DEF Consistent
<1>12. Owned'
  <2>1. \A r \in Runs : ~Active(r)'
    <3>1. ASSUME NEW r \in Runs, Active(r)' PROVE FALSE
      <4>1. ~Recoverable(r) /\ Active(r)
        BY <1>4, <3>1 DEF Active
      <4>2. ~On(r[1], r)
        BY <1>1 DEF On, Suspended, Runs
      <4>3. QED BY <4>1, <4>2 DEF Consistent, Owned, Recoverable, Active
    <3>2. QED BY <3>1
  <2>2. \A m \in Missions : exec'[m].pc = "idle"
    BY <1>1
  <2>3. QED BY <1>2, <2>1, <2>2 DEF Owned
<1>13. QED BY <1>2, <1>9, <1>10, <1>11, <1>12, AgreementFrom DEF Consistent

LEMMA ProcessConsistent ==
  ASSUME Callers = {}, "crash" \notin Faults, TypeInv, TypeInv', Steady, Consistent, Process
  PROVE  Consistent'
<1>1. Executors = Missions
  BY DEF Executors
<1>2. LoopFree => loop.do = "free"
  BY DEF LoopFree, Free, At
<1>3. CASE BecomeReady \/ BeginShutdown \/ Stopped
  <2>1. /\ runs' = runs /\ missions' = missions /\ exec' = exec /\ loop' = loop
        /\ loop.do = "free"
    BY <1>2, <1>3 DEF BecomeReady, BeginShutdown, Stopped, Serving, rows
  <2>2. AllAgree' /\ Unstarted'
    BY <2>1, AgreeOutside, NothingWritten, StatusAgrees DEF Consistent, Agreement
  <2>3. AckEnds'
    BY <2>1, AckEndsKept DEF Consistent, Live, HasRow
  <2>4. \/ node \in {"starting", "ready"}
        \/ node = "stopping" /\ node' = "down" /\ \A m \in Missions : exec[m].pc = "idle"
    BY <1>1, <1>3 DEF BecomeReady, BeginShutdown, Stopped, Serving
  <2>5. \A r \in Runs : On(r[1], r)' <=> On(r[1], r)
    BY <2>1 DEF On
  <2>6. Owned'
    BY <2>1, <2>4, <2>5 DEF Consistent, Owned, Active
  <2>7. QED BY <2>1, <2>2, <2>3, <2>6, AgreementFrom DEF Consistent
<1>4. ASSUME NEW w \in WaitIds, RecoverWait(w) PROVE Consistent'
  BY <1>4, HandsOn, HandsConsistent
<1>5. ASSUME NEW m \in Missions, CancelTask(m) PROVE Consistent'
  <2>1. loop.do = "free" /\ exec[m].pc \in Suspended /\ node = "stopping"
    BY <1>2, <1>5 DEF CancelTask
  <2>2. Alone(m) /\ OnlyExec(m) /\ exec'[m].pc = "winddown" /\ loop' = loop
    BY <1>5, AloneEffect
  <2>3. \A s : On(m, s)' <=> On(m, s)
    BY <2>1, <2>2 DEF On, OnlyExec
  <2>4. runs[exec'[m].run].status = "active" => ~exec'[m].lost
    BY <2>1, <2>2 DEF OnlyExec, Consistent, Owned, Active, Suspended
  <2>5. QED BY <2>1, <2>2, <2>3, <2>4, AloneConsistent
<1>6. ~Crash
  BY DEF Crash
<1>7. QED BY <1>3, <1>4, <1>5, <1>6, RecoverConsistent DEF Process

LEMMA StepConsistent ==
  ASSUME Callers = {}, "crash" \notin Faults, TypeInv, Steady, Consistent, [Next]_vars,
         [NoReopen]_vars
  PROVE  Consistent'
<1>1. TypeInv'
  BY StepType
<1>2. CASE Next /\ NoReopen
  BY <1>1, <1>2, LoopStepConsistent, WorkerConsistent, OperatorConsistent, ProcessConsistent
     DEF Next
<1>3. CASE UNCHANGED vars
  <2>1. \A r \in Runs : (Active(r)' <=> Active(r)) /\ (On(r[1], r)' <=> On(r[1], r))
    BY <1>3 DEF vars, Active, On
  <2>2. Owned'
    BY <1>3, <2>1 DEF vars, Consistent, Owned, Active
  <2>3. AckEnds'
    BY <1>3 DEF vars, Consistent, AckEnds, Live, HasRow
  <2>4. Agreement'
    BY <1>3 DEF vars, Consistent, Agreement, Between, Agree, Unstarted, IsTop, HasRow
  <2>5. QED BY <2>2, <2>3, <2>4 DEF Consistent
<1>4. QED BY <1>2, <1>3

LEMMA ConsistentInit == ASSUME Init PROVE Consistent
<1>1. /\ \A r \in Runs : runs[r].status = "absent"
      /\ \A m \in Missions : missions[m] = "received" /\ exec[m].pc = "idle"
      /\ loop.do = "free"
  BY DEF Init, NoRun, FreshRun, Idle, Free, At, Executors
<1>2. Agreement
  BY <1>1 DEF Agreement, Unstarted, Agree, IsTop, HasRow
<1>3. AckEnds
  BY <1>1 DEF AckEnds, Live, HasRow
<1>4. Owned
  BY <1>1 DEF Owned, Active
<1>5. QED BY <1>2, <1>3, <1>4 DEF Consistent

\* Only a worker at the top of an iteration calls the coordinator: its run is
\* active, and no other handler holds the loop.
LEMMA CallsBegin ==
  ASSUME Callers = {}, TypeInv, Steady, [Next]_vars, NEW e \in Executors, CallsCoordinator(e)
  PROVE  /\ e \in Missions /\ exec'[e].run \in Runs /\ exec'[e].run[1] = e
         /\ Active(exec[e].run) /\ exec'[e].run = exec[e].run /\ loop.do = "iterate"
<1>1. e \in Missions /\ exec[e].pc # "coordinator" /\ exec'[e].pc = "coordinator"
  BY DEF Executors, CallsCoordinator
<1>2. ~Bookkept
  BY <1>1 DEF Bookkept, SameCall, OffDuty
<1>3. PICK m \in Missions : Works(m)
  BY <1>2, StepBooks DEF Steady
<1>4. m = e
  BY <1>1, <1>3, WorksOwn DEF Steady
<1>5. Begins(m) /\ OnlyExec(m) /\ exec[m].pc # "idle"
  BY <1>1, <1>3, <1>4 DEF Works, Suspends, GoesRound, AwaitsReply, Ends
<1>6. QED
  BY <1>1, <1>4, <1>5, CountedType DEF Begins, OnlyExec, Active, Steady, OwnRuns

\* The inductive invariant of the theorems below, and what it says when the
\* coordinator is called.
Sound == TypeInv /\ Steady /\ Consistent

LEMMA SoundStep ==
  ASSUME Callers = {}, "crash" \notin Faults, Sound, [Next]_vars, [NoReopen]_vars PROVE Sound'
  BY StepType, StepSteady, StepConsistent DEF Sound

LEMMA SoundInit == Init => Sound
  BY TypeInit, SteadyInit, ConsistentInit DEF Sound

\* No resume comes late: either no mission waits for a reply, or no mission has a
\* second run, so that the run of a wait is the only one when its resume arrives.
\* When missions both wait and are retried, a late resume reopens an old run beside
\* the new one, and what the four theorems below say may fail.
NoLateResume == Requests = {} \/ MaxRuns = 1
Unawaited == Requests = {} => \A w \in WaitIds : waits[w].state = "absent"

LEMMA StepUnawaited ==
  ASSUME Callers = {}, TypeInv, Unawaited, [Next]_vars PROVE Unawaited'
  BY StepWaitOwners DEF WaitOwners, Unawaited

\* Then nothing reopens a terminal run: a resume finds its mission waiting only if
\* its run, being the newest, waits too.
LEMMA NothingReopens ==
  ASSUME Callers = {}, NoLateResume, Sound, Unawaited, [Next]_vars PROVE NoReopen
<1>1. CASE Next /\ ~Requeue
  <2>1. RunsKept
    BY <1>1, LoopStepKept, WorkerKept, OperatorKept, ProcessKept DEF Next, Sound
  <2>2. QED BY <2>1 DEF RunsKept, Kept, KeptStatus, NoReopen, Reopened
<1>2. CASE UNCHANGED vars
  BY <1>2 DEF vars, rows, NoReopen, Reopened
<1>3. CASE Requeue
  <2> SUFFICES ASSUME NEW r \in Runs, Reopened(r) PROVE FALSE
    BY DEF NoReopen
  <2>1. /\ loop.w \in WaitIds /\ waits[loop.w].state # "absent" /\ waits[loop.w].run \in Runs
        /\ loop.do = "requeue"
    BY <1>3 DEF Requeue, Sound, TypeInv, Shape, OnWait
  <2>2. MaxRuns = 1
    BY <2>1 DEF NoLateResume, Unawaited
  <2>3. r = waits[loop.w].run /\ missions[r[1]] = "waiting"
    BY <1>3, <2>1 DEF Requeue, Reopened, Sound, TypeInv, TypeOK
  <2>4. HasRow(r)
    BY <2>1, <2>3 DEF Sound, Steady, WaitRuns
  <2>5. IsTop(r)
    BY <2>2, <2>4 DEF IsTop, Runs
  <2>6. AllAgree
    BY <2>1, AgreeOutside DEF Sound, Consistent
  <2>7. runs[r].status = "waiting"
    BY <2>3, <2>5, <2>6 DEF AllAgree, Agree, Runs
  <2>8. QED BY <2>7 DEF Reopened, Terminal
<1>4. QED BY <1>1, <1>2, <1>3

LEMMA SoundHolds ==
  ASSUME Callers = {}, "crash" \notin Faults, NoLateResume PROVE Spec => []Sound
<1>1. Init => Sound /\ Unawaited
  BY SoundInit DEF Init, NoWait, Unawaited
<1>2. Sound /\ Unawaited /\ [Next]_vars => (Sound /\ Unawaited)'
  BY NothingReopens, SoundStep, StepUnawaited DEF Sound
<1>3. QED BY <1>1, <1>2, PTL DEF Spec

\* Whenever the event loop of a serving node is free, the row of a mission and
\* that of its newest run show the same status, although every handler writes
\* them in two transactions and the worker acquires the run in one of its own.
\* It needs that the process does not crash between them, that nobody calls
\* run-step, and that no resume comes late.
THEOREM RowsAgreeHolds ==
  ASSUME Callers = {}, "crash" \notin Faults, NoLateResume PROVE Spec => []RowsAgree
<1>1. Sound => RowsAgree
  <2> SUFFICES ASSUME Sound, Settled, NEW m \in Missions, Latest(m) # None
               PROVE  runs[Latest(m)].status = missions[m]
    BY DEF RowsAgree
  <2>1. AllAgree
    BY AgreeOutside DEF Sound, Consistent, Settled, LoopFree, Free, At
  <2>2. QED BY <2>1, LatestFound DEF Sound, Steady, AllAgree, Agree
<1>2. QED
  BY SoundHolds, <1>1, PTL

\* No run stays active with nobody executing it, however tasks end: a worker
\* that stops, loses its lease or is cancelled by a shutdown leaves a run that is
\* over, queued, or has its lease released, so that recover() queues it.  The
\* hypotheses are those of RowsAgreeHolds.
THEOREM NoOrphanRunHolds ==
  ASSUME Callers = {}, "crash" \notin Faults, NoLateResume PROVE Spec => []NoOrphanRun
<1>1. Sound => NoOrphanRun
  <2> SUFFICES ASSUME Sound, Settled, NEW r \in Runs, Active(r)
               PROVE  \E e \in Executors : exec[e].run = r /\ exec[e].pc # "idle"
    BY DEF NoOrphanRun, Active
  <2>1. On(r[1], r) /\ r[1] \in Executors
    BY DEF Sound, Consistent, Owned, Settled, Runs, Executors
  <2>2. QED BY <2>1 DEF On, Suspended
<1>2. QED
  BY SoundHolds, <1>1, PTL

\* Once a cancellation is acknowledged the coordinator is not called again for
\* that run: the acknowledgement is followed by the move to cancelled before any
\* other coroutine runs, and that move is never refused.  The hypotheses are those
\* of RowsAgreeHolds: after a late resume the move can be refused.
THEOREM NoCallAfterAcknowledgementHolds ==
  ASSUME Callers = {}, "crash" \notin Faults, NoLateResume
  PROVE  Spec => NoCallAfterAcknowledgement
<1>1. Sound /\ [Next]_vars =>
        [\A e \in Executors : CallsCoordinator(e) => ~runs[exec'[e].run].cancelAck]_vars
  <2> SUFFICES ASSUME Sound, [Next]_vars, NEW e \in Executors, CallsCoordinator(e)
               PROVE  ~runs[exec'[e].run].cancelAck
    OBVIOUS
  <2>1. Active(exec[e].run) /\ exec'[e].run = exec[e].run /\ exec[e].run \in Runs
        /\ loop.do = "iterate"
    BY CallsBegin DEF Sound
  <2>2. QED BY <2>1 DEF Sound, Consistent, AckEnds, Active, Live, HasRow, Terminal
<1>2. QED
  BY SoundHolds, <1>1, PTL DEF Spec, NoCallAfterAcknowledgement

\* The coordinator is only called for a mission whose own row is active: never
\* for one that was cancelled, paused or completed meanwhile, although
\* run_iteration re-reads the run row only.  The hypotheses are those of
\* RowsAgreeHolds: a run that a late resume reopens beside the newest one moves the
\* mission row under it.
THEOREM NoCallForInactiveMissionHolds ==
  ASSUME Callers = {}, "crash" \notin Faults, NoLateResume
  PROVE  Spec => NoCallForInactiveMission
<1>1. Sound /\ [Next]_vars =>
        [\A e \in Executors : CallsCoordinator(e) => missions[exec'[e].run[1]] = "active"]_vars
  <2> SUFFICES ASSUME Sound, [Next]_vars, NEW e \in Executors, CallsCoordinator(e)
               PROVE  missions[exec'[e].run[1]] = "active"
    OBVIOUS
  <2>1. Active(exec[e].run) /\ exec'[e].run = exec[e].run /\ exec[e].run \in Runs
        /\ loop.do = "iterate"
    BY CallsBegin DEF Sound
  <2>2. AllAgree /\ Live(exec[e].run)
    BY <2>1, AgreeOutside DEF Sound, Consistent, Active, Live, HasRow, Terminal
  <2>3. QED BY <2>1, <2>2, LiveApplies DEF Sound, Steady, Active
<1>2. QED
  BY SoundHolds, <1>1, PTL DEF Spec, NoCallForInactiveMission

-------------------------------------------------------------------------------
(* Reply waits: no wake-up is lost.  Only the step of its own worker makes *)
(* a run wait, and a run goes on waiting for the same request.  That the   *)
(* rows of a mission agree is not used here, so that late resumes are      *)
(* covered.                                                                *)

Still(run, new) == new.status = "waiting" => run.status = "waiting" /\ new.waiting = run.waiting
StillRows == \A r \in Runs : Still(runs[r], runs'[r])

LEMMA UnchangedStill == runs' = runs => StillRows
  BY DEF StillRows, Still

LEMMA OneStill ==
  ASSUME TypeInv, NEW r \in Runs, NEW y, runs' = [runs EXCEPT ![r] = y], Still(runs[r], y)
  PROVE  StillRows
  BY OneRow DEF OthersKept, StillRows, Still

\* A move to another status than waiting.
LEMMA ApplyStill ==
  ASSUME TypeInv, NEW r \in Runs, NEW t \in MissionStatus \ {"waiting"}, NEW run \in RunRow,
         NEW moved \in RunRow, Apply(r, t, run, moved), Still(runs[r], run)
  PROVE  StillRows
<1> DEFINE y == [moved EXCEPT !.status = t]
<1>1. y.status = t
  BY DEF RunRow
<1>2. runs' = [runs EXCEPT ![r] = y] \/ runs' = [runs EXCEPT ![r] = run]
  BY DEF Apply
<1> HIDE DEF y
<1>3. QED BY <1>1, <1>2, OneStill DEF Still

LEMMA AcquireStill ==
  ASSUME TypeInv, NEW e \in Executors, NEW r \in Runs, Acquire(e, r) PROVE StillRows
<1> DEFINE y == [runs[r] EXCEPT !.status = "active", !.lease = "live", !.token = e]
<1>1. y.status = "active"
  BY DEF TypeInv, TypeOK, RunRow
<1>2. runs' = [runs EXCEPT ![r] = y]
  BY DEF Acquire
<1> HIDE DEF y
<1>3. QED BY <1>1, <1>2, OneStill DEF Still

LEMMA CreateRunStill == ASSUME TypeInv, NEW m, NEW e, CreateRun(m, e) PROVE StillRows
<1>1. PICK r \in Runs : runs' = [runs EXCEPT ![r] = FreshRun]
  BY DEF CreateRun
<1>2. QED BY <1>1, OneStill DEF Still, FreshRun

LEMMA ReleasedStill ==
  ASSUME TypeInv, NEW e \in Executors, exec[e].run \in Runs, runs' = Released(e) PROVE StillRows
<1> DEFINE r == exec[e].run
           y == [runs[r] EXCEPT !.token = "none", !.lease = "none"]
<1>1. y.status = runs[r].status /\ y.waiting = runs[r].waiting
  BY DEF TypeInv, TypeOK, RunRow
<1>2. runs' = runs \/ runs' = [runs EXCEPT ![r] = y]
  BY DEF Released
<1> HIDE DEF y
<1>3. QED BY <1>1, <1>2, OneStill, UnchangedStill DEF Still

\* The handlers that hold the loop, but for EnterWaiting.
LEMMA LoopStepStill == ASSUME TypeInv, LoopStep, ~EnterWaiting PROVE StillRows
<1>1. loop.do \in OnRun => loop.r \in Runs /\ runs[loop.r] \in RunRow
  BY DEF TypeInv, TypeOK, Shape
<1>2. {"active", "paused", "queued", "cancelled", "blocked"} \subseteq MissionStatus \ {"waiting"}
  BY DEF MissionStatus, Terminal
<1>3. CASE MissionActive \/ Queue \/ PauseDirectly \/ MoveToCancelled
  <2>1. loop.do \in OnRun
    BY <1>3 DEF MissionActive, Queue, PauseDirectly, MoveToCancelled, OnRun
  <2>2. PICK t \in MissionStatus \ {"waiting"} : Apply(loop.r, t, runs[loop.r], runs[loop.r])
    BY <1>2, <1>3 DEF MissionActive, Queue, PauseDirectly, MoveToCancelled
  <2>3. QED BY <1>1, <2>1, <2>2, ApplyStill DEF Still
<1>4. CASE EndRun
  <2>1. loop.e \in Executors /\ exec[loop.e].run \in Runs
    BY <1>4 DEF EndRun, TypeInv, Shape, ByExec
  <2>2. runs' = runs \/ runs' = Released(loop.e)
    BY <1>4 DEF EndRun
  <2>3. QED BY <2>1, <2>2, UnchangedStill, ReleasedStill
<1>5. CASE SatisfyWait \/ ClaimResume \/ CancelMissionWaits
  BY <1>5, UnchangedStill DEF SatisfyWait, ClaimResume, CancelMissionWaits
<1>6. CASE Requeue
  <2> DEFINE r == waits[loop.w].run
             y == [runs[r] EXCEPT !.status = "queued", !.waiting = None]
  <2>1. r \in Runs /\ runs[r] \in RunRow
    BY <1>6 DEF Requeue, TypeInv, TypeOK, Shape, OnWait
  <2>2. y.status = "queued"
    BY <2>1 DEF RunRow
  <2>3. runs' = runs \/ runs' = [runs EXCEPT ![r] = y]
    BY <1>6 DEF Requeue
  <2> HIDE DEF y, r
  <2>4. QED BY <2>1, <2>2, <2>3, UnchangedStill, OneStill DEF Still
<1>7. CASE EnqueueRetry
  BY <1>7, CreateRunStill DEF EnqueueRetry
<1>8. CASE StepAcquires
  <2>1. loop.e \in Executors /\ loop.r \in Runs
    BY <1>8 DEF StepAcquires, TypeInv, Shape, OnRun, ByExec
  <2>2. QED BY <1>8, <2>1, AcquireStill DEF StepAcquires
<1>9. ASSUME NEW r \in Runs, runs' = [runs EXCEPT ![r].cancelAck = TRUE] PROVE StillRows
  <2> DEFINE y == [runs[r] EXCEPT !.cancelAck = TRUE]
  <2>1. y.status = runs[r].status /\ y.waiting = runs[r].waiting
    BY DEF TypeInv, TypeOK, RunRow
  <2>2. runs' = [runs EXCEPT ![r] = y]
    BY <1>9
  <2> HIDE DEF y
  <2>3. QED BY <2>1, <2>2, OneStill DEF Still
<1>10. CASE AcknowledgeDirectly
  BY <1>1, <1>9, <1>10 DEF AcknowledgeDirectly, OnRun
<1>11. ASSUME NEW e \in Executors, Turn(e)
       PROVE  exec[e].run \in Runs /\ runs[exec[e].run] \in RunRow
  BY <1>11 DEF Turn, TypeInv, TypeOK, Shape
<1>12. ASSUME NEW e \in Executors, IterationStopped(e) PROVE StillRows
  BY <1>12, UnchangedStill DEF IterationStopped, rows
<1>13. ASSUME NEW e \in Executors, AcknowledgeCancel(e) PROVE StillRows
  BY <1>9, <1>11, <1>13 DEF AcknowledgeCancel, Proceeds
<1>14. ASSUME NEW e \in Executors, PauseAtBoundary(e) \/ BudgetGate(e) PROVE StillRows
  <2>1. exec[e].run \in Runs /\ runs[exec[e].run] \in RunRow
    BY <1>11, <1>14 DEF PauseAtBoundary, BudgetGate, Proceeds
  <2>2. PICK t \in MissionStatus \ {"waiting"} :
          Apply(exec[e].run, t, runs[exec[e].run], runs[exec[e].run])
    BY <1>2, <1>14 DEF PauseAtBoundary, BudgetGate
  <2>3. QED BY <2>1, <2>2, ApplyStill DEF Still
<1>15. ASSUME NEW e \in Executors, BeginIteration(e) PROVE StillRows
  <2> DEFINE r == exec[e].run
  <2>1. r \in Runs /\ runs[r] \in RunRow
    BY <1>11, <1>15 DEF BeginIteration, Proceeds
  <2>2. PICK late \in BOOLEAN :
          runs' = [runs EXCEPT ![r] =
                     [runs[r] EXCEPT !.iterations = runs[r].iterations + 1, !.late = late]]
    BY <1>15 DEF BeginIteration
  <2> DEFINE y == [runs[r] EXCEPT !.iterations = runs[r].iterations + 1, !.late = late]
  <2>3. y.status = runs[r].status /\ y.waiting = runs[r].waiting
    BY <2>1 DEF RunRow
  <2>4. runs' = [runs EXCEPT ![r] = y]
    BY <2>2
  <2> HIDE DEF y
  <2>5. QED BY <2>1, <2>3, <2>4, OneStill DEF Still
<1>16. QED
  BY <1>3, <1>4, <1>5, <1>6, <1>7, <1>8, <1>10, <1>12, <1>13, <1>14, <1>15 DEF LoopStep

\* The end of a routed action.
LEMMA RouteAnswerStill == ASSUME TypeInv, NEW e \in Executors, RouteAnswer(e) PROVE StillRows
<1> DEFINE r == exec[e].run
           t == exec[e].route
           acted == [runs[r].actions EXCEPT ![t] = runs[r].actions[t] + 1]
<1>1. r \in Runs /\ runs[r] \in RunRow /\ t \in CappedRoutes
  BY DEF RouteAnswer, RouteReturns, CodingSandboxFails, Shape, TypeInv, TypeOK
<1>2. acted \in [CappedRoutes -> Nat] /\ runs[r].failures + 1 \in Nat
  BY <1>1 DEF RunRow
<1>3. ASSUME NEW a \in [CappedRoutes -> Nat], NEW n \in Nat
      PROVE  LET y == [runs[r] EXCEPT !.actions = a, !.failures = n]
             IN  y \in RunRow /\ y.status = runs[r].status /\ y.waiting = runs[r].waiting
  BY <1>1 DEF RunRow
<1>4. ASSUME NEW outcome \in {"completed", "failed", "rejected"}, RouteReturns(e, outcome)
      PROVE  StillRows
  <2> DEFINE n == IF outcome = "completed" THEN 0 ELSE runs[r].failures + 1
             y == [runs[r] EXCEPT !.actions = acted, !.failures = n]
  <2>1. CASE outcome = "rejected"
    <3>1. runs' = runs
      BY <1>1, <1>4, <2>1 DEF RouteReturns, TypeInv, TypeOK
    <3>2. QED BY <3>1, UnchangedStill
  <2>2. CASE outcome # "rejected"
    <3>1. n \in Nat
      BY <1>2
    <3>2. y.status = runs[r].status /\ y.waiting = runs[r].waiting
      <4> HIDE DEF n, acted
      <4>1. QED BY <1>2, <1>3, <3>1
    <3>3. runs' = [runs EXCEPT ![r] = y]
      BY <1>4, <2>2 DEF RouteReturns
    <3> HIDE DEF y
    <3>4. QED BY <1>1, <3>2, <3>3, OneStill DEF Still
  <2>3. QED BY <2>1, <2>2
<1>5. CASE CodingSandboxFails(e)
  <2> DEFINE y == [runs[r] EXCEPT !.actions = acted, !.failures = runs[r].failures + 1]
  <2>1. y \in RunRow /\ y.status = runs[r].status /\ y.waiting = runs[r].waiting
    <3> HIDE DEF acted
    <3>1. QED BY <1>2, <1>3
  <2>2. Apply(r, "blocked", y, y) /\ "blocked" \in MissionStatus \ {"waiting"}
    BY <1>5 DEF CodingSandboxFails, MissionStatus, Terminal
  <2> HIDE DEF y
  <2>3. QED BY <1>1, <2>1, <2>2, ApplyStill DEF Still
<1>6. QED BY <1>4, <1>5 DEF RouteAnswer

\* The worker pool, but for the coordinator's answers.
LEMMA WorkerStill ==
  ASSUME TypeInv, Worker, \A e \in Executors : ~Answer(e) PROVE StillRows
<1>1. ASSUME NEW r \in Runs, Schedule(r) PROVE StillRows
  BY <1>1, UnchangedStill DEF Schedule, rows
<1>2. ASSUME NEW r \in Runs, LeaseExpires(r) PROVE StillRows
  <2> DEFINE y == [runs[r] EXCEPT !.lease = "expired"]
  <2>1. y.status = runs[r].status /\ y.waiting = runs[r].waiting
    BY DEF TypeInv, TypeOK, RunRow
  <2>2. runs' = [runs EXCEPT ![r] = y]
    BY <1>2 DEF LeaseExpires
  <2> HIDE DEF y
  <2>3. QED BY <2>1, <2>2, OneStill DEF Still
<1>3. ASSUME NEW m \in Missions, BeginTask(m) PROVE StillRows
  <2>1. m \in Executors /\ exec[m].run \in Runs
    BY <1>3 DEF BeginTask, TypeInv, Shape, Executors
  <2>2. Acquire(m, exec[m].run) \/ runs' = runs
    BY <1>3 DEF BeginTask, rows
  <2>3. QED BY <2>1, <2>2, AcquireStill, UnchangedStill
<1>4. ASSUME NEW m \in Missions, WindDown(m) PROVE StillRows
  <2>1. m \in Executors /\ exec[m].run \in Runs
    BY <1>4 DEF WindDown, TypeInv, Shape, Executors
  <2>2. runs' = runs \/ runs' = Released(m)
    BY <1>4 DEF WindDown
  <2>3. QED BY <2>1, <2>2, ReleasedStill, UnchangedStill
<1>5. ASSUME NEW m \in Missions, HeartbeatLost(m) PROVE StillRows
  BY <1>5, UnchangedStill DEF HeartbeatLost, rows
<1>6. ASSUME NEW e \in Executors, BackoffEnds(e) PROVE StillRows
  BY <1>6, UnchangedStill DEF BackoffEnds, rows
<1>7. QED
  BY <1>1, <1>2, <1>3, <1>4, <1>5, <1>6, RouteAnswerStill DEF Worker

\* Operators.
LEMMA OperatorStill == ASSUME TypeInv, Operator PROVE StillRows
<1>1. ASSUME NEW m \in Missions, StartMission(m) PROVE StillRows
  BY <1>1, CreateRunStill, UnchangedStill DEF StartMission, rows
<1>2. ASSUME NEW m \in Missions, RetryMission(m) PROVE StillRows
  BY <1>2, UnchangedStill DEF RetryMission
<1>3. ASSUME NEW m \in Missions, PauseMission(m) \/ CancelMission(m) PROVE StillRows
  <2> DEFINE r == Current(m)
             y == [runs[r] EXCEPT !.pause = TRUE]
             z == [runs[r] EXCEPT !.cancelReq = TRUE]
  <2>1. r \in Runs /\ runs[r] \in RunRow
    BY <1>3, NewestType DEF PauseMission, CancelMission, TypeInv, TypeOK
  <2>2. /\ y.status = runs[r].status /\ y.waiting = runs[r].waiting
        /\ z.status = runs[r].status /\ z.waiting = runs[r].waiting
    <3> HIDE DEF r
    <3>1. QED BY <2>1 DEF RunRow
  <2>3. runs' = [runs EXCEPT ![r] = y] \/ runs' = [runs EXCEPT ![r] = z]
    BY <1>3 DEF PauseMission, CancelMission
  <2> HIDE DEF y, z, r
  <2>4. QED BY <2>1, <2>2, <2>3, OneStill DEF Still
<1>4. ASSUME NEW m \in Missions, ResumeMission(m) PROVE StillRows
  <2> DEFINE r == Latest(m)
             y == [runs[r] EXCEPT !.pause = FALSE, !.waiting = None]
  <2>1. r \in Runs /\ runs[r] \in RunRow
    BY <1>4, NewestType DEF ResumeMission, TypeInv, TypeOK
  <2>2. y \in RunRow
    BY <2>1 DEF RunRow
  <2>3. Apply(r, "queued", runs[r], y) /\ "queued" \in MissionStatus \ {"waiting"}
    BY <1>4 DEF ResumeMission, MissionStatus
  <2> HIDE DEF y, r
  <2>4. QED BY <2>1, <2>2, <2>3, ApplyStill DEF Still
<1>5. ASSUME NEW m \in Missions, NEW c \in Callers, RunOneStep(c, m) PROVE StillRows
  <2>1. c \in Executors /\ Current(m) \in Runs \cup {None}
    BY NewestType DEF Executors
  <2>2. CreateRun(m, c) \/ (Current(m) \in Runs /\ Acquire(c, Current(m)))
    BY <1>5, <2>1 DEF RunOneStep
  <2>3. QED BY <2>1, <2>2, CreateRunStill, AcquireStill
<1>6. ASSUME NEW w \in WaitIds, CancelWait(w) PROVE StillRows
  BY <1>6, UnchangedStill DEF CancelWait
<1>7. QED
  BY <1>1, <1>2, <1>3, <1>4, <1>5, <1>6 DEF Operator

\* The process, the peers and the deadlines.
LEMMA ProcessStill == ASSUME TypeInv, Process \/ Peer \/ Deadline PROVE StillRows
<1>1. CASE StartWorkers
  <2>1. ASSUME NEW r \in Runs PROVE Still(runs[r], runs'[r])
    <3>1. runs[r] \in RunRow
      BY DEF TypeInv, TypeOK
    <3>2. CASE Recoverable(r)
      BY <1>1, <3>1, <3>2 DEF StartWorkers, RunRow, Still
    <3>3. CASE ~Recoverable(r)
      BY <1>1, <3>3 DEF StartWorkers, Still
    <3>4. QED BY <3>2, <3>3
  <2>2. QED BY <2>1 DEF StillRows
<1>2. CASE Crash
  <2>1. ASSUME NEW r \in Runs PROVE Still(runs[r], runs'[r])
    <3>1. runs[r] \in RunRow
      BY DEF TypeInv, TypeOK
    <3>2. runs'[r].waiting = runs[r].waiting /\ runs'[r].status = runs[r].status
      BY <1>2, <3>1 DEF Crash, RunRow
    <3>3. QED BY <3>2 DEF Still
  <2>2. QED BY <2>1 DEF StillRows
<1>3. CASE BecomeReady \/ BeginShutdown \/ Stopped
  BY <1>3, UnchangedStill DEF BecomeReady, BeginShutdown, Stopped, rows
<1>4. ASSUME NEW w \in WaitIds, RecoverWait(w) \/ TimeOutWait(w) PROVE StillRows
  BY <1>4, UnchangedStill DEF RecoverWait, TimeOutWait, rows
<1>5. ASSUME NEW m \in Missions, CancelTask(m) PROVE StillRows
  BY <1>5, UnchangedStill DEF CancelTask, rows
<1>6. ASSUME NEW q \in Requests, ReplyArrives(q) PROVE StillRows
  BY <1>6, UnchangedStill DEF ReplyArrives
<1>7. QED
  BY <1>1, <1>2, <1>3, <1>4, <1>5, <1>6 DEF Process, Peer, Deadline

\* An answer lets its run wait for an operator only; the reply wait comes later.
LEMMA AnswerParks ==
  ASSUME TypeInv, NEW e \in Executors, Answer(e)
  PROVE  /\ OthersKept(exec[e].run)
         /\ runs'[exec[e].run].status = "waiting"
              => runs[exec[e].run].status = "waiting" \/ runs'[exec[e].run].waiting = None
<1> DEFINE r == exec[e].run
           Good == /\ OthersKept(r)
                   /\ runs'[r].status = "waiting" => runs[r].status = "waiting" \/ runs'[r].waiting = None
<1> SUFFICES Good
  OBVIOUS
<1>1. exec[e].pc = "coordinator"
  BY DEF Answer, CoordinatorUnusable, CoordinatorFails, InvalidDecision, DecidesComplete,
         CompletionRefused, DecidesBlocked, DecidesWait, DecidesRoute, SendsPeerMessage,
         DecidesReplyWait, PeerMessageRefused, Answered
<1>2. r \in Runs
  BY <1>1 DEF TypeInv, Shape
<1>3. \A run \in AnswerRows(e) \cup {runs[r]} : run \in RunRow /\ run.status = runs[r].status
  BY <1>1, CountedKept
<1> HIDE DEF r
<1>4. ASSUME NEW run \in AnswerRows(e) \cup {runs[r]}, runs' = [runs EXCEPT ![r] = run] PROVE Good
  <2>1. runs'[r] = run /\ OthersKept(r)
    BY <1>2, <1>4, OneRow
  <2>2. QED BY <1>3, <1>4, <2>1
<1>5. ASSUME NEW t \in {"blocked", "completed"}, NEW run \in AnswerRows(e) \cup {runs[r]},
             NEW moved \in AnswerRows(e) \cup {runs[r]}, Apply(r, t, run, moved)
      PROVE  Good
  <2> DEFINE y == [moved EXCEPT !.status = t]
  <2>1. y.status # "waiting"
    BY <1>3 DEF RunRow
  <2>2. runs' = [runs EXCEPT ![r] = y] \/ runs' = [runs EXCEPT ![r] = run]
    BY <1>5 DEF Apply
  <2> HIDE DEF y
  <2>3. QED BY <1>2, <1>4, <2>1, <2>2, OneRow
<1>6. ASSUME NEW run \in AnswerRows(e), NEW otherwise, Streaks(e, run, otherwise) PROVE Good
  BY <1>4, <1>5, <1>6 DEF Streaks, r
<1>7. CASE CoordinatorUnusable(e)
  BY <1>5, <1>7 DEF CoordinatorUnusable, r
<1>8. CASE CoordinatorFails(e)
  BY <1>6, <1>8 DEF CoordinatorFails, AnswerRows
<1>9. CASE InvalidDecision(e)
  BY <1>6, <1>9 DEF InvalidDecision, AnswerRows
<1>10. CASE DecidesComplete(e)
  BY <1>5, <1>10 DEF DecidesComplete, AnswerRows, r
<1>11. CASE CompletionRefused(e)
  BY <1>4, <1>11 DEF CompletionRefused, AnswerRows, r
<1>12. CASE DecidesBlocked(e)
  BY <1>5, <1>12 DEF DecidesBlocked, AnswerRows, r
<1>13. CASE DecidesWait(e)
  <2> DEFINE moved == [Counted(e) EXCEPT !.waiting = None]
             y == [moved EXCEPT !.status = "waiting"]
  <2>1. Counted(e) \in RunRow
    BY <1>3 DEF AnswerRows
  <2>2. y.waiting = None
    BY <2>1 DEF RunRow
  <2>3. runs' = [runs EXCEPT ![r] = y] \/ runs' = [runs EXCEPT ![r] = Counted(e)]
    BY <1>13 DEF DecidesWait, Apply, r
  <2> HIDE DEF y
  <2>4. QED BY <1>2, <1>4, <2>2, <2>3, OneRow DEF AnswerRows
<1>14. ASSUME NEW t \in CappedRoutes, DecidesRoute(e, t) PROVE Good
  BY <1>4, <1>5, <1>14 DEF DecidesRoute, AnswerRows, r
<1>15. ASSUME NEW q \in Requests, SendsPeerMessage(e, q) PROVE Good
  BY <1>4, <1>15 DEF SendsPeerMessage, AnswerRows, r
<1>16. ASSUME NEW q \in Requests, NEW deadline \in BOOLEAN, DecidesReplyWait(e, q, deadline)
       PROVE  Good
  <2>1. runs' = [runs EXCEPT ![r] = Counted(e)]
    BY <1>16 DEF DecidesReplyWait, r
  <2>2. QED BY <1>4, <2>1 DEF AnswerRows
<1>17. CASE PeerMessageRefused(e)
  BY <1>4, <1>17 DEF PeerMessageRefused, AnswerRows, r
<1>18. QED
  BY <1>7, <1>8, <1>9, <1>10, <1>11, <1>12, <1>13, <1>14, <1>15, <1>16, <1>17 DEF Answer, r

\* What the waits and the waiting runs have in common at every moment.
Made(w) == waits[w].state # "absent"
Pend(w) == waits[w].state = "pending"
Numbered == \A v, w \in WaitIds : Made(w) /\ v <= w => Made(v)
\* A wait is for a request that its own run has sent.
Asked == \A w \in WaitIds :
  Made(w) => waits[w].request \in Requests /\ outbox[waits[w].request] = waits[w].run
PendingNewest == \A v, w \in WaitIds :
  Pend(w) /\ Made(v) /\ waits[v].request = waits[w].request => v <= w
\* The handler that stores a reply resolves the pending wait before it yields.
PendingOpen == \A w \in WaitIds : Pend(w) =>
  /\ waits[w].resume = "none"
  /\ waits[w].request \notin replies \/ (loop.do = "satisfy" /\ loop.w = w)
Handed ==
  /\ loop.do = "wait" => Pend(loop.w) /\ waits[loop.w].run = loop.r
  /\ loop.do = "satisfy" => Pend(loop.w)
  /\ loop.do = "claim" => ~Pend(loop.w)
\* A worker in an await works on a run that does not wait.
Awake == \A m \in Missions : exec[m].pc \in Suspended => runs[exec[m].run].status # "waiting"
\* The wait that keeps run r waiting: the newest of its request.
Resuming(w) ==
  loop.w = w /\ (loop.do = "requeue" \/ (loop.do = "claim" /\ waits[w].resume = "none"))
Keeper(w, r) ==
  /\ Made(w) /\ waits[w].run = r /\ waits[w].request = runs[r].waiting
  /\ \A v \in WaitIds : Made(v) /\ waits[v].request = waits[w].request => v <= w
  /\ Pend(w) \/ waits[w].state = "cancelled" \/ Resuming(w)
\* A mission that waits has a run that waits, for no machine or with a keeper.
Wakeable(r) == /\ runs[r].status = "waiting"
               /\ runs[r].waiting \in Requests => \E w \in WaitIds : Keeper(w, r)
Awaited == \A m \in Missions :
  missions[m] = "waiting" => \E r \in Runs : r[1] = m /\ Wakeable(r)
WaitRows == Numbered /\ Asked /\ PendingNewest /\ PendingOpen /\ Handed /\ Awaited

\* The step of the worker that holds the loop is about its own run.
HeldRun == loop.do \in {"iterate", "finish", "acquired", "wait"} => loop.r = exec[loop.e].run

LEMMA StepHeldRun ==
  ASSUME Callers = {}, TypeInv, OwnRuns, HeldRun, [Next]_vars PROVE HeldRun'
<1> USE DEF HeldRun
<1>1. Executors = Missions /\ NoStep
  BY DEF Executors, OwnRuns
<1>2. /\ Free.do = "free" /\ \A w : At("satisfy", None, None, w).do = "satisfy"
      /\ At("claim", None, None, loop.w).do = "claim"
      /\ \A e : /\ Finish(e).do = "finish" /\ Finish(e).e = e /\ Finish(e).r = exec[e].run
                /\ Iterate(e).do = "iterate" /\ Iterate(e).e = e /\ Iterate(e).r = exec[e].run
  BY DEF Free, Finish, Iterate, At
<1>3. ASSUME NEW m \in Missions, Works(m) PROVE HeldRun'
  <2>1. exec'[m].run = exec[m].run
    BY <1>3 DEF Works, OnlyExec
  <2>2. loop' = Free \/ loop' = Iterate(m) \/ loop' = Finish(m)
        \/ \E w \in WaitIds : loop' = At("wait", m, exec[m].run, w)
    BY <1>3 DEF Works, Begins, Suspends, GoesRound, AwaitsReply, Ends
  <2>3. QED BY <1>2, <2>1, <2>2 DEF At
<1>4. ASSUME NEW m \in Executors, NEW r \in Runs, Acquire(m, r) PROVE HeldRun'
  <2>1. Acquired(m, r)
    BY <1>4, AcquireEffect
  <2>2. loop' = At("acquired", m, r, 0) /\ exec'[m].run = r
    BY <2>1 DEF Acquired
  <2>3. loop'.e = m /\ loop'.r = r
    BY <2>2 DEF At
  <2>4. QED BY <2>2, <2>3
<1>5. ASSUME LoopStep, \A m \in Missions : ~Works(m) PROVE HeldRun'
  <2>1. CASE MissionActive \/ EnterWaiting \/ MoveToCancelled \/ CancelMissionWaits
    BY <1>2, <2>1 DEF MissionActive, EnterWaiting, MoveToCancelled, CancelMissionWaits, CancelDone,
                      TypeInv, TypeOK, LoopRow
  <2>2. CASE EndRun \/ SatisfyWait \/ ClaimResume \/ Requeue \/ Queue \/ EnqueueRetry
             \/ PauseDirectly \/ AcknowledgeDirectly
    BY <1>2, <2>2 DEF EndRun, SatisfyWait, ClaimResume, Requeue, Queue, EnqueueRetry, CreateRun,
                      PauseDirectly, AcknowledgeDirectly, At
  <2>3. ~StepAcquires
    BY <1>1 DEF StepAcquires, NoStep
  <2>4. ASSUME NEW m \in Missions, IterationStopped(m) \/ AcknowledgeCancel(m) PROVE HeldRun'
    BY <1>2, <2>4 DEF IterationStopped, AcknowledgeCancel, At
  <2>5. QED BY <1>1, <1>5, <2>1, <2>2, <2>3, <2>4, TurnWorks DEF LoopStep
<1>6. ASSUME LoopFree, loop' = Free \/ loop' = loop PROVE HeldRun'
  BY <1>2, <1>6 DEF LoopFree
<1>7. ASSUME Worker, \A m \in Missions : ~Works(m) PROVE HeldRun'
  <2>1. ASSUME NEW m \in Missions, BeginTask(m) PROVE HeldRun'
    <3>1. m \in Executors /\ exec[m].run \in Runs
      BY <1>1, <2>1 DEF BeginTask, TypeInv, Shape
    <3>2. QED BY <1>4, <1>6, <2>1, <3>1 DEF BeginTask
  <2>2. ASSUME NEW r \in Runs, Schedule(r) \/ LeaseExpires(r) PROVE HeldRun'
    BY <1>6, <2>2 DEF Schedule, LeaseExpires
  <2>3. ASSUME NEW m \in Missions, WindDown(m) \/ HeartbeatLost(m) PROVE HeldRun'
    BY <1>6, <2>3 DEF WindDown, HeartbeatLost
  <2>4. QED
    BY <1>1, <1>7, <2>1, <2>2, <2>3, AnswerWorks, RouteAnswerWorks, BackoffWorks DEF Worker
<1>8. CASE Operator \/ Peer \/ Deadline \/ Process
  <2>1. ASSUME NEW do \in {"queue", "retry", "pause", "ack"}, NEW r, loop' = At(do, None, r, 0)
        PROVE  HeldRun'
    BY <2>1 DEF At
  <2>2. ASSUME NEW m \in Missions, StartMission(m) \/ RetryMission(m) PROVE HeldRun'
    BY <1>6, <2>1, <2>2 DEF StartMission, RetryMission, CreateRun
  <2>3. ASSUME NEW m \in Missions, PauseMission(m) \/ CancelMission(m) PROVE HeldRun'
    BY <1>2, <2>1, <2>3 DEF PauseMission, CancelMission
  <2>4. ASSUME NEW m \in Missions, ResumeMission(m) PROVE HeldRun'
    BY <1>6, <2>4 DEF ResumeMission, Serving
  <2>5. CASE Peer \/ Deadline \/ \E w \in WaitIds : CancelWait(w) \/ RecoverWait(w)
    BY <2>5, HandsOn DEF Hands, Elsewhere
  <2>6. CASE StartWorkers
    BY <2>6 DEF StartWorkers
  <2>7. CASE BecomeReady \/ BeginShutdown \/ Stopped \/ \E m \in Missions : CancelTask(m)
    BY <1>6, <2>7 DEF BecomeReady, BeginShutdown, Stopped, CancelTask, Serving
  <2>8. CASE Crash
    BY <1>2, <2>8 DEF Crash
  <2>9. QED
    BY <1>1, <1>8, <2>2, <2>3, <2>4, <2>5, <2>6, <2>7, <2>8 DEF Operator, Process, Executors
<1>9. CASE UNCHANGED vars
  BY <1>9 DEF vars
<1>10. QED BY <1>3, <1>5, <1>7, <1>8, <1>9 DEF Next

\* A worker that suspends works on a run that does not wait.
LEMMA StepAwake ==
  ASSUME Callers = {}, TypeInv, OwnRuns, HeldRun, Awake, [Next]_vars PROVE Awake'
<1>1. Executors = Missions
  BY DEF Executors
<1>2. \A k \in Missions : exec[k].pc \in Suspended =>
        exec[k].run \in Runs /\ exec[k].pc # "idle" /\ exec[k].run[1] = k
  BY <1>1, CountedType DEF Suspended, OwnRuns
<1>3. ASSUME NEW m \in Missions, Works(m) PROVE Awake'
  <2> SUFFICES ASSUME NEW k \in Missions, exec'[k].pc \in Suspended
               PROVE  runs'[exec'[k].run].status # "waiting"
    BY DEF Awake
  <2>1. /\ exec[m].run \in Runs /\ OthersKept(exec[m].run) /\ exec'[m].run = exec[m].run
        /\ k # m => exec'[k] = exec[k] /\ (exec[k].pc # "idle" => exec[k].run # exec[m].run)
    BY <1>3, WorksOwn DEF Works, OnlyExec
  <2>2. CASE k # m
    <3>1. exec'[k].run \in Runs /\ exec'[k].run # exec[m].run /\ exec[k].pc \in Suspended
      BY <1>2, <2>1, <2>2
    <3>2. runs'[exec'[k].run] = runs[exec[k].run]
      BY <2>1, <2>2, <3>1 DEF OthersKept
    <3>3. QED BY <3>1, <3>2 DEF Awake
  <2>3. CASE k = m
    <3>1. SameStatus /\ (runs[exec[m].run].status = "active" \/ exec[m].pc \in Suspended)
      BY <1>3, <2>3 DEF Works, Begins, Suspends, GoesRound, AwaitsReply, Ends, Suspended
    <3>2. runs[exec[m].run].status # "waiting"
      BY <3>1 DEF Awake
    <3>3. QED BY <2>1, <2>3, <3>1, <3>2 DEF SameStatus
  <2>4. QED BY <2>2, <2>3
<1>4. CASE EnterWaiting
  <2>1. /\ Moved(loop.r, "waiting") /\ loop.r = exec[loop.e].run /\ exec' = exec
        /\ exec[loop.e].pc = "running" /\ loop.e \in Missions
    BY <1>1, <1>4, Moves DEF EnterWaiting, HeldRun, TypeInv, Shape, ByExec, Moved
  <2>2. loop.r[1] = loop.e
    BY <2>1 DEF OwnRuns
  <2>3. \A k \in Missions : exec[k].pc \in Suspended => exec[k].run # loop.r
    BY <1>2, <2>1, <2>2 DEF Suspended
  <2>4. QED BY <1>2, <2>1, <2>3 DEF Moved, Applied, Awake
<1>5. ASSUME Bookkept, StillRows PROVE Awake'
  <2> SUFFICES ASSUME NEW k \in Missions, exec'[k].pc \in Suspended
               PROVE  runs'[exec'[k].run].status # "waiting"
    BY DEF Awake
  <2>1. SameCall(k)
    BY <1>5 DEF Bookkept, OffDuty, Suspended
  <2>2. QED BY <1>2, <1>5, <2>1 DEF SameCall, StillRows, Still, Awake
<1>6. ASSUME ~EnterWaiting, \A m \in Missions : ~Works(m) PROVE StillRows
  <2>1. \A e \in Executors : ~Answer(e)
    BY <1>1, <1>6, AnswerWorks
  <2>2. CASE UNCHANGED vars
    BY <2>2, UnchangedStill DEF vars, rows
  <2>3. QED
    BY <1>6, <2>1, <2>2, LoopStepStill, WorkerStill, OperatorStill, ProcessStill DEF Next
<1>7. QED
  BY <1>3, <1>4, <1>5, <1>6, StepBooks

\* A mission that waits after a step waited before it, and none of its waiting runs
\* was queued meanwhile or waits for another request; or else a run of it waits now
\* for something no machine resolves.
WaitingKept ==
  \A m \in Missions : missions'[m] = "waiting" =>
    \/ /\ missions[m] = "waiting"
       /\ \A r \in Runs : r[1] = m /\ runs[r].status = "waiting" =>
            runs'[r].status = "waiting" /\ runs'[r].waiting = runs[r].waiting
    \/ \E r \in Runs : r[1] = m /\ runs'[r].status = "waiting" /\ runs'[r].waiting = None
Parked ==
  \A m \in Missions : missions'[m] = "waiting" =>
    /\ missions[m] = "waiting"
    /\ \A r \in Runs : r[1] = m /\ runs[r].status = "waiting" => runs'[r].status = "waiting"

LEMMA ParkedKept == ASSUME Parked, StillRows PROVE WaitingKept
  BY DEF Parked, StillRows, Still, WaitingKept

LEMMA SameParked == SameStatus => Parked
  BY DEF SameStatus, Parked

LEMMA AppliedParked ==
  ASSUME TypeInv, NEW r \in Runs, NEW t, t # "waiting", Applied(r, t) PROVE Parked
<1>1. CASE Applies(r, t)
  <2>1. missions'[r[1]] = t /\ \A m \in Missions : m # r[1] => missions'[m] = missions[m]
    BY <1>1 DEF Applied, TypeInv, TypeOK, Runs
  <2>2. \A s \in Runs : s # r => runs'[s].status = runs[s].status
    BY DEF Applied
  <2>3. QED BY <2>1, <2>2 DEF Parked
<1>2. CASE ~Applies(r, t)
  <2>1. SameStatus
    BY <1>2 DEF Applied, SameStatus
  <2>2. QED BY <2>1, SameParked
<1>3. QED BY <1>1, <1>2

\* The mission row stays, and no run that waits is written.
LEMMA OthersParked ==
  ASSUME NEW r \in Runs, missions' = missions, OthersKept(r), runs[r].status # "waiting"
  PROVE  Parked
  BY DEF OthersKept, Parked

\* A worker makes the run it works on, which does not wait, wait at most for
\* something no machine resolves.
LEMMA WorksWaiting ==
  ASSUME Callers = {}, TypeInv, OwnRuns, NEW m \in Missions, Works(m),
         runs[exec[m].run].status # "waiting",
         runs'[exec[m].run].status = "waiting" => runs'[exec[m].run].waiting = None
  PROVE  WaitingKept
<1> DEFINE r == exec[m].run
<1>1. r \in Runs /\ OthersKept(r)
  BY WorksOwn DEF Works
<1>2. SameStatus \/ \E t \in {"blocked", "completed", "waiting", "paused"} : Applied(r, t)
  BY DEF Works, Begins, Suspends, GoesRound, AwaitsReply, Ends
<1>3. CASE missions' = missions
  BY <1>1, <1>3 DEF OthersKept, WaitingKept
<1>4. ASSUME NEW t, Applied(r, t), Applies(r, t) PROVE WaitingKept
  <2>1. /\ missions'[r[1]] = t /\ runs'[r].status = t
        /\ \A k \in Missions : k # r[1] => missions'[k] = missions[k]
    BY <1>1, <1>4 DEF Applied, TypeInv, TypeOK, Runs
  <2>2. QED BY <1>1, <2>1 DEF OthersKept, WaitingKept
<1>5. QED BY <1>2, <1>3, <1>4 DEF SameStatus, Applied

\* The handlers that are no worker's step on its run.
LEMMA LoopStepParked ==
  ASSUME Callers = {}, TypeInv, OwnRuns, LoopStep, ~EnterWaiting, \A m \in Missions : ~Works(m)
  PROVE  Parked
<1>1. Executors = Missions /\ NoStep
  BY DEF Executors, OwnRuns
<1>2. CASE MissionActive \/ Queue \/ PauseDirectly \/ MoveToCancelled
  <2>1. loop.r \in Runs
    BY <1>2 DEF MissionActive, Queue, PauseDirectly, MoveToCancelled, TypeInv, Shape, OnRun
  <2>2. \E t \in {"active", "queued", "paused", "cancelled"} : Moved(loop.r, t)
    BY <1>2, Moves
  <2>3. QED BY <2>1, <2>2, AppliedParked DEF Moved
<1>3. CASE EndRun
  <2>1. loop.e \in Missions
    BY <1>1, <1>3 DEF EndRun, TypeInv, Shape, ByExec
  <2>2. QED BY <1>3, <2>1 DEF EndRun, Parked
<1>4. CASE SatisfyWait \/ ClaimResume \/ CancelMissionWaits
  BY <1>4 DEF SatisfyWait, ClaimResume, CancelMissionWaits, Parked
<1>5. CASE Requeue
  <2> DEFINE r == waits[loop.w].run
  <2>1. /\ r \in Runs /\ OthersKept(r)
        /\ \/ missions' = missions /\ runs' = runs
           \/ missions' = [missions EXCEPT ![r[1]] = "queued"]
    BY <1>5, RequeueEffect
  <2>2. r[1] \in Missions /\ missions \in [Missions -> MissionStatus]
    BY <2>1 DEF Runs, TypeInv, TypeOK
  <2> HIDE DEF r
  <2>3. QED BY <2>1, <2>2 DEF OthersKept, Parked
<1>6. CASE EnqueueRetry
  <2>1. PICK r \in Runs : Created(loop.r[1], r)
    BY <1>6, CreateRunEffect DEF EnqueueRetry
  <2>2. QED BY <2>1, OthersParked DEF Created, NextRun
<1>7. ~StepAcquires
  BY <1>1 DEF StepAcquires, NoStep
<1>8. CASE AcknowledgeDirectly
  BY <1>8, Acknowledged, SameParked DEF Acked
<1>9. ASSUME NEW m \in Missions, IterationStopped(m) \/ AcknowledgeCancel(m) PROVE Parked
  <2>1. CASE IterationStopped(m)
    BY <2>1 DEF IterationStopped, rows, Parked
  <2>2. CASE AcknowledgeCancel(m)
    BY <2>2, Acknowledged, SameParked DEF Acked
  <2>3. QED BY <1>9, <2>1, <2>2
<1>10. QED
  BY <1>1, <1>2, <1>3, <1>4, <1>5, <1>6, <1>7, <1>8, <1>9, TurnWorks DEF LoopStep

LEMMA WorkerParked ==
  ASSUME Callers = {}, TypeInv, Worker, \A m \in Missions : ~Works(m) PROVE Parked
<1>1. Executors = Missions
  BY DEF Executors
<1>2. ASSUME NEW r \in Runs, Schedule(r) \/ LeaseExpires(r) PROVE Parked
  <2>1. CASE Schedule(r)
    BY <2>1 DEF Schedule, rows, Parked
  <2>2. CASE LeaseExpires(r)
    BY <2>2, ExpiryEffect, SameParked
  <2>3. QED BY <1>2, <2>1, <2>2
<1>3. ASSUME NEW m \in Missions, BeginTask(m) PROVE Parked
  <2>1. CASE Acquire(m, exec[m].run)
    <3>1. m \in Executors /\ exec[m].run \in Runs
      BY <1>1, <1>3 DEF BeginTask, TypeInv, Shape
    <3>2. QED BY <2>1, <3>1, AcquireEffect, OthersParked DEF Acquired
  <2>2. CASE UNCHANGED rows
    BY <2>2 DEF rows, Parked
  <2>3. QED BY <1>3, <2>1, <2>2 DEF BeginTask
<1>4. ASSUME NEW m \in Missions, WindDown(m) \/ HeartbeatLost(m) PROVE Parked
  <2>1. CASE WindDown(m)
    BY <2>1, WindDownEffect, SameParked
  <2>2. CASE HeartbeatLost(m)
    BY <2>2 DEF HeartbeatLost, rows, Parked
  <2>3. QED BY <1>4, <2>1, <2>2
<1>5. QED
  BY <1>1, <1>2, <1>3, <1>4, AnswerWorks, RouteAnswerWorks, BackoffWorks DEF Worker

LEMMA ElseParked ==
  ASSUME Callers = {}, TypeInv, Operator \/ Peer \/ Deadline \/ Process PROVE Parked
<1>1. CASE Peer \/ Deadline \/ \E w \in WaitIds : CancelWait(w) \/ RecoverWait(w)
  BY <1>1, HandsOn, SameParked DEF Hands, Noted
<1>2. ASSUME NEW m \in Missions, CreateRun(m, None) PROVE Parked
  <2>1. PICK r \in Runs : Created(m, r)
    BY <1>2, CreateRunEffect
  <2>2. QED BY <2>1, OthersParked DEF Created, NextRun
<1>3. ASSUME NEW m \in Missions, StartMission(m) \/ PauseMission(m) \/ CancelMission(m) PROVE Parked
  <2>1. CASE StartMission(m) /\ runs' # runs
    BY <1>2, <2>1 DEF StartMission, rows
  <2>2. CASE ~(StartMission(m) /\ runs' # runs)
    BY <1>3, <2>2, RequestNoted, SameParked DEF Noted
  <2>3. QED BY <2>1, <2>2
<1>4. ASSUME NEW m \in Missions, RetryMission(m) PROVE Parked
  BY <1>4 DEF RetryMission, Parked, TypeInv, TypeOK
<1>5. ASSUME NEW m \in Missions, ResumeMission(m) PROVE Parked
  <2>1. Latest(m) \in Runs
    BY <1>5, NewestType DEF ResumeMission
  <2>2. QED BY <1>5, <2>1, Moves, AppliedParked DEF Moved
<1>6. CASE StartWorkers
  <2>1. \A m \in Missions : missions'[m] = "waiting" => missions[m] = "waiting"
    BY <1>6 DEF StartWorkers, TypeInv, TypeOK
  <2>2. \A r \in Runs : runs[r].status = "waiting" => runs'[r].status = "waiting"
    BY <1>6, ProcessEffect DEF Recoverable
  <2>3. QED BY <2>1, <2>2 DEF Parked
<1>7. CASE Crash
  BY <1>7, ProcessEffect DEF Crash, Parked
<1>8. ASSUME NEW m \in Missions, BecomeReady \/ BeginShutdown \/ Stopped \/ CancelTask(m)
      PROVE  Parked
  BY <1>8 DEF BecomeReady, BeginShutdown, Stopped, CancelTask, rows, Parked
<1>9. CASE BecomeReady \/ BeginShutdown \/ Stopped
  BY <1>9 DEF BecomeReady, BeginShutdown, Stopped, rows, Parked
<1>10. QED
  BY <1>1, <1>3, <1>4, <1>5, <1>6, <1>7, <1>8, <1>9 DEF Operator, Process, Executors

\* No step but EnterWaiting makes a mission wait for a request, and no step takes
\* the request from a run whose mission goes on waiting.
LEMMA StepWaiting ==
  ASSUME Callers = {}, TypeInv, OwnRuns, Awake, [Next]_vars, ~EnterWaiting PROVE WaitingKept
<1>1. Executors = Missions
  BY DEF Executors
<1>2. ASSUME NEW m \in Missions, Works(m)
      PROVE  exec[m].run \in Runs /\ runs[exec[m].run].status # "waiting"
  BY <1>2, WorksOwn DEF Works, Begins, Suspends, GoesRound, AwaitsReply, Ends, Awake, Suspended
<1>3. ASSUME NEW m \in Missions, Answer(m) PROVE WaitingKept
  <2>1. Works(m)
    BY <1>3, AnswerWorks
  <2>2. QED BY <1>1, <1>2, <1>3, <2>1, AnswerParks, WorksWaiting
<1>4. ASSUME \A m \in Missions : ~Answer(m) PROVE StillRows
  BY <1>1, <1>4, LoopStepStill, WorkerStill, OperatorStill, ProcessStill, UnchangedStill
     DEF Next, vars, rows
<1>5. ASSUME NEW m \in Missions, Works(m), StillRows PROVE WaitingKept
  <2>1. runs'[exec[m].run].status # "waiting"
    BY <1>2, <1>5 DEF StillRows, Still
  <2>2. QED BY <1>2, <1>5, <2>1, WorksWaiting
<1>6. ASSUME \A m \in Missions : ~Works(m), StillRows PROVE WaitingKept
  <2>1. CASE UNCHANGED vars
    BY <2>1 DEF vars, rows, WaitingKept
  <2>2. CASE Next
    BY <1>6, <2>2, LoopStepParked, WorkerParked, ElseParked, ParkedKept DEF Next
  <2>3. QED BY <2>1, <2>2
<1>7. QED BY <1>3, <1>4, <1>5, <1>6

\* A step that makes no wait: it may only resolve or claim some.
Resolves ==
  /\ \A w \in WaitIds : /\ waits'[w].run = waits[w].run /\ waits'[w].request = waits[w].request
                        /\ waits'[w].state = "absent" <=> waits[w].state = "absent"
                        /\ waits'[w].state = "pending" => Pend(w) /\ waits'[w] = waits[w]
  /\ replies' = replies
  /\ \A q \in Requests : outbox[q] # None => outbox'[q] = outbox[q]
\* The wait that keeps a run waiting goes on doing so.
Going(w)  == Pend(w) \/ waits[w].state = "cancelled" \/ Resuming(w)
Goes == \A w \in WaitIds : Made(w) /\ Going(w) => Going(w)'
\* A keeper of a run that goes on waiting stays one.
KeepersStay ==
  \A r \in Runs, w \in WaitIds :
    Keeper(w, r) /\ runs[r].status = "waiting" /\ runs[r].waiting \in Requests
      /\ missions[r[1]] = "waiting" /\ missions'[r[1]] = "waiting"
      /\ runs'[r].status = "waiting" /\ runs'[r].waiting = runs[r].waiting
    => Keeper(w, r)'

LEMMA ResolvesRows ==
  ASSUME TypeInv, WaitRows, Resolves, loop'.do \notin {"wait", "satisfy"},
         loop.do = "satisfy" => waits'[loop.w].state # "pending",
         loop'.do = "claim" => waits'[loop'.w].state # "pending"
  PROVE  Numbered' /\ Asked' /\ PendingNewest' /\ PendingOpen' /\ Handed'
<1>1. Numbered'
  BY DEF WaitRows, Numbered, Resolves, Made
<1>2. Asked'
  <2>1. \A w \in WaitIds : Made(w) => waits[w].run # None
    BY NamesAssumption DEF TypeInv, Shape, Made
  <2>2. QED BY <2>1 DEF WaitRows, Asked, Resolves, Made
<1>3. PendingNewest'
  BY DEF WaitRows, PendingNewest, Resolves, Made, Pend
<1>4. PendingOpen'
  BY DEF WaitRows, PendingOpen, Resolves, Pend
<1>5. Handed'
  BY DEF Handed, Pend
<1>6. QED BY <1>1, <1>2, <1>3, <1>4, <1>5

LEMMA KeepersAwaited == ASSUME WaitRows, WaitingKept, KeepersStay PROVE Awaited'
<1> SUFFICES ASSUME NEW m \in Missions, missions'[m] = "waiting"
             PROVE  \E r \in Runs : r[1] = m /\ Wakeable(r)'
  BY DEF Awaited
<1>1. ASSUME NEW r \in Runs, r[1] = m, runs'[r].status = "waiting", runs'[r].waiting = None
      PROVE  Wakeable(r)'
  BY <1>1, NamesAssumption DEF Wakeable
<1>2. ASSUME missions[m] = "waiting",
             \A r \in Runs : r[1] = m /\ runs[r].status = "waiting" =>
               runs'[r].status = "waiting" /\ runs'[r].waiting = runs[r].waiting
      PROVE  \E r \in Runs : r[1] = m /\ Wakeable(r)'
  <2>1. PICK r \in Runs : r[1] = m /\ Wakeable(r)
    BY <1>2 DEF WaitRows, Awaited
  <2>2. runs[r].status = "waiting" /\ runs'[r].status = "waiting"
        /\ runs'[r].waiting = runs[r].waiting
    BY <1>2, <2>1 DEF Wakeable
  <2>3. ASSUME runs[r].waiting \in Requests PROVE (\E w \in WaitIds : Keeper(w, r))'
    <3>1. PICK w \in WaitIds : Keeper(w, r)
      BY <2>1, <2>3 DEF Wakeable
    <3>2. Keeper(w, r)'
      BY <1>2, <2>1, <2>2, <2>3, <3>1 DEF KeepersStay
    <3>3. QED BY <3>2
  <2>4. Wakeable(r)'
    BY <2>2, <2>3 DEF Wakeable
  <2>5. QED BY <2>1, <2>4
<1>3. QED BY <1>1, <1>2 DEF WaitingKept

LEMMA GoesOnAwaited == ASSUME WaitRows, Resolves, WaitingKept, Goes PROVE Awaited'
<1>1. KeepersStay
  BY DEF KeepersStay, Keeper, Resolves, Made, Goes, Going
<1>2. QED BY <1>1, KeepersAwaited

\* Every handler that neither resolves nor makes a wait.
Quiet ==
  /\ waits' = waits /\ replies' = replies
  /\ \A q \in Requests : outbox[q] # None => outbox'[q] = outbox[q]
  /\ loop.do \notin {"satisfy", "claim", "requeue"} /\ loop'.do \notin {"satisfy", "wait"}
  /\ loop'.do = "claim" => ~Pend(loop'.w)

LEMMA QuietRows == ASSUME TypeInv, WaitRows, Quiet, WaitingKept PROVE WaitRows'
<1>1. Resolves
  BY DEF Quiet, Resolves, Pend
<1>2. Goes
  BY DEF Quiet, Goes, Going, Resuming, Pend
<1>3. QED BY <1>1, <1>2, ResolvesRows, GoesOnAwaited DEF Quiet, WaitRows, Pend

\* One wait is written that is resolved by now.
LEMMA OneWaitRow ==
  ASSUME TypeInv, NEW w \in WaitIds, Made(w), NEW y, waits' = [waits EXCEPT ![w] = y],
         y.run = waits[w].run, y.request = waits[w].request, y.state \notin {"absent", "pending"},
         replies' = replies, outbox' = outbox
  PROVE  Resolves /\ waits'[w] = y /\ \A v \in WaitIds : v # w => waits'[v] = waits[v]
<1>1. waits'[w] = y /\ \A v \in WaitIds : v # w => waits'[v] = waits[v]
  BY DEF TypeInv, TypeOK
<1>2. QED BY <1>1 DEF Resolves, Made, Pend

\* The transactions that resolve waits.
LEMMA SatisfyRows == ASSUME TypeInv, WaitRows, WaitingKept, SatisfyWait PROVE WaitRows'
<1> DEFINE w == loop.w
           y == [waits[w] EXCEPT !.state = "satisfied"]
<1>1. /\ w \in WaitIds /\ Made(w) /\ Pend(w) /\ waits[w].resume = "none" /\ waits[w] \in WaitRow
  BY DEF SatisfyWait, TypeInv, TypeOK, Shape, OnWait, Made, Pend, WaitRows, Handed, PendingOpen
<1>2. /\ waits' = [waits EXCEPT ![w] = y] /\ replies' = replies /\ outbox' = outbox
      /\ loop.do = "satisfy" /\ loop'.do = "claim" /\ loop'.w = w
  BY DEF SatisfyWait, At
<1>3. /\ y.resume = "none" /\ y.state = "satisfied"
      /\ y.run = waits[w].run /\ y.request = waits[w].request
  BY <1>1 DEF WaitRow
<1>4. Resolves /\ waits'[w] = y /\ \A v \in WaitIds : v # w => waits'[v] = waits[v]
  <2> HIDE DEF w, y
  <2>1. QED BY <1>1, <1>2, <1>3, OneWaitRow
<1> HIDE DEF w, y
<1>5. Goes
  BY <1>1, <1>2, <1>3, <1>4 DEF Goes, Going, Resuming, Pend
<1>6. QED BY <1>2, <1>3, <1>4, <1>5, ResolvesRows, GoesOnAwaited DEF WaitRows, w

LEMMA TimeOutRows ==
  ASSUME TypeInv, WaitRows, WaitingKept, NEW w \in WaitIds, TimeOutWait(w) \/ CancelWait(w)
  PROVE  WaitRows'
<1> DEFINE y == [waits[w] EXCEPT !.state = "timed_out"]
           z == [waits[w] EXCEPT !.state = "cancelled"]
<1>1. /\ Made(w) /\ Pend(w) /\ waits[w].resume = "none" /\ waits[w] \in WaitRow /\ loop.do = "free"
  BY DEF TimeOutWait, CancelWait, Due, TypeInv, TypeOK, Made, Pend, WaitRows, PendingOpen,
         Serving, LoopFree, Free, At
<1>2. replies' = replies /\ outbox' = outbox
  BY DEF TimeOutWait, CancelWait
<1>3. /\ y.resume = "none" /\ y.state = "timed_out" /\ z.state = "cancelled"
      /\ y.run = waits[w].run /\ y.request = waits[w].request
      /\ z.run = waits[w].run /\ z.request = waits[w].request
  BY <1>1 DEF WaitRow
<1>4. \/ waits' = [waits EXCEPT ![w] = y] /\ loop'.do = "claim" /\ loop'.w = w
      \/ waits' = [waits EXCEPT ![w] = z] /\ loop'.do = "free"
  BY <1>1 DEF TimeOutWait, CancelWait, At
<1> HIDE DEF y, z
<1>5. /\ Resolves /\ \A v \in WaitIds : v # w => waits'[v] = waits[v]
      /\ \/ waits'[w] = y /\ loop'.do = "claim" /\ loop'.w = w
         \/ waits'[w] = z /\ loop'.do = "free"
  BY <1>1, <1>2, <1>3, <1>4, OneWaitRow
<1>6. Goes
  BY <1>1, <1>3, <1>5 DEF Goes, Going, Resuming, Pend
<1>7. QED BY <1>1, <1>3, <1>5, <1>6, ResolvesRows, GoesOnAwaited DEF WaitRows

LEMMA CancelWaitsRows == ASSUME TypeInv, WaitRows, WaitingKept, CancelMissionWaits PROVE WaitRows'
<1>1. ASSUME NEW w \in WaitIds
      PROVE  /\ waits'[w].run = waits[w].run /\ waits'[w].request = waits[w].request
             /\ waits'[w] = waits[w] \/ (Pend(w) /\ waits'[w].state = "cancelled")
  <2> DEFINE y == [waits[w] EXCEPT !.state = "cancelled"]
  <2>1. waits[w] \in WaitRow
    BY DEF TypeInv, TypeOK
  <2>2. y.run = waits[w].run /\ y.request = waits[w].request /\ y.state = "cancelled"
    BY <2>1 DEF WaitRow
  <2>3. waits'[w] = waits[w] \/ (Pend(w) /\ waits'[w] = y)
    BY DEF CancelMissionWaits, PendingOf, Pend
  <2> HIDE DEF y
  <2>4. QED BY <2>2, <2>3
<1>2. /\ replies' = replies /\ outbox' = outbox /\ loop.do = "cancel_waits"
      /\ loop'.do \in {"free", "finish"}
  BY DEF CancelMissionWaits, CancelDone, Free, Finish, At
<1>3. Resolves
  BY <1>1, <1>2 DEF Resolves, Pend
<1>4. Goes
  BY <1>1, <1>2 DEF Goes, Going, Resuming, Pend
<1>5. QED BY <1>2, <1>3, <1>4, ResolvesRows, GoesOnAwaited DEF WaitRows

LEMMA ClaimRows == ASSUME TypeInv, WaitRows, WaitingKept, ClaimResume PROVE WaitRows'
<1> DEFINE w == loop.w
           y == [waits[w] EXCEPT !.resume = "queued"]
<1>1. /\ w \in WaitIds /\ Made(w) /\ ~Pend(w) /\ waits[w] \in WaitRow /\ loop.do = "claim"
      /\ replies' = replies /\ outbox' = outbox
  BY DEF ClaimResume, TypeInv, TypeOK, Shape, OnWait, Made, WaitRows, Handed
<1>2. CASE waits[w].resume # "none"
  <2>1. waits' = waits /\ loop'.do = "free"
    BY <1>2 DEF ClaimResume, Free, At
  <2>2. Resolves /\ Goes
    BY <1>1, <1>2, <2>1 DEF Resolves, Goes, Going, Resuming, Pend
  <2>3. QED BY <1>1, <2>1, <2>2, ResolvesRows, GoesOnAwaited DEF WaitRows
<1>3. CASE waits[w].resume = "none"
  <2>1. waits' = [waits EXCEPT ![w] = y] /\ loop'.do = "requeue" /\ loop'.w = w
    BY <1>3 DEF ClaimResume, At
  <2>2. /\ y.run = waits[w].run /\ y.request = waits[w].request
        /\ y.state = waits[w].state /\ y.state \notin {"absent", "pending"}
    BY <1>1 DEF WaitRow, Made, Pend
  <2> HIDE DEF w, y
  <2>3. Resolves /\ waits'[w] = y /\ \A v \in WaitIds : v # w => waits'[v] = waits[v]
    BY <1>1, <2>1, <2>2, OneWaitRow
  <2>4. Goes
    BY <1>1, <2>1, <2>2, <2>3 DEF Goes, Going, Resuming, Pend, w
  <2>5. QED BY <1>1, <2>1, <2>3, <2>4, ResolvesRows, GoesOnAwaited DEF WaitRows
<1>4. QED BY <1>2, <1>3

\* The move to waiting: the wait it is for is pending still.
LEMMA EnterRows == ASSUME TypeInv, WaitRows, EnterWaiting PROVE WaitRows'
<1>0. PICK w \in WaitIds, r \in Runs : w = loop.w /\ r = loop.r
  BY DEF EnterWaiting, TypeInv, Shape, OnWait, OnRun
<1> DEFINE moved == [runs[r] EXCEPT !.waiting = waits[w].request]
           y == [moved EXCEPT !.status = "waiting"]
<1>1. /\ Made(w) /\ Pend(w) /\ waits[w].run = r /\ r[1] \in Missions
      /\ runs[r] \in RunRow /\ loop.do = "wait" /\ loop'.do = "finish"
  BY <1>0 DEF EnterWaiting, TypeInv, TypeOK, Shape, OnWait, OnRun, Made, WaitRows, Handed, Pend,
         Finish, At, Runs
<1>2. waits' = waits /\ replies' = replies /\ outbox' = outbox
  BY DEF EnterWaiting
<1>3. y.status = "waiting" /\ y.waiting = waits[w].request
  BY <1>1 DEF RunRow
<1>4. \/ /\ missions' = [missions EXCEPT ![r[1]] = "waiting"]
         /\ runs' = [runs EXCEPT ![r] = y]
      \/ /\ missions' = missions
         /\ runs' = [runs EXCEPT ![r] = runs[r]]
  BY <1>0 DEF EnterWaiting, Apply
<1>5. Resolves /\ \A v \in WaitIds, s \in Runs : Keeper(v, s) /\ runs'[s] = runs[s] => Keeper(v, s)'
  BY <1>1, <1>2 DEF Resolves, Pend, Keeper, Made, Resuming
<1> HIDE DEF y
<1>6. /\ OthersKept(r)
      /\ \/ runs'[r] = y /\ \A m \in Missions : m # r[1] => missions'[m] = missions[m]
         \/ runs'[r] = runs[r] /\ missions' = missions
  BY <1>1, <1>4, OneRow DEF TypeInv, TypeOK
<1>7. ASSUME NEW m \in Missions, missions[m] = "waiting", m # r[1] \/ runs'[r] = runs[r]
      PROVE  \E s \in Runs : s[1] = m /\ Wakeable(s)'
  <2>1. PICK s \in Runs : s[1] = m /\ Wakeable(s)
    BY <1>7 DEF WaitRows, Awaited
  <2>2. runs'[s] = runs[s]
    BY <1>6, <1>7, <2>1 DEF OthersKept
  <2>3. QED BY <1>5, <2>1, <2>2 DEF Wakeable
<1>8. ASSUME runs'[r] = y PROVE Wakeable(r)'
  <2>1. \A v \in WaitIds : Made(v) /\ waits[v].request = waits[w].request => v <= w
    BY <1>1 DEF WaitRows, PendingNewest
  <2>2. Keeper(w, r)'
    BY <1>1, <1>2, <1>3, <1>8, <2>1 DEF Keeper, Made, Pend
  <2>3. QED BY <1>3, <1>8, <2>2 DEF Wakeable
<1>9. Awaited'
  <2> SUFFICES ASSUME NEW m \in Missions, missions'[m] = "waiting"
               PROVE  \E s \in Runs : s[1] = m /\ Wakeable(s)'
    BY DEF Awaited
  <2>1. QED BY <1>6, <1>7, <1>8
<1>10. QED BY <1>1, <1>5, <1>9, ResolvesRows DEF WaitRows

\* The resume queues the mission that waits and the run of its wait, so that the
\* keeper of a mission that goes on waiting is another wait.
LEMMA RequeueRows == ASSUME TypeInv, WaitRows, WaitingKept, Requeue PROVE WaitRows'
<1>0. PICK w \in WaitIds, r \in Runs : w = loop.w /\ r = waits[w].run
  BY DEF Requeue, TypeInv, Shape, OnWait
<1>1. Made(w) /\ loop.do = "requeue" /\ loop'.do = "free" /\ r[1] \in Missions
  BY <1>0 DEF Requeue, TypeInv, TypeOK, Shape, OnWait, Made, Free, At, Runs
<1>2. waits' = waits /\ replies' = replies /\ outbox' = outbox
  BY DEF Requeue
<1>3. missions'[r[1]] # "waiting"
  BY <1>0, <1>1 DEF Requeue, TypeInv, TypeOK
<1>4. Resolves
  BY <1>2 DEF Resolves, Pend
<1>5. KeepersStay
  <2> SUFFICES ASSUME NEW s \in Runs, NEW v \in WaitIds, Keeper(v, s),
                      missions'[s[1]] = "waiting", runs'[s].waiting = runs[s].waiting
               PROVE  Keeper(v, s)'
    BY DEF KeepersStay
  <2>1. s # r
    BY <1>3
  <2>2. ~Resuming(v)
    BY <1>0, <2>1 DEF Keeper, Resuming
  <2>3. QED BY <1>2, <2>2 DEF Keeper, Made, Pend
<1>6. QED BY <1>1, <1>4, <1>5, ResolvesRows, KeepersAwaited DEF WaitRows

\* A reply is stored, and the one pending wait of its request is satisfied next.
LEMMA ReplyRows ==
  ASSUME TypeInv, WaitRows, WaitingKept, NEW q \in Requests, ReplyArrives(q) PROVE WaitRows'
<1>1. /\ waits' = waits /\ outbox' = outbox /\ replies' = replies \cup {q} /\ loop.do = "free"
      /\ \/ loop'.do = "free" /\ Pending(q) = {}
         \/ loop'.do = "satisfy" /\ loop'.w \in Pending(q)
  BY DEF ReplyArrives, Serving, LoopFree, Free, At
<1>2. Numbered' /\ Asked' /\ PendingNewest' /\ Handed'
  BY <1>1 DEF WaitRows, Numbered, Asked, PendingNewest, Handed, Made, Pend, Pending
<1>3. PendingOpen'
  <2> SUFFICES ASSUME NEW w \in WaitIds, Pend(w)
               PROVE  /\ waits[w].resume = "none"
                      /\ waits[w].request \notin replies' \/ (loop'.do = "satisfy" /\ loop'.w = w)
    BY <1>1 DEF PendingOpen, Pend
  <2>1. waits[w].resume = "none" /\ waits[w].request \notin replies
    BY <1>1 DEF WaitRows, PendingOpen
  <2>2. CASE waits[w].request = q
    <3>1. w \in Pending(q)
      BY <2>2 DEF Pending, Pend
    <3>2. loop'.w \in WaitIds /\ Pend(loop'.w) /\ waits[loop'.w].request = q
      BY <1>1, <3>1 DEF Pending, Pend
    <3>3. loop'.w <= w /\ w <= loop'.w
      BY <2>2, <3>2 DEF WaitRows, PendingNewest, Pend, Made
    <3>4. QED BY <1>1, <2>1, <3>1, <3>2, <3>3 DEF WaitIds
  <2>3. QED BY <1>1, <2>1, <2>2
<1>4. KeepersStay
  BY <1>1 DEF KeepersStay, Keeper, Resuming, Made, Pend
<1>5. QED BY <1>2, <1>3, <1>4, KeepersAwaited DEF WaitRows

\* An iteration reuses the pending wait of its request, finds the reply in the
\* inbox, or makes the newest wait of them all.
LEMMA DecidesRows ==
  ASSUME TypeInv, Awake, WaitRows, WaitingKept, NEW m \in Missions, NEW q \in Requests,
         NEW deadline \in BOOLEAN, DecidesReplyWait(m, q, deadline)
  PROVE  WaitRows'
<1>0. PICK r \in Runs : r = exec[m].run
  <2>1. exec[m].pc # "idle" /\ m \in Executors
    BY DEF DecidesReplyWait, Answered, Executors
  <2>2. QED BY <2>1, CountedType
<1>1. /\ outbox' = outbox /\ replies' = replies /\ loop.do = "free" /\ outbox[q] = r
      /\ runs[r].status # "waiting"
  BY <1>0 DEF DecidesReplyWait, Answered, LoopFree, Free, At, Awake, Suspended
<1> DEFINE wait == [NoWait EXCEPT !.run = r, !.request = q, !.deadline = deadline]
           made == [wait EXCEPT !.state = "pending"]
           inline == [wait EXCEPT !.state = "satisfied", !.resume = "inline"]
<1>2. /\ made.state = "pending" /\ made.run = r /\ made.request = q /\ made.resume = "none"
      /\ inline.state = "satisfied" /\ inline.run = r /\ inline.request = q
  BY DEF NoWait
<1>3. \/ /\ waits' = waits
         /\ \E w \in Pending(q) : loop' = At("wait", m, r, w)
      \/ /\ Pending(q) = {}
         /\ \E w \in WaitIds :
              /\ NewWait(w)
              /\ \/ /\ waits' = [waits EXCEPT ![w] = inline] /\ loop' = Continued(m)
                 \/ /\ q \notin replies
                    /\ waits' = [waits EXCEPT ![w] = made] /\ loop' = At("wait", m, r, w)
  <2> HIDE DEF made, inline
  <2>1. QED BY <1>0 DEF DecidesReplyWait, made, inline, wait
<1> HIDE DEF made, inline, wait
<1>4. ASSUME NEW w \in Pending(q), waits' = waits, loop' = At("wait", m, r, w) PROVE WaitRows'
  <2>1. loop'.do = "wait" /\ loop'.r = r /\ loop'.w = w /\ w \in WaitIds /\ Pend(w)
        /\ waits[w].request = q
    BY <1>4 DEF At, Pending, Pend
  <2>2. waits[w].run = r
    BY <1>1, <2>1 DEF WaitRows, Asked, Made, Pend
  <2>3. Numbered' /\ Asked' /\ PendingNewest' /\ PendingOpen' /\ Handed'
    BY <1>1, <1>4, <2>1, <2>2
       DEF WaitRows, Numbered, Asked, PendingNewest, PendingOpen, Handed, Made, Pend
  <2>4. Resolves /\ Goes
    BY <1>1, <1>4 DEF Resolves, Pend, Goes, Going, Resuming
  <2>5. QED BY <2>3, <2>4, GoesOnAwaited DEF WaitRows
<1>5. ASSUME NEW w \in WaitIds, NewWait(w), Pending(q) = {}, NEW y \in {made, inline},
             waits' = [waits EXCEPT ![w] = y],
             \/ y.state = "satisfied" /\ loop'.do \notin {"wait", "satisfy", "claim"}
             \/ /\ y.state = "pending" /\ y.resume = "none" /\ q \notin replies
                /\ loop'.do = "wait" /\ loop'.w = w /\ loop'.r = r
      PROVE  WaitRows'
  <2>1. waits'[w] = y /\ \A v \in WaitIds : v # w => waits'[v] = waits[v]
    BY <1>5 DEF TypeInv, TypeOK
  <2>2. y.run = r /\ y.request = q /\ y.state # "absent"
    BY <1>2, <1>5
  <2>3. ~Made(w) /\ \A v \in WaitIds : v < w => Made(v)
    BY <1>5 DEF NewWait, Made, WaitIds
  <2>4. \A v \in WaitIds : Made(v) => v < w
    <3>1. ASSUME NEW v \in WaitIds, Made(v), ~(v < w) PROVE FALSE
      <4>1. w <= v
        BY <3>1 DEF WaitIds
      <4>2. QED BY <2>3, <3>1, <4>1 DEF WaitRows, Numbered
    <3>2. QED BY <3>1
  <2>5. \A v \in WaitIds : Pend(v) => waits[v].request # q
    BY <1>5 DEF Pending, Pend
  <2>6. \A v \in WaitIds : /\ Made(v)' <=> (v = w \/ Made(v))
                           /\ v # w => (Pend(v)' <=> Pend(v))
    BY <2>1, <2>2 DEF Made, Pend
  <2>7. Numbered'
    BY <2>3, <2>4, <2>6 DEF WaitRows, Numbered, WaitIds
  <2>8. Asked'
    BY <1>1, <2>1, <2>2, <2>6 DEF WaitRows, Asked
  <2>9. PendingNewest'
    BY <2>1, <2>2, <2>4, <2>5, <2>6 DEF WaitRows, PendingNewest, WaitIds
  <2>10. PendingOpen'
    BY <1>1, <1>5, <2>1, <2>2, <2>6 DEF WaitRows, PendingOpen, Pend
  <2>11. Handed'
    BY <1>5, <2>1, <2>2 DEF Handed, Pend
  <2>12. KeepersStay
    <3> SUFFICES ASSUME NEW s \in Runs, NEW v \in WaitIds, Keeper(v, s),
                        runs[s].status = "waiting", runs'[s].waiting = runs[s].waiting
                 PROVE  Keeper(v, s)'
      BY DEF KeepersStay
    <3>1. v # w /\ waits[v].request # q
      <4>1. outbox[waits[v].request] = s
        BY DEF WaitRows, Asked, Keeper
      <4>2. QED BY <1>1, <2>3, <4>1 DEF Keeper
    <3>2. QED BY <1>1, <2>1, <2>2, <2>6, <3>1 DEF Keeper, Resuming, Pend
  <2>13. QED BY <2>7, <2>8, <2>9, <2>10, <2>11, <2>12, KeepersAwaited DEF WaitRows
<1>6. \A w : At("wait", m, r, w).do = "wait" /\ At("wait", m, r, w).w = w
             /\ At("wait", m, r, w).r = r
  BY DEF At
<1>7. Continued(m).do \notin {"wait", "satisfy", "claim"}
  BY DEF Continued, Iterate, Finish, At
<1>8. QED BY <1>2, <1>3, <1>4, <1>5, <1>6, <1>7

\* What all the other handlers do to the waits: nothing.
LEMMA LoopStepQuiet ==
  ASSUME Callers = {}, TypeInv, LoopStep, ~SatisfyWait, ~ClaimResume, ~Requeue, ~EnterWaiting,
         ~CancelMissionWaits
  PROVE  Quiet
<1>1. CASE MissionActive \/ EndRun \/ Queue \/ PauseDirectly \/ AcknowledgeDirectly
  BY <1>1 DEF MissionActive, EndRun, Queue, PauseDirectly, AcknowledgeDirectly, Quiet,
              Iterate, Free, At
<1>2. CASE EnqueueRetry \/ StepAcquires
  BY <1>2 DEF EnqueueRetry, CreateRun, StepAcquires, Acquire, Quiet, At
<1>3. CASE MoveToCancelled
  BY <1>3 DEF MoveToCancelled, CancelDone, Finish, Free, At, Quiet, TypeInv, TypeOK, LoopRow
<1>4. ASSUME NEW e \in Executors, IterationStopped(e) \/ AcknowledgeCancel(e) PROVE Quiet
  BY <1>4 DEF IterationStopped, AcknowledgeCancel, Proceeds, Turn, rows, Finish, At, Quiet
<1>5. ASSUME NEW e \in Executors, PauseAtBoundary(e) \/ BudgetGate(e) PROVE Quiet
  BY <1>5 DEF PauseAtBoundary, BudgetGate, Proceeds, Turn, Finish, At, Quiet
<1>6. ASSUME NEW e \in Executors, BeginIteration(e) PROVE Quiet
  BY <1>6 DEF BeginIteration, Proceeds, Turn, Free, At, Quiet
<1>7. QED BY <1>1, <1>2, <1>3, <1>4, <1>5, <1>6 DEF LoopStep

LEMMA AnswerQuiet ==
  ASSUME NEW e \in Executors, Answer(e),
         \A q \in Requests, deadline \in BOOLEAN : ~DecidesReplyWait(e, q, deadline)
  PROVE  Quiet
<1> USE DEF Answered, LoopFree
<1>1. Finish(e).do = "finish" /\ Continued(e).do \in {"iterate", "finish"} /\ Free.do = "free"
  BY DEF Finish, Continued, Iterate, Free, At
<1>2. CASE CoordinatorUnusable(e) \/ CoordinatorFails(e) \/ InvalidDecision(e)
  BY <1>1, <1>2 DEF CoordinatorUnusable, CoordinatorFails, InvalidDecision, Streaks, Quiet
<1>3. CASE DecidesComplete(e) \/ CompletionRefused(e) \/ DecidesBlocked(e) \/ DecidesWait(e)
  BY <1>1, <1>3 DEF DecidesComplete, CompletionRefused, DecidesBlocked, DecidesWait, Quiet
<1>4. ASSUME NEW t \in CappedRoutes, DecidesRoute(e, t) PROVE Quiet
  BY <1>1, <1>4 DEF DecidesRoute, Quiet
<1>5. ASSUME NEW q \in Requests, SendsPeerMessage(e, q) PROVE Quiet
  <2>1. /\ waits' = waits /\ replies' = replies /\ loop.do = "free" /\ loop'.do \in {"iterate", "finish"}
        /\ outbox[q] = None /\ outbox' = [outbox EXCEPT ![q] = exec[e].run]
    BY <1>1, <1>5 DEF SendsPeerMessage
  <2>2. \A p \in Requests : outbox[p] # None => outbox'[p] = outbox[p]
    BY <2>1
  <2>3. QED BY <2>1, <2>2 DEF Quiet
<1>6. CASE PeerMessageRefused(e)
  BY <1>1, <1>6 DEF PeerMessageRefused, Quiet
<1>7. QED BY <1>2, <1>3, <1>4, <1>5, <1>6 DEF Answer

LEMMA WorkerQuiet ==
  ASSUME Worker,
         \A e \in Executors, q \in Requests, deadline \in BOOLEAN : ~DecidesReplyWait(e, q, deadline)
  PROVE  Quiet
<1> USE DEF LoopFree
<1>1. \A e \in Executors : Finish(e).do = "finish" /\ Continued(e).do \in {"iterate", "finish"}
  BY DEF Finish, Continued, Iterate, At
<1>2. Free.do = "free"
  BY DEF Free, At
<1>3. ASSUME NEW r \in Runs, Schedule(r) \/ LeaseExpires(r) PROVE Quiet
  BY <1>2, <1>3 DEF Schedule, LeaseExpires, rows, Quiet
<1>4. ASSUME NEW m \in Missions, BeginTask(m) \/ WindDown(m) \/ HeartbeatLost(m) PROVE Quiet
  BY <1>2, <1>4 DEF BeginTask, Acquire, WindDown, HeartbeatLost, rows, Quiet, At
<1>5. ASSUME NEW e \in Executors, RouteAnswer(e) \/ BackoffEnds(e) PROVE Quiet
  BY <1>1, <1>2, <1>5 DEF RouteAnswer, RouteReturns, CodingSandboxFails, BackoffEnds, rows, Quiet
<1>6. QED BY <1>3, <1>4, <1>5, AnswerQuiet DEF Worker

LEMMA OperatorQuiet ==
  ASSUME Callers = {}, Operator, \A w \in WaitIds : ~CancelWait(w) PROVE Quiet
<1> USE DEF Serving, LoopFree
<1>1. Free.do = "free"
  BY DEF Free, At
<1>2. ASSUME NEW m \in Missions, StartMission(m) \/ RetryMission(m) PROVE Quiet
  BY <1>1, <1>2 DEF StartMission, RetryMission, CreateRun, rows, Quiet, At
<1>3. ASSUME NEW m \in Missions, PauseMission(m) \/ ResumeMission(m) \/ CancelMission(m) PROVE Quiet
  BY <1>1, <1>3 DEF PauseMission, ResumeMission, CancelMission, Quiet, At
<1>4. QED BY <1>2, <1>3 DEF Operator

LEMMA ProcessQuiet ==
  ASSUME "crash" \notin Faults, Down, Process PROVE Quiet
<1> USE DEF LoopFree, Serving
<1>1. Free.do = "free"
  BY DEF Free, At
<1>2. CASE StartWorkers
  BY <1>1, <1>2 DEF StartWorkers, Down, Quiet
<1>3. CASE BecomeReady \/ BeginShutdown \/ Stopped
  BY <1>1, <1>3 DEF BecomeReady, BeginShutdown, Stopped, rows, Quiet
<1>4. ASSUME NEW w \in WaitIds, RecoverWait(w) PROVE Quiet
  BY <1>1, <1>4 DEF RecoverWait, Unresumed, rows, Quiet, At, Pend
<1>5. ASSUME NEW m \in Missions, CancelTask(m) PROVE Quiet
  BY <1>1, <1>5 DEF CancelTask, rows, Quiet
<1>6. QED BY <1>2, <1>3, <1>4, <1>5 DEF Process, Crash

\* Every step keeps the waits and the waiting runs together.
LEMMA StepWaitRows ==
  ASSUME Callers = {}, "crash" \notin Faults, TypeInv, OwnRuns, Down, Awake, WaitRows, [Next]_vars
  PROVE  WaitRows'
<1>1. Executors = Missions
  BY DEF Executors
<1>2. CASE EnterWaiting
  BY <1>1, <1>2, EnterRows
<1>3. ASSUME ~EnterWaiting PROVE WaitingKept
  BY <1>3, StepWaiting
<1>4. CASE SatisfyWait \/ ClaimResume \/ Requeue \/ CancelMissionWaits
  <2>1. ~EnterWaiting
    BY <1>4 DEF SatisfyWait, ClaimResume, Requeue, CancelMissionWaits, EnterWaiting
  <2>2. QED BY <1>1, <1>3, <1>4, <2>1, SatisfyRows, ClaimRows, RequeueRows, CancelWaitsRows
<1>5. ASSUME LoopFree PROVE ~EnterWaiting
  BY <1>5 DEF LoopFree, Free, At, EnterWaiting
<1>6. ASSUME NEW q \in Requests, ReplyArrives(q) PROVE WaitRows'
  BY <1>1, <1>3, <1>5, <1>6, ReplyRows DEF ReplyArrives, Serving
<1>7. ASSUME NEW w \in WaitIds, TimeOutWait(w) \/ CancelWait(w) PROVE WaitRows'
  BY <1>1, <1>3, <1>5, <1>7, TimeOutRows DEF TimeOutWait, CancelWait, Serving
<1>8. ASSUME NEW m \in Missions, NEW q \in Requests, NEW deadline \in BOOLEAN,
             DecidesReplyWait(m, q, deadline)
      PROVE  WaitRows'
  BY <1>1, <1>3, <1>5, <1>8, DecidesRows DEF DecidesReplyWait, Answered
<1>9. CASE UNCHANGED vars
  <2>1. /\ waits' = waits /\ outbox' = outbox /\ replies' = replies /\ loop' = loop
        /\ runs' = runs /\ missions' = missions
    BY <1>9 DEF vars, rows
  <2>2. Numbered' /\ Asked' /\ PendingNewest' /\ PendingOpen' /\ Handed'
    BY <2>1 DEF WaitRows, Numbered, Asked, PendingNewest, PendingOpen, Handed, Made, Pend
  <2>3. Awaited'
    BY <2>1 DEF WaitRows, Awaited, Wakeable, Keeper, Resuming, Made, Pend
  <2>4. QED BY <2>2, <2>3 DEF WaitRows
<1>10. ASSUME Quiet, ~EnterWaiting PROVE WaitRows'
  BY <1>1, <1>3, <1>10, QuietRows
<1>11. CASE LoopStep
  BY <1>1, <1>2, <1>4, <1>10, <1>11, LoopStepQuiet
<1>12. ASSUME Worker \/ Peer \/ Deadline \/ Operator \/ Process, ~EnterWaiting PROVE WaitRows'
  BY <1>1, <1>6, <1>7, <1>8, <1>10, <1>12, WorkerQuiet, OperatorQuiet, ProcessQuiet
     DEF Peer, Deadline
<1>13. QED BY <1>2, <1>9, <1>11, <1>12 DEF Next

LEMMA WaitRowsInit == ASSUME Init PROVE HeldRun /\ Down /\ Awake /\ WaitRows
<1>1. /\ \A w \in WaitIds : waits[w].state = "absent"
      /\ \A m \in Missions : exec[m].pc = "idle" /\ missions[m] = "received"
      /\ loop.do = "free" /\ node = "ready"
  BY DEF Init, NoWait, Idle, Free, At, Executors
<1>2. QED
  BY <1>1 DEF HeldRun, Down, Awake, Suspended, WaitRows, Numbered, Asked, PendingNewest,
              PendingOpen, Handed, Awaited, Made, Pend

\* No wake-up is lost: whatever the order in which a reply, its deadline, the
\* operator, another iteration and a late resume reach the waits of a mission, one
\* that waits has a run that waits for something no machine resolves, or for a
\* reply whose newest wait is its own and is pending and unanswered, or cancelled
\* by an operator (create_or_get, satisfy, time_out, claim_resume,
\* _requeue_mission).  Nothing is asked of the order: the rows of a mission and its
\* runs need not agree for it.
THEOREM NoLostWakeupHolds ==
  ASSUME Callers = {}, "crash" \notin Faults PROVE Spec => []NoLostWakeup
<1> DEFINE Inv == TypeInv /\ OwnRuns /\ HeldRun /\ Down /\ Awake /\ WaitRows
<1>1. Init => Inv
  BY TypeInit, OwnInit, WaitRowsInit
<1>2. Inv /\ [Next]_vars => Inv'
  BY StepType, StepOwn, StepHeldRun, StepDown, StepAwake, StepWaitRows
<1>3. Inv => NoLostWakeup
  <2> SUFFICES ASSUME Inv, Settled, NEW m \in Missions, missions[m] = "waiting"
               PROVE  \E r \in RunsOf(m) : runs[r].status = "waiting" /\ WillBeWoken(r)
    BY DEF NoLostWakeup
  <2>1. PICK r \in Runs : r[1] = m /\ Wakeable(r)
    BY DEF WaitRows, Awaited
  <2>2. r \in RunsOf(m) /\ runs[r].status = "waiting"
    BY <2>1 DEF RunsOf, Wakeable
  <2>3. loop.do = "free"
    BY DEF Settled, LoopFree, Free, At
  <2>4. ASSUME runs[r].waiting \in Requests PROVE WillBeWoken(r)
    <3> DEFINE q == runs[r].waiting
    <3>1. PICK w \in WaitIds : Keeper(w, r)
      BY <2>1, <2>4 DEF Wakeable
    <3>2. /\ w \in WaitsFor(q) /\ waits[w].run = r /\ waits[w].request = q
          /\ \A v \in WaitsFor(q) : v <= w
      BY <3>1 DEF Keeper, WaitsFor, Made
    <3>3. waits[w].state = "cancelled" \/ (waits[w].state = "pending" /\ q \notin replies)
      BY <2>3, <3>1, <3>2 DEF Keeper, Resuming, WaitRows, PendingOpen, Pend
    <3>4. QED BY <3>2, <3>3 DEF WillBeWoken
  <2>5. WillBeWoken(r)
    BY <2>4 DEF WillBeWoken
  <2>6. QED BY <2>2, <2>5
<1>4. QED
  BY <1>1, <1>2, <1>3, PTL DEF Spec
===============================================================================
