------------------------ MODULE MissionExecution_proofs ------------------------
(***************************************************************************)
(* Proofs about MissionExecution, for every value of its constants.        *)
(***************************************************************************)
EXTENDS MissionExecution, TLAPS

\* What each step of the coroutine holding the loop, and each executor, refers
\* to: the run, the executor and the wait it names are there.
OnRun  == {"iterate", "finish", "acquired", "cancel", "cancel_waits", "wait",
           "queue", "retry", "step", "pause", "ack"}
ByExec == {"iterate", "finish", "acquired", "wait", "step"}
OnWait == {"wait", "satisfy", "claim", "requeue"}

Shape ==
  /\ \A e \in Executors :
       /\ exec[e].pc # "idle" => exec[e].run \in Runs
       /\ exec[e].pc = "route" => exec[e].route \in CappedRoutes
  /\ \A w \in WaitIds : waits[w].state # "absent" => waits[w].run \in Runs
  /\ loop.do \in OnRun => loop.r \in Runs
  /\ loop.do \in ByExec => loop.e \in Executors
  /\ loop.do \in OnWait => loop.w \in WaitIds /\ waits[loop.w].state # "absent"
  /\ loop.do \in {"iterate", "finish", "acquired", "wait"} => exec[loop.e].pc = "running"
  /\ loop.do \in {"cancel", "cancel_waits"} /\ loop.e # None => exec[loop.e].pc = "running"

TypeInv == TypeOK /\ Shape

\* A run row stays one when one of its columns gets a value of the column.
LEMMA RunRowUpdates ==
  ASSUME NEW run \in RunRow
  PROVE  /\ \A s \in RunStatus : [run EXCEPT !.status = s] \in RunRow
         /\ \A b \in BOOLEAN : /\ [run EXCEPT !.pause = b] \in RunRow
                               /\ [run EXCEPT !.cancelReq = b] \in RunRow
                               /\ [run EXCEPT !.cancelAck = b] \in RunRow
         /\ \A q \in Requests \cup {None} : [run EXCEPT !.waiting = q] \in RunRow
         /\ \A n \in Nat : /\ [run EXCEPT !.failures = n] \in RunRow
                           /\ [run EXCEPT !.calls = n] \in RunRow
                           /\ \A k \in Nat :
                                [run EXCEPT !.failures = n, !.calls = k] \in RunRow
         /\ \A n \in Nat, b \in BOOLEAN :
              [run EXCEPT !.iterations = n, !.late = b] \in RunRow
         /\ \A l \in LeaseStates : [run EXCEPT !.lease = l] \in RunRow
         /\ \A l \in LeaseStates, t \in Tokens :
              [run EXCEPT !.token = t, !.lease = l] \in RunRow
         /\ \A t \in Tokens : [run EXCEPT !.token = t] \in RunRow
         /\ \A s \in RunStatus, l \in LeaseStates, t \in Tokens :
              /\ [run EXCEPT !.status = s, !.lease = l, !.token = t] \in RunRow
              /\ \A b \in BOOLEAN :
                   [run EXCEPT !.status = s, !.lease = l, !.token = t, !.pause = b] \in RunRow
<1>1. \A s \in RunStatus : [run EXCEPT !.status = s] \in RunRow
  BY DEF RunRow
<1>2. \A b \in BOOLEAN : [run EXCEPT !.pause = b] \in RunRow
  BY DEF RunRow
<1>3. \A b \in BOOLEAN : [run EXCEPT !.cancelReq = b] \in RunRow
  BY DEF RunRow
<1>4. \A b \in BOOLEAN : [run EXCEPT !.cancelAck = b] \in RunRow
  BY DEF RunRow
<1>5. \A q \in Requests \cup {None} : [run EXCEPT !.waiting = q] \in RunRow
  BY DEF RunRow
<1>6. \A n \in Nat : [run EXCEPT !.failures = n] \in RunRow
  BY DEF RunRow
<1>7. \A n \in Nat : [run EXCEPT !.calls = n] \in RunRow
  BY DEF RunRow
<1>8. \A n, k \in Nat : [run EXCEPT !.failures = n, !.calls = k] \in RunRow
  BY DEF RunRow
<1>9. \A n \in Nat, b \in BOOLEAN : [run EXCEPT !.iterations = n, !.late = b] \in RunRow
  BY DEF RunRow
<1>10. \A l \in LeaseStates : [run EXCEPT !.lease = l] \in RunRow
  BY DEF RunRow
<1>11. \A l \in LeaseStates, t \in Tokens : [run EXCEPT !.token = t, !.lease = l] \in RunRow
  BY DEF RunRow
<1>12. \A t \in Tokens : [run EXCEPT !.token = t] \in RunRow
  BY DEF RunRow
<1>13. \A s \in RunStatus, l \in LeaseStates, t \in Tokens :
         [run EXCEPT !.status = s, !.lease = l, !.token = t] \in RunRow
  BY DEF RunRow
<1>14. \A s \in RunStatus, l \in LeaseStates, t \in Tokens, b \in BOOLEAN :
         [run EXCEPT !.status = s, !.lease = l, !.token = t, !.pause = b] \in RunRow
  BY DEF RunRow
<1>15. QED
  BY <1>1, <1>2, <1>3, <1>4, <1>5, <1>6, <1>7, <1>8, <1>9, <1>10, <1>11, <1>12, <1>13, <1>14

\* An executor stays one when one of its fields gets a value of the field.
LEMMA ExecRowUpdates ==
  ASSUME NEW x \in ExecRow
  PROVE  /\ \A pc \in ExecStates :
              /\ [x EXCEPT !.pc = pc] \in ExecRow
              /\ [x EXCEPT !.pc = pc, !.route = None] \in ExecRow
              /\ \A t \in CappedRoutes : [x EXCEPT !.pc = pc, !.route = t] \in ExecRow
              /\ \A n \in Nat : [x EXCEPT !.pc = pc, !.calls = n] \in ExecRow
         /\ [x EXCEPT !.lost = TRUE] \in ExecRow
  BY DEF ExecRow

\* _apply_transition keeps the mission rows and the run rows well typed.
LEMMA ApplyType ==
  ASSUME missions \in [Missions -> MissionStatus], runs \in [Runs -> RunRow],
         NEW r \in Runs, NEW target \in MissionStatus,
         NEW run \in RunRow, NEW moved \in RunRow, Apply(r, target, run, moved)
  PROVE  /\ missions' \in [Missions -> MissionStatus]
         /\ runs' \in [Runs -> RunRow]
<1>1. [moved EXCEPT !.status = target] \in RunRow
  BY RunRowUpdates DEF RunStatus
<1>2. QED
  BY <1>1 DEF Apply

\* The initial state satisfies the type invariant.
LEMMA TypeInit == Init => TypeInv
<1> SUFFICES ASSUME Init PROVE TypeInv
  OBVIOUS
<1>1. NoRun \in RunRow
  BY DEF NoRun, FreshRun, RunRow, RunStatus, LeaseStates, Tokens
<1>2. NoWait \in WaitRow
  BY DEF NoWait, WaitRow, WaitStates
<1>3. Idle \in ExecRow
  BY DEF Idle, ExecRow, ExecStates
<1>4. Free \in LoopRow
  BY BoundsAssumption DEF Free, At, LoopRow
<1>5. TypeOK
  BY <1>1, <1>2, <1>3, <1>4 DEF Init, TypeOK, MissionStatus
<1>6. Shape
  BY DEF Init, Shape, Idle, NoWait, Free, At, OnRun, ByExec, OnWait
<1>7. QED
  BY <1>5, <1>6 DEF TypeInv

-------------------------------------------------------------------------------
(* The steps of the coroutine that holds the event loop.                   *)

\* Where the coroutine of e goes on when it has the loop.
LEMMA ContinuationType ==
  ASSUME TypeInv, NEW e \in Executors, exec[e].run \in Runs
  PROVE  /\ {Iterate(e), Finish(e), Continued(e)} \subseteq LoopRow
         /\ Continued(e) \in {Iterate(e), Finish(e)}
  BY BoundsAssumption DEF Iterate, Finish, Continued, At, LoopRow

\* An await of e ends: e is running and holds the loop.
LEMMA ResumedType ==
  ASSUME TypeInv, NEW e \in Executors, exec[e].pc # "idle",
         exec' = [exec EXCEPT ![e].pc = "running"]
           \/ exec' = [exec EXCEPT ![e] = [@ EXCEPT !.pc = "running", !.route = None]],
         loop' \in {Iterate(e), Finish(e)}, waits' = waits
  PROVE  exec' \in [Executors -> ExecRow] /\ loop' \in LoopRow /\ Shape'
<1> USE DEF TypeInv, TypeOK
<1>1. exec[e].run \in Runs
  BY DEF Shape
<1>2. /\ exec' \in [Executors -> ExecRow]
      /\ exec'[e].pc = "running" /\ exec'[e].run = exec[e].run
      /\ \A f \in Executors : f # e => exec'[f] = exec[f]
  <2>1. exec[e] \in ExecRow /\ "running" \in ExecStates
    BY DEF ExecStates
  <2>2. CASE exec' = [exec EXCEPT ![e].pc = "running"]
    <3>1. [exec[e] EXCEPT !.pc = "running"] \in ExecRow
      BY <2>1, ExecRowUpdates
    <3>2. /\ [exec[e] EXCEPT !.pc = "running"].pc = "running"
          /\ [exec[e] EXCEPT !.pc = "running"].run = exec[e].run
      BY <2>1 DEF ExecRow
    <3>3. QED
      BY <2>2, <3>1, <3>2
  <2>3. CASE exec' = [exec EXCEPT ![e] = [@ EXCEPT !.pc = "running", !.route = None]]
    <3>1. [exec[e] EXCEPT !.pc = "running", !.route = None] \in ExecRow
      BY <2>1, ExecRowUpdates
    <3>2. /\ [exec[e] EXCEPT !.pc = "running", !.route = None].pc = "running"
          /\ [exec[e] EXCEPT !.pc = "running", !.route = None].run = exec[e].run
      BY <2>1 DEF ExecRow
    <3>3. QED
      BY <2>3, <3>1, <3>2
  <2>4. QED
    BY <2>2, <2>3
<1>3. loop' \in LoopRow
  BY <1>1, ContinuationType
<1>5. Shape'
  BY <1>1, <1>2 DEF Shape, Iterate, Finish, At, OnRun, ByExec, OnWait
<1>6. QED
  BY <1>2, <1>3, <1>5

\* e, already running, passes the loop to another of its own steps.
LEMMA GoesOnType ==
  ASSUME TypeInv, NEW e \in Executors, exec[e].pc = "running",
         exec' = exec, loop' \in {Iterate(e), Finish(e)}, waits' = waits
  PROVE  loop' \in LoopRow /\ Shape'
<1> USE DEF TypeInv, TypeOK
<1>1. exec[e].run \in Runs
  BY DEF Shape
<1>2. loop' \in LoopRow
  BY <1>1, ContinuationType
<1>3. Shape'
  BY <1>1 DEF Shape, Iterate, Finish, At, OnRun, ByExec, OnWait, ExecRow
<1>4. QED
  BY <1>2, <1>3

\* The loop becomes free; nothing it refers to is left.
LEMMA FreedType ==
  ASSUME TypeInv, loop' = Free, waits' = waits, exec' = exec
  PROVE  loop' \in LoopRow /\ Shape'
  BY BoundsAssumption
     DEF TypeInv, TypeOK, Shape, Free, At, LoopRow, OnRun, ByExec, OnWait

\* Executor e changes alone and the loop is free afterwards.
LEMMA ExecutorType ==
  ASSUME TypeInv, NEW e \in Executors, NEW x \in ExecRow,
         exec' = [exec EXCEPT ![e] = x], loop' = Free, waits' = waits,
         x.pc # "idle" => x.run \in Runs,
         x.pc = "route" => x.route \in CappedRoutes
  PROVE  exec' \in [Executors -> ExecRow] /\ loop' \in LoopRow /\ Shape'
  BY BoundsAssumption
     DEF TypeInv, TypeOK, Shape, Free, At, LoopRow, OnRun, ByExec, OnWait

\* acquire_lease gives e a run and the loop, and keeps the type invariant.
LEMMA AcquireType ==
  ASSUME TypeInv, NEW e \in Executors, NEW r \in Runs, Acquire(e, r)
  PROVE  TypeInv'
<1> USE DEF TypeInv, TypeOK
<1>1. runs' \in [Runs -> RunRow]
  BY RunRowUpdates DEF Acquire, RunStatus, LeaseStates, Tokens, MissionStatus
<1>2. exec' \in [Executors -> ExecRow]
  BY DEF Acquire, Idle, ExecRow, ExecStates
<1>3. loop' \in LoopRow
  BY BoundsAssumption DEF Acquire, At, LoopRow
<1>4. Shape'
  BY DEF Acquire, Shape, Idle, At, OnRun, ByExec, OnWait, ExecRow
<1>5. QED
  BY <1>1, <1>2, <1>3, <1>4 DEF Acquire

\* Enqueue's insert of a fresh run keeps the type invariant.
LEMMA CreateRunType ==
  ASSUME TypeInv, NEW m, NEW e \in Executors \cup {None}, CreateRun(m, e)
  PROVE  TypeInv'
<1> USE DEF TypeInv, TypeOK
<1>1. FreshRun \in RunRow
  BY DEF FreshRun, RunRow, RunStatus, MissionStatus, LeaseStates, Tokens
<1>2. PICK r \in Runs : runs' = [runs EXCEPT ![r] = FreshRun] /\ loop' = At("queue", e, r, 0)
  BY DEF CreateRun
<1>3. runs' \in [Runs -> RunRow]
  BY <1>1, <1>2
<1>4. loop' \in LoopRow
  BY <1>2, BoundsAssumption DEF At, LoopRow
<1>5. Shape'
  BY <1>2 DEF CreateRun, Shape, At, OnRun, ByExec, OnWait
<1>6. QED
  BY <1>3, <1>4, <1>5 DEF CreateRun

\* Every step of the coroutine that holds the loop keeps the type invariant.
LEMMA LoopStepType == ASSUME TypeInv, LoopStep PROVE TypeInv'
<1> USE DEF TypeInv, TypeOK
<1>1. loop.do \in OnRun => loop.r \in Runs /\ runs[loop.r] \in RunRow
  BY DEF Shape
<1>2. loop.do \in OnWait => /\ loop.w \in WaitIds /\ waits[loop.w] \in WaitRow
                            /\ waits[loop.w].run \in Runs
  BY DEF Shape
<1>3. loop.do \in {"iterate", "finish", "acquired", "wait"} =>
        loop.e \in Executors /\ exec[loop.e].pc = "running"
  BY DEF Shape, ByExec
<1>4. CASE MissionActive
  <2>1. missions' \in [Missions -> MissionStatus] /\ runs' \in [Runs -> RunRow]
    BY <1>1, <1>4, ApplyType DEF MissionActive, OnRun, MissionStatus
  <2>2. loop' \in LoopRow /\ Shape'
    BY <1>3, <1>4, GoesOnType DEF MissionActive
  <2>3. QED
    BY <1>4, <2>1, <2>2 DEF MissionActive
<1>5. CASE EndRun
  <2> DEFINE e == loop.e
             x == [exec[e] EXCEPT !.pc = "winddown"]
  <2>1. e \in Executors /\ exec[e].run \in Runs /\ exec[e] \in ExecRow
    BY <1>3, <1>5 DEF EndRun, Shape
  <2>2. x \in ExecRow /\ x.pc = "winddown" /\ x.run = exec[e].run
    BY <2>1 DEF ExecRow, ExecStates
  <2>3. Idle \in ExecRow /\ Idle.pc = "idle"
    BY DEF Idle, ExecRow, ExecStates
  <2>4. Released(e) \in [Runs -> RunRow]
    BY <2>1, RunRowUpdates DEF Released, LeaseStates, Tokens
  <2>5. exec' = [exec EXCEPT ![e] = x] \/ exec' = [exec EXCEPT ![e] = Idle]
    BY <1>5 DEF EndRun
  <2>6. exec' \in [Executors -> ExecRow] /\ loop' \in LoopRow /\ Shape'
    <3> HIDE DEF x, e
    <3>1. loop' = Free /\ waits' = waits
      BY <1>5 DEF EndRun
    <3>2. QED
      BY <2>1, <2>2, <2>3, <2>5, <3>1, ExecutorType
  <2>7. QED
    BY <1>5, <2>4, <2>6 DEF EndRun
<1>6. CASE EnterWaiting
  <2> DEFINE q == waits[loop.w].request
  <2>1. loop.r \in Runs /\ runs[loop.r] \in RunRow /\ q \in Requests \cup {None}
    BY <1>1, <1>2, <1>6 DEF EnterWaiting, OnRun, OnWait, WaitRow
  <2>2. [runs[loop.r] EXCEPT !.waiting = q] \in RunRow
    BY <2>1, RunRowUpdates
  <2>3. missions' \in [Missions -> MissionStatus] /\ runs' \in [Runs -> RunRow]
    BY <1>6, <2>1, <2>2, ApplyType DEF EnterWaiting, MissionStatus
  <2>4. loop' \in LoopRow /\ Shape'
    BY <1>3, <1>6, GoesOnType DEF EnterWaiting
  <2>5. QED
    BY <1>6, <2>3, <2>4 DEF EnterWaiting
<1>7. CASE SatisfyWait
  <2>1. loop.w \in WaitIds /\ waits[loop.w] \in WaitRow /\ waits[loop.w].run \in Runs
    BY <1>2, <1>7 DEF SatisfyWait, OnWait
  <2>2. waits' \in [WaitIds -> WaitRow]
    BY <1>7, <2>1 DEF SatisfyWait, WaitRow, WaitStates
  <2>3. loop' \in LoopRow
    BY <1>7, <2>1 DEF SatisfyWait, At, LoopRow, WaitIds
  <2>4. Shape'
    BY <1>7, <2>1 DEF Shape, SatisfyWait, At, OnRun, ByExec, OnWait, WaitRow, WaitStates
  <2>5. QED
    BY <1>7, <2>2, <2>3, <2>4 DEF SatisfyWait
<1>8. CASE ClaimResume
  <2>1. loop.w \in WaitIds /\ waits[loop.w] \in WaitRow /\ waits[loop.w].run \in Runs
    BY <1>2, <1>8 DEF ClaimResume, OnWait
  <2>2. CASE waits[loop.w].resume = "none"
    <3>1. waits' \in [WaitIds -> WaitRow]
      BY <1>8, <2>1, <2>2 DEF ClaimResume, WaitRow, WaitStates
    <3>2. loop' \in LoopRow
      BY <1>8, <2>1, <2>2 DEF ClaimResume, At, LoopRow, WaitIds
    <3>3. UNCHANGED exec
      BY <1>8, <2>2 DEF ClaimResume
    <3>4. \A k \in WaitIds : waits'[k].state = waits[k].state /\ waits'[k].run = waits[k].run
      BY <1>8, <2>1, <2>2 DEF ClaimResume, WaitRow
    <3>5. loop'.do = "requeue" /\ loop'.w = loop.w /\ waits[loop.w].state # "absent"
      BY <1>8, <2>1, <2>2 DEF ClaimResume, At, Shape, OnWait
    <3>6. Shape'
      BY <2>1, <3>3, <3>4, <3>5 DEF Shape, OnRun, ByExec, OnWait
    <3>7. QED
      BY <1>8, <3>1, <3>2, <3>6 DEF ClaimResume
  <2>3. CASE waits[loop.w].resume # "none"
    <3>1. loop' \in LoopRow /\ Shape'
      BY <1>8, <2>3, FreedType DEF ClaimResume
    <3>2. QED
      BY <1>8, <2>3, <3>1 DEF ClaimResume
  <2>4. QED
    BY <2>2, <2>3
<1>9. CASE Requeue
  <2> DEFINE r == waits[loop.w].run
             run == [runs[r] EXCEPT !.status = "queued", !.waiting = None]
  <2>1. r \in Runs /\ runs[r] \in RunRow
    BY <1>2, <1>9 DEF Requeue, OnWait
  <2>2. run \in RunRow
    BY <2>1 DEF RunRow, RunStatus, MissionStatus
  <2>3. runs' \in [Runs -> RunRow] /\ missions' \in [Missions -> MissionStatus]
    BY <1>9, <2>1, <2>2 DEF Requeue, MissionStatus
  <2>4. loop' \in LoopRow /\ Shape'
    BY <1>9, FreedType DEF Requeue
  <2>5. QED
    BY <1>9, <2>3, <2>4 DEF Requeue
<1>10. CASE Queue
  <2>1. loop.r \in Runs /\ runs[loop.r] \in RunRow /\ loop.e \in Executors \cup {None}
    BY <1>1, <1>10 DEF Queue, OnRun, LoopRow
  <2>2. missions' \in [Missions -> MissionStatus] /\ runs' \in [Runs -> RunRow]
    BY <1>10, <2>1, ApplyType DEF Queue, MissionStatus
  <2>3. CASE loop.e = None
    <3>1. loop' \in LoopRow /\ Shape'
      BY <1>10, <2>3, FreedType DEF Queue
    <3>2. QED
      BY <1>10, <2>2, <3>1 DEF Queue
  <2>4. CASE loop.e # None
    <3>1. loop' = At("step", loop.e, loop.r, 0) /\ loop.e \in Executors
      BY <1>10, <2>1, <2>4 DEF Queue
    <3>2. loop' \in LoopRow
      BY <2>1, <3>1, BoundsAssumption DEF At, LoopRow
    <3>3. Shape'
      BY <1>10, <2>1, <3>1 DEF Queue, Shape, At, OnRun, ByExec, OnWait
    <3>4. QED
      BY <1>10, <2>2, <3>2, <3>3 DEF Queue
  <2>5. QED
    BY <2>3, <2>4
<1>11. CASE EnqueueRetry
  BY <1>11, CreateRunType DEF EnqueueRetry
<1>12. CASE StepAcquires
  <2>1. loop.e \in Executors /\ loop.r \in Runs
    BY <1>12 DEF StepAcquires, Shape, OnRun, ByExec
  <2>2. QED
    BY <1>12, <2>1, AcquireType DEF StepAcquires
<1>13. CASE PauseDirectly
  <2>1. missions' \in [Missions -> MissionStatus] /\ runs' \in [Runs -> RunRow]
    BY <1>1, <1>13, ApplyType DEF PauseDirectly, OnRun, MissionStatus
  <2>2. loop' \in LoopRow /\ Shape'
    BY <1>13, FreedType DEF PauseDirectly
  <2>3. QED
    BY <1>13, <2>1, <2>2 DEF PauseDirectly
<1>14. CASE AcknowledgeDirectly
  <2>1. loop.r \in Runs /\ runs[loop.r] \in RunRow
    BY <1>1, <1>14 DEF AcknowledgeDirectly, OnRun
  <2>2. runs' \in [Runs -> RunRow]
    BY <1>14, <2>1, RunRowUpdates DEF AcknowledgeDirectly
  <2>3. loop' \in LoopRow
    BY <1>14, <2>1, BoundsAssumption DEF AcknowledgeDirectly, At, LoopRow
  <2>4. Shape'
    BY <1>14, <2>1 DEF AcknowledgeDirectly, Shape, At, OnRun, ByExec, OnWait
  <2>5. QED
    BY <1>14, <2>2, <2>3, <2>4 DEF AcknowledgeDirectly
<1>15. CASE MoveToCancelled
  <2>1. loop.r \in Runs /\ runs[loop.r] \in RunRow /\ loop.e \in Executors \cup {None}
    BY <1>1, <1>15 DEF MoveToCancelled, OnRun, LoopRow
  <2>2. missions' \in [Missions -> MissionStatus] /\ runs' \in [Runs -> RunRow]
    BY <1>15, <2>1, ApplyType DEF MoveToCancelled, MissionStatus, Terminal
  <2>3. CASE Applies(loop.r, "cancelled")
    <3>1. loop' \in LoopRow
      BY <1>15, <2>3 DEF MoveToCancelled, LoopRow
    <3>2. loop'.do = "cancel_waits" /\ loop'.e = loop.e /\ loop'.r = loop.r
      BY <1>15, <2>3 DEF MoveToCancelled, LoopRow
    <3>3. Shape'
      BY <1>15, <2>1, <3>2 DEF MoveToCancelled, Shape, OnRun, ByExec, OnWait
    <3>4. QED
      BY <1>15, <2>2, <3>1, <3>3 DEF MoveToCancelled
  <2>4. CASE ~Applies(loop.r, "cancelled")
    <3>1. CASE loop.e = None
      BY <1>15, <2>2, <2>4, <3>1, FreedType DEF MoveToCancelled, CancelDone
    <3>2. CASE loop.e # None
      <4>1. loop.e \in Executors /\ exec[loop.e].pc = "running"
        BY <1>15, <2>1, <3>2 DEF MoveToCancelled, Shape
      <4>2. loop' \in LoopRow /\ Shape'
        BY <1>15, <2>4, <3>2, <4>1, GoesOnType DEF MoveToCancelled, CancelDone
      <4>3. QED
        BY <1>15, <2>2, <4>2 DEF MoveToCancelled
    <3>3. QED
      BY <3>1, <3>2
  <2>5. QED
    BY <2>3, <2>4
<1>16. CASE CancelMissionWaits
  <2>1. loop.e \in Executors \cup {None}
    BY DEF LoopRow
  <2>2. waits' \in [WaitIds -> WaitRow]
    <3>1. \A w \in WaitIds : [waits[w] EXCEPT !.state = "cancelled"] \in WaitRow
      BY DEF WaitRow, WaitStates
    <3>2. QED
      BY <1>16, <3>1 DEF CancelMissionWaits
  <2>3. \A w \in WaitIds : /\ waits'[w].run = waits[w].run
                           /\ waits'[w].state # "absent" => waits[w].state # "absent"
    BY <1>16 DEF CancelMissionWaits, PendingOf, WaitRow
  <2>4. CASE loop.e = None
    <3>1. loop' = Free
      BY <1>16, <2>4 DEF CancelMissionWaits, CancelDone
    <3>2. loop' \in LoopRow
      BY <3>1, BoundsAssumption DEF Free, At, LoopRow
    <3>3. Shape'
      BY <1>16, <2>3, <3>1 DEF CancelMissionWaits, Shape, Free, At, OnRun, ByExec, OnWait
    <3>4. QED
      BY <1>16, <2>2, <3>2, <3>3 DEF CancelMissionWaits
  <2>5. CASE loop.e # None
    <3>1. loop.e \in Executors /\ exec[loop.e].pc = "running" /\ exec[loop.e].run \in Runs
      BY <1>16, <2>1, <2>5 DEF CancelMissionWaits, Shape
    <3>2. loop' = Finish(loop.e) /\ exec' = exec
      BY <1>16, <2>5 DEF CancelMissionWaits, CancelDone
    <3>3. loop' \in LoopRow
      BY <3>1, <3>2, ContinuationType
    <3>4. Shape'
      BY <2>3, <3>1, <3>2 DEF Shape, Finish, At, OnRun, ByExec, OnWait
    <3>5. QED
      BY <1>16, <2>2, <3>3, <3>4 DEF CancelMissionWaits
  <2>6. QED
    BY <2>4, <2>5
<1>17. ASSUME NEW e \in Executors, Turn(e)
       PROVE  exec[e].pc = "running" /\ exec[e].run \in Runs /\ runs[exec[e].run] \in RunRow
  BY <1>3, <1>17 DEF Turn, Shape
<1>18. ASSUME NEW e \in Executors, IterationStopped(e) PROVE TypeInv'
  <2>1. loop' \in LoopRow /\ Shape'
    BY <1>17, <1>18, GoesOnType DEF IterationStopped, rows
  <2>2. QED
    BY <1>18, <2>1 DEF IterationStopped, rows
<1>19. ASSUME NEW e \in Executors, AcknowledgeCancel(e) PROVE TypeInv'
  <2>1. exec[e].pc = "running" /\ exec[e].run \in Runs /\ runs[exec[e].run] \in RunRow
    BY <1>17, <1>19 DEF AcknowledgeCancel, Proceeds
  <2>2. runs' \in [Runs -> RunRow]
    BY <1>19, <2>1, RunRowUpdates DEF AcknowledgeCancel
  <2>3. loop' \in LoopRow
    BY <1>19, <2>1, BoundsAssumption DEF AcknowledgeCancel, At, LoopRow
  <2>4. Shape'
    BY <1>19, <2>1 DEF AcknowledgeCancel, Shape, At, OnRun, ByExec, OnWait
  <2>5. QED
    BY <1>19, <2>2, <2>3, <2>4 DEF AcknowledgeCancel
<1>20. ASSUME NEW e \in Executors, PauseAtBoundary(e) \/ BudgetGate(e) PROVE TypeInv'
  <2>1. exec[e].pc = "running" /\ exec[e].run \in Runs /\ runs[exec[e].run] \in RunRow
    BY <1>17, <1>20 DEF PauseAtBoundary, BudgetGate, Proceeds
  <2>2. missions' \in [Missions -> MissionStatus] /\ runs' \in [Runs -> RunRow]
    BY <1>20, <2>1, ApplyType DEF PauseAtBoundary, BudgetGate, MissionStatus, Terminal
  <2>3. loop' \in LoopRow /\ Shape'
    BY <1>20, <2>1, GoesOnType DEF PauseAtBoundary, BudgetGate
  <2>4. QED
    BY <1>20, <2>2, <2>3 DEF PauseAtBoundary, BudgetGate
<1>21. ASSUME NEW e \in Executors, BeginIteration(e) PROVE TypeInv'
  <2> DEFINE r == exec[e].run
             x == [exec[e] EXCEPT !.pc = "coordinator", !.calls = runs[r].calls]
  <2>1. exec[e].run \in Runs /\ runs[r] \in RunRow
    BY <1>17, <1>21 DEF BeginIteration, Proceeds
  <2>2. PICK late \in BOOLEAN :
          runs' = [runs EXCEPT ![r] =
                     [runs[r] EXCEPT !.iterations = runs[r].iterations + 1, !.late = late]]
    BY <1>21 DEF BeginIteration
  <2> DEFINE y == [runs[r] EXCEPT !.iterations = runs[r].iterations + 1, !.late = late]
  <2>3. y \in RunRow
    <3>1. runs[r].iterations + 1 \in Nat
      BY <2>1 DEF RunRow
    <3>2. QED
      BY <2>1, <3>1, RunRowUpdates
  <2>4. runs' \in [Runs -> RunRow]
    <3>1. runs' = [runs EXCEPT ![r] = y]
      BY <2>2
    <3> HIDE DEF y
    <3>2. QED
      BY <2>1, <2>3, <3>1
  <2>5. x \in ExecRow /\ x.pc = "coordinator" /\ x.run \in Runs
    <3>1. runs[r].calls \in Nat
      BY <2>1 DEF RunRow
    <3>2. exec[e] \in ExecRow /\ "coordinator" \in ExecStates
      BY DEF ExecStates, Suspended
    <3>3. x \in ExecRow
      BY <3>1, <3>2, ExecRowUpdates
    <3>4. QED
      BY <2>1, <3>2, <3>3 DEF ExecRow
  <2>6. exec' \in [Executors -> ExecRow] /\ loop' \in LoopRow /\ Shape'
    <3>1. exec' = [exec EXCEPT ![e] = x] /\ loop' = Free /\ waits' = waits
      BY <1>21 DEF BeginIteration
    <3> HIDE DEF x
    <3>2. QED
      BY <2>5, <3>1, ExecutorType
  <2>7. QED
    BY <1>21, <2>4, <2>6 DEF BeginIteration
<1>22. QED
  BY <1>4, <1>5, <1>6, <1>7, <1>8, <1>9, <1>10, <1>11, <1>12, <1>13, <1>14, <1>15, <1>16,
     <1>18, <1>19, <1>20, <1>21 DEF LoopStep

-------------------------------------------------------------------------------
(* The answers of the coordinator and of the routes.                       *)

\* The run row an answered call writes back is a run row.
LEMMA CountedType ==
  ASSUME TypeInv, NEW e \in Executors, exec[e].pc # "idle"
  PROVE  /\ exec[e].run \in Runs /\ runs[exec[e].run] \in RunRow
         /\ Counted(e) \in RunRow
         /\ \A n \in Nat : [Counted(e) EXCEPT !.failures = n] \in RunRow
         /\ [Counted(e) EXCEPT !.failures = @ + 1] \in RunRow
         /\ [Counted(e) EXCEPT !.waiting = None] \in RunRow
<1> USE DEF TypeInv, TypeOK
<1>1. exec[e].run \in Runs /\ runs[exec[e].run] \in RunRow /\ exec[e].calls + 1 \in Nat
  BY DEF Shape, ExecRow
<1>2. Counted(e) \in RunRow
  BY <1>1, RunRowUpdates DEF Counted
<1>3. Counted(e).failures + 1 \in Nat
  BY <1>2 DEF RunRow
<1>4. QED
  BY <1>1, <1>2, <1>3, RunRowUpdates

\* So is a run row with one more failure and one more call.
LEMMA FailedType ==
  ASSUME NEW run \in RunRow PROVE Failed(run) \in RunRow
<1>1. run.failures + 1 \in Nat /\ run.calls + 1 \in Nat
  BY DEF RunRow
<1>2. QED
  BY <1>1, RunRowUpdates DEF Failed

\* A handler that writes the run and goes on, or moves it and ends.
LEMMA AnswerType ==
  ASSUME TypeInv, NEW e \in Executors, exec[e].pc # "idle",
         exec' = [exec EXCEPT ![e].pc = "running"]
           \/ exec' = [exec EXCEPT ![e] = [@ EXCEPT !.pc = "running", !.route = None]],
         loop' \in {Iterate(e), Finish(e)},
         missions' \in [Missions -> MissionStatus], runs' \in [Runs -> RunRow],
         outbox' \in [Requests -> Runs \cup {None}],
         UNCHANGED <<replies, waits, node>>
  PROVE  TypeInv'
<1>1. exec' \in [Executors -> ExecRow] /\ loop' \in LoopRow /\ Shape'
  BY ResumedType
<1>2. QED
  BY <1>1 DEF TypeInv, TypeOK

\* A failure that may end the streak keeps the type invariant.
LEMMA StreaksType ==
  ASSUME TypeInv, NEW e \in Executors, exec[e].run \in Runs, NEW run \in RunRow,
         NEW otherwise, Streaks(e, run, otherwise)
  PROVE  /\ missions' \in [Missions -> MissionStatus] /\ runs' \in [Runs -> RunRow]
         /\ loop' \in {Finish(e), otherwise}
<1> USE DEF TypeInv, TypeOK
<1>1. CASE run.failures >= MaxConsecutiveFailures
  BY <1>1, ApplyType DEF Streaks, MissionStatus, Terminal
<1>2. CASE ~(run.failures >= MaxConsecutiveFailures)
  BY <1>2 DEF Streaks
<1>3. QED
  BY <1>1, <1>2

\* Every answer of the coordinator keeps the type invariant.
LEMMA AnswerStepType == ASSUME TypeInv, NEW e \in Executors, Answer(e) PROVE TypeInv'
<1> USE DEF TypeInv, TypeOK
<1>1. exec[e].pc = "coordinator"
  BY DEF Answer, CoordinatorUnusable, CoordinatorFails, InvalidDecision, DecidesComplete,
         CompletionRefused, DecidesBlocked, DecidesWait, DecidesRoute, SendsPeerMessage,
         DecidesReplyWait, PeerMessageRefused, Answered
<1> DEFINE r == exec[e].run
<1>2. /\ r \in Runs /\ runs[r] \in RunRow /\ Counted(e) \in RunRow
      /\ [Counted(e) EXCEPT !.failures = 0] \in RunRow
      /\ [Counted(e) EXCEPT !.failures = @ + 1] \in RunRow
      /\ [Counted(e) EXCEPT !.waiting = None] \in RunRow
  BY <1>1, CountedType
<1>3. Continued(e) \in {Iterate(e), Finish(e)}
  BY <1>2, ContinuationType
<1>4. CASE CoordinatorUnusable(e)
  <2>1. missions' \in [Missions -> MissionStatus] /\ runs' \in [Runs -> RunRow]
    BY <1>2, <1>4, ApplyType DEF CoordinatorUnusable, MissionStatus, Terminal
  <2>2. QED
    BY <1>1, <1>4, <2>1, AnswerType DEF CoordinatorUnusable, Resumes
<1>5. CASE CoordinatorFails(e)
  <2> DEFINE failed == Failed(runs[r])
             x == [exec[e] EXCEPT !.pc = "backoff"]
  <2>1. failed \in RunRow
    BY <1>2, FailedType
  <2>2. Streaks(e, failed, Free)
    BY <1>5 DEF CoordinatorFails
  <2>3. missions' \in [Missions -> MissionStatus] /\ runs' \in [Runs -> RunRow]
    BY <1>2, <2>1, <2>2, StreaksType
  <2>4. CASE failed.failures >= MaxConsecutiveFailures
    <3>1. loop' = Finish(e) /\ exec' = [exec EXCEPT ![e].pc = "running"]
      BY <1>5, <2>4 DEF CoordinatorFails, Streaks
    <3>2. QED
      BY <1>1, <1>5, <2>3, <3>1, AnswerType DEF CoordinatorFails
  <2>5. CASE ~(failed.failures >= MaxConsecutiveFailures)
    <3>1. x \in ExecRow /\ x.pc = "backoff" /\ x.run \in Runs
      BY <1>2 DEF ExecRow, ExecStates, Suspended
    <3>2. exec' = [exec EXCEPT ![e] = x] /\ loop' = Free /\ waits' = waits
      BY <1>5, <2>5 DEF CoordinatorFails, Streaks
    <3>3. exec' \in [Executors -> ExecRow] /\ loop' \in LoopRow /\ Shape'
      <4> HIDE DEF x
      <4>1. QED
        BY <3>1, <3>2, ExecutorType
    <3>4. QED
      BY <1>5, <2>3, <3>3 DEF CoordinatorFails
  <2>6. QED
    BY <2>4, <2>5
<1>6. CASE InvalidDecision(e)
  <2>1. Failed(Counted(e)) \in RunRow
    BY <1>2, FailedType
  <2>2. Streaks(e, Failed(Counted(e)), Continued(e))
    BY <1>6 DEF InvalidDecision
  <2>3. /\ missions' \in [Missions -> MissionStatus] /\ runs' \in [Runs -> RunRow]
        /\ loop' \in {Finish(e), Continued(e)}
    BY <1>2, <2>1, <2>2, StreaksType
  <2>4. QED
    BY <1>1, <1>3, <1>6, <2>3, AnswerType DEF InvalidDecision, Resumes
<1>7. CASE DecidesComplete(e)
  <2>1. missions' \in [Missions -> MissionStatus] /\ runs' \in [Runs -> RunRow]
    BY <1>2, <1>7, ApplyType DEF DecidesComplete, MissionStatus, Terminal
  <2>2. QED
    BY <1>1, <1>7, <2>1, AnswerType DEF DecidesComplete, Resumes
<1>8. CASE CompletionRefused(e)
  <2>1. runs' \in [Runs -> RunRow]
    BY <1>2, <1>8 DEF CompletionRefused
  <2>2. QED
    BY <1>1, <1>3, <1>8, <2>1, AnswerType DEF CompletionRefused, Resumes
<1>9. CASE DecidesBlocked(e)
  <2>1. missions' \in [Missions -> MissionStatus] /\ runs' \in [Runs -> RunRow]
    BY <1>2, <1>9, ApplyType DEF DecidesBlocked, MissionStatus, Terminal
  <2>2. QED
    BY <1>1, <1>9, <2>1, AnswerType DEF DecidesBlocked, Resumes
<1>10. CASE DecidesWait(e)
  <2>1. missions' \in [Missions -> MissionStatus] /\ runs' \in [Runs -> RunRow]
    BY <1>2, <1>10, ApplyType DEF DecidesWait, MissionStatus
  <2>2. QED
    BY <1>1, <1>10, <2>1, AnswerType DEF DecidesWait, Resumes
<1>11. ASSUME NEW t \in CappedRoutes, DecidesRoute(e, t) PROVE TypeInv'
  <2> DEFINE x == [exec[e] EXCEPT !.pc = "route", !.route = t]
  <2>1. CASE RouteBlocked(Counted(e), t) \/ FallbackBlocked(Counted(e), t)
    <3>1. missions' \in [Missions -> MissionStatus] /\ runs' \in [Runs -> RunRow]
      BY <1>2, <1>11, <2>1, ApplyType DEF DecidesRoute, MissionStatus, Terminal
    <3>2. QED
      BY <1>1, <1>11, <2>1, <3>1, AnswerType DEF DecidesRoute, Resumes
  <2>2. CASE ~(RouteBlocked(Counted(e), t) \/ FallbackBlocked(Counted(e), t))
    <3>1. x \in ExecRow /\ x.pc = "route" /\ x.run \in Runs /\ x.route = t
      BY <1>2 DEF ExecRow, ExecStates, Suspended
    <3>2. /\ exec' = [exec EXCEPT ![e] = x] /\ loop' = Free /\ waits' = waits
          /\ runs' = [runs EXCEPT ![r] = Counted(e)] /\ missions' = missions
      BY <1>11, <2>2 DEF DecidesRoute, Answered, LoopFree
    <3>3. exec' \in [Executors -> ExecRow] /\ loop' \in LoopRow /\ Shape'
      <4> HIDE DEF x
      <4>1. QED
        BY <3>1, <3>2, ExecutorType
    <3>4. QED
      BY <1>2, <1>11, <3>2, <3>3 DEF DecidesRoute
  <2>3. QED
    BY <2>1, <2>2
<1>12. ASSUME NEW q \in Requests, SendsPeerMessage(e, q) PROVE TypeInv'
  <2>1. runs' \in [Runs -> RunRow] /\ outbox' \in [Requests -> Runs \cup {None}]
    BY <1>2, <1>12 DEF SendsPeerMessage
  <2>2. QED
    BY <1>1, <1>3, <1>12, <2>1, AnswerType DEF SendsPeerMessage, Resumes
<1>13. CASE PeerMessageRefused(e)
  <2>1. runs' \in [Runs -> RunRow]
    BY <1>2, <1>13 DEF PeerMessageRefused
  <2>2. QED
    BY <1>1, <1>3, <1>13, <2>1, AnswerType DEF PeerMessageRefused, Resumes
<1>14. ASSUME NEW q \in Requests, NEW deadline \in BOOLEAN, DecidesReplyWait(e, q, deadline)
       PROVE  TypeInv'
  <2> DEFINE wait == [NoWait EXCEPT !.run = r, !.request = q, !.deadline = deadline]
             x == [exec[e] EXCEPT !.pc = "running"]
  <2>1. /\ [wait EXCEPT !.state = "satisfied", !.resume = "inline"] \in WaitRow
        /\ [wait EXCEPT !.state = "satisfied", !.resume = "inline"].run = r
        /\ [wait EXCEPT !.state = "pending"] \in WaitRow
        /\ [wait EXCEPT !.state = "pending"].run = r
        /\ [wait EXCEPT !.state = "pending"].state = "pending"
    BY <1>2 DEF NoWait, WaitRow, WaitStates
  <2>2. x \in ExecRow /\ x.pc = "running" /\ x.run = r
    BY DEF ExecRow, ExecStates
  <2>3. exec' = [exec EXCEPT ![e] = x] /\ runs' = [runs EXCEPT ![r] = Counted(e)]
    BY <1>14 DEF DecidesReplyWait, Resumes
  <2>4. exec' \in [Executors -> ExecRow] /\ runs' \in [Runs -> RunRow]
    <3> HIDE DEF x
    <3>1. QED
      BY <1>2, <2>2, <2>3
  <2>5. CASE waits' = waits /\ \E w \in Pending(q) : loop' = At("wait", e, r, w)
    <3>1. PICK w \in Pending(q) : loop' = At("wait", e, r, w)
      BY <2>5
    <3>2. w \in WaitIds /\ waits[w].state # "absent"
      BY DEF Pending
    <3>3. loop' \in LoopRow
      BY <1>2, <3>1, <3>2 DEF At, LoopRow, WaitIds
    <3>4. Shape'
      <4> HIDE DEF x, wait
      <4>1. QED
        BY <1>2, <2>2, <2>3, <2>5, <3>1, <3>2 DEF Shape, At, OnRun, ByExec, OnWait
    <3>5. QED
      BY <1>14, <2>4, <2>5, <3>3, <3>4 DEF DecidesReplyWait
  <2>6. ASSUME NEW w \in WaitIds, NEW y \in WaitRow, waits' = [waits EXCEPT ![w] = y],
               y.run = r,
               \/ loop' = Continued(e)
               \/ y.state # "absent" /\ loop' = At("wait", e, r, w)
        PROVE  TypeInv'
    <3>1. waits' \in [WaitIds -> WaitRow]
      BY <2>6
    <3>2. loop' \in LoopRow
      BY <1>2, <2>6, ContinuationType DEF At, LoopRow, WaitIds
    <3>3. Shape'
      <4> HIDE DEF x, wait
      <4>1. CASE loop' = Continued(e)
        BY <1>2, <1>3, <2>2, <2>3, <2>6, <4>1
           DEF Shape, Iterate, Finish, At, OnRun, ByExec, OnWait
      <4>2. CASE y.state # "absent" /\ loop' = At("wait", e, r, w)
        BY <1>2, <2>2, <2>3, <2>6, <4>2 DEF Shape, At, OnRun, ByExec, OnWait
      <4>3. QED
        BY <2>6, <4>1, <4>2
    <3>4. QED
      BY <1>14, <2>4, <3>1, <3>2, <3>3 DEF DecidesReplyWait
  <2>7. ASSUME NEW w \in WaitIds,
               IF q \in replies
               THEN /\ waits' = [waits EXCEPT ![w] =
                                   [wait EXCEPT !.state = "satisfied", !.resume = "inline"]]
                    /\ loop' = Continued(e)
               ELSE /\ waits' = [waits EXCEPT ![w] = [wait EXCEPT !.state = "pending"]]
                    /\ loop' = At("wait", e, r, w)
        PROVE  TypeInv'
    <3> HIDE DEF wait
    <3>1. QED
      BY <2>1, <2>6, <2>7
  <2>8. QED
    BY <1>14, <2>5, <2>7 DEF DecidesReplyWait
<1>15. QED
  BY <1>4, <1>5, <1>6, <1>7, <1>8, <1>9, <1>10, <1>11, <1>12, <1>13, <1>14 DEF Answer

\* Every end of a routed action keeps the type invariant.
LEMMA RouteAnswerType == ASSUME TypeInv, NEW e \in Executors, RouteAnswer(e) PROVE TypeInv'
<1> USE DEF TypeInv, TypeOK
<1> DEFINE r == exec[e].run
           t == exec[e].route
<1>1. exec[e].pc = "route"
  BY DEF RouteAnswer, RouteReturns, CodingSandboxFails
<1>2. r \in Runs /\ runs[r] \in RunRow /\ t \in CappedRoutes
  BY <1>1 DEF Shape
<1>3. Continued(e) \in {Iterate(e), Finish(e)}
  BY <1>2, ContinuationType
<1>4. ASSUME NEW a \in [CappedRoutes -> Nat], NEW n \in Nat
      PROVE  [runs[r] EXCEPT !.actions = a, !.failures = n] \in RunRow
  BY <1>2 DEF RunRow
<1>5. /\ runs[r].actions \in [CappedRoutes -> Nat] /\ runs[r].actions[t] + 1 \in Nat
      /\ runs[r].failures + 1 \in Nat
  BY <1>2 DEF RunRow
<1> DEFINE acted == [runs[r].actions EXCEPT ![t] = runs[r].actions[t] + 1]
<1>6. acted \in [CappedRoutes -> Nat]
  BY <1>5
<1>7. ASSUME NEW outcome \in {"completed", "failed", "rejected"}, RouteReturns(e, outcome)
      PROVE  TypeInv'
  <2>1. CASE outcome = "rejected"
    <3>1. runs' \in [Runs -> RunRow]
      BY <1>2, <1>7, <2>1 DEF RouteReturns
    <3>2. QED
      BY <1>1, <1>3, <1>7, <3>1, AnswerType DEF RouteReturns
  <2>2. CASE outcome # "rejected"
    <3> DEFINE n == IF outcome = "completed" THEN 0 ELSE runs[r].failures + 1
               run == [runs[r] EXCEPT !.actions = acted, !.failures = n]
    <3>1. run \in RunRow
      <4>1. n \in Nat
        BY <1>5
      <4> HIDE DEF n, acted
      <4>2. QED
        BY <1>4, <1>6, <4>1
    <3>2. runs' = [runs EXCEPT ![r] = run]
      BY <1>7, <2>2 DEF RouteReturns
    <3>3. runs' \in [Runs -> RunRow]
      <4> HIDE DEF run
      <4>1. QED
        BY <1>2, <3>1, <3>2
    <3>4. QED
      BY <1>1, <1>3, <1>7, <3>3, AnswerType DEF RouteReturns
  <2>3. QED
    BY <2>1, <2>2
<1>8. CASE CodingSandboxFails(e)
  <2> DEFINE run == [runs[r] EXCEPT !.actions = acted, !.failures = runs[r].failures + 1]
  <2>1. run \in RunRow
    <3> HIDE DEF acted
    <3>1. QED
      BY <1>4, <1>5, <1>6
  <2>2. Apply(r, "blocked", run, run)
    BY <1>8 DEF CodingSandboxFails
  <2>3. missions' \in [Missions -> MissionStatus] /\ runs' \in [Runs -> RunRow]
    <3> HIDE DEF run
    <3>1. QED
      BY <1>2, <2>1, <2>2, ApplyType DEF MissionStatus, Terminal
  <2>4. QED
    BY <1>1, <1>8, <2>3, AnswerType DEF CodingSandboxFails
<1>9. QED
  BY <1>7, <1>8 DEF RouteAnswer

-------------------------------------------------------------------------------
(* Workers, peers, deadlines, operators and the process.                   *)

\* Every step of the worker pool keeps the type invariant.
LEMMA WorkerType == ASSUME TypeInv, Worker PROVE TypeInv'
<1> USE DEF TypeInv, TypeOK
<1>1. Idle \in ExecRow /\ Idle.pc = "idle"
  BY DEF Idle, ExecRow, ExecStates
<1>2. ASSUME NEW r \in Runs, Schedule(r) PROVE TypeInv'
  <2> DEFINE x == [Idle EXCEPT !.pc = "scheduled", !.run = r]
  <2>1. x \in ExecRow /\ x.pc = "scheduled" /\ x.run \in Runs
    BY DEF Idle, ExecRow, ExecStates
  <2>2. r[1] \in Executors
    BY DEF Runs, Executors
  <2>3. /\ exec' = [exec EXCEPT ![r[1]] = x] /\ loop' = Free /\ waits' = waits
        /\ UNCHANGED <<missions, runs, outbox, replies, node>>
    BY <1>2 DEF Schedule, LoopFree, rows
  <2> HIDE DEF x
  <2>4. exec' \in [Executors -> ExecRow] /\ loop' \in LoopRow /\ Shape'
    BY <2>1, <2>2, <2>3, ExecutorType
  <2>5. QED
    BY <2>3, <2>4
<1>3. ASSUME NEW r \in Runs, LeaseExpires(r) PROVE TypeInv'
  <2>1. runs' \in [Runs -> RunRow]
    BY <1>3, RunRowUpdates DEF LeaseExpires, LeaseStates
  <2>2. Shape'
    BY <1>3 DEF LeaseExpires, Shape
  <2>3. QED
    BY <1>3, <2>1, <2>2 DEF LeaseExpires
<1>4. ASSUME NEW m \in Missions, BeginTask(m) PROVE TypeInv'
  <2>1. m \in Executors /\ exec[m].run \in Runs
    BY <1>4 DEF BeginTask, Shape, Executors
  <2>2. CASE Acquire(m, exec[m].run)
    BY <2>1, <2>2, AcquireType
  <2>3. CASE ~Acquire(m, exec[m].run)
    <3>1. /\ exec' = [exec EXCEPT ![m] = Idle] /\ loop' = Free /\ waits' = waits
          /\ UNCHANGED <<missions, runs, outbox, replies, node>>
      BY <1>4, <2>3 DEF BeginTask, LoopFree, rows
    <3>2. exec' \in [Executors -> ExecRow] /\ loop' \in LoopRow /\ Shape'
      BY <1>1, <2>1, <3>1, ExecutorType
    <3>3. QED
      BY <3>1, <3>2
  <2>4. QED
    BY <2>2, <2>3
<1>5. ASSUME NEW m \in Missions, WindDown(m) PROVE TypeInv'
  <2>1. m \in Executors /\ exec[m].run \in Runs
    BY <1>5 DEF WindDown, Shape, Executors
  <2>2. Released(m) \in [Runs -> RunRow]
    BY <2>1, RunRowUpdates DEF Released, LeaseStates, Tokens
  <2>3. /\ exec' = [exec EXCEPT ![m] = Idle] /\ loop' = Free /\ waits' = waits
        /\ runs' \in [Runs -> RunRow] /\ UNCHANGED <<missions, outbox, replies, node>>
    BY <1>5, <2>2 DEF WindDown, LoopFree
  <2>4. exec' \in [Executors -> ExecRow] /\ loop' \in LoopRow /\ Shape'
    BY <1>1, <2>1, <2>3, ExecutorType
  <2>5. QED
    BY <2>3, <2>4
<1>6. ASSUME NEW m \in Missions, HeartbeatLost(m) PROVE TypeInv'
  <2> DEFINE x == [exec[m] EXCEPT !.lost = TRUE]
  <2>1. m \in Executors /\ exec[m].run \in Runs
    BY <1>6 DEF HeartbeatLost, Shape, Executors, Suspended
  <2>2. /\ x \in ExecRow /\ x.run \in Runs
        /\ x.pc = "route" => x.route \in CappedRoutes
    BY <2>1 DEF ExecRow, Shape
  <2>3. /\ exec' = [exec EXCEPT ![m] = x] /\ loop' = Free /\ waits' = waits
        /\ UNCHANGED <<missions, runs, outbox, replies, node>>
    BY <1>6 DEF HeartbeatLost, LoopFree, rows
  <2> HIDE DEF x
  <2>4. exec' \in [Executors -> ExecRow] /\ loop' \in LoopRow /\ Shape'
    BY <2>1, <2>2, <2>3, ExecutorType
  <2>5. QED
    BY <2>3, <2>4
<1>7. ASSUME NEW e \in Executors, BackoffEnds(e) PROVE TypeInv'
  <2>1. exec[e].pc = "backoff" /\ exec[e].run \in Runs
    BY <1>7 DEF BackoffEnds, Shape
  <2>2. Continued(e) \in {Iterate(e), Finish(e)}
    BY <2>1, ContinuationType
  <2>3. QED
    BY <1>7, <2>1, <2>2, AnswerType DEF BackoffEnds, Resumes, rows
<1>8. QED
  BY <1>2, <1>3, <1>4, <1>5, <1>6, <1>7, AnswerStepType, RouteAnswerType DEF Worker

\* The loop is handed to a handler that no executor runs.
LEMMA HandlerType ==
  ASSUME TypeInv, exec' = exec, waits' = waits,
         \/ \E do \in {"queue", "retry", "pause", "ack"}, r \in Runs :
              loop' = At(do, None, r, 0)
         \/ \E do \in {"satisfy", "claim"}, w \in WaitIds :
              loop' = At(do, None, None, w) /\ waits[w].state # "absent"
  PROVE  loop' \in LoopRow /\ Shape'
<1> USE DEF TypeInv, TypeOK
<1>1. ASSUME NEW do \in {"queue", "retry", "pause", "ack"}, NEW r \in Runs,
             loop' = At(do, None, r, 0)
      PROVE  loop' \in LoopRow /\ Shape'
  BY <1>1, BoundsAssumption DEF At, LoopRow, Shape, OnRun, ByExec, OnWait
<1>2. ASSUME NEW do \in {"satisfy", "claim"}, NEW w \in WaitIds, waits[w].state # "absent",
             loop' = At(do, None, None, w)
      PROVE  loop' \in LoopRow /\ Shape'
  BY <1>2, BoundsAssumption DEF At, LoopRow, Shape, OnRun, ByExec, OnWait, WaitIds
<1>3. QED
  BY <1>1, <1>2

\* A wait is resolved or the claim of a wait is taken up.
LEMMA WaitMovesType ==
  ASSUME TypeInv, exec' = exec, NEW w \in WaitIds, waits[w].state # "absent",
         NEW s \in WaitStates \ {"absent"}, waits' = [waits EXCEPT ![w].state = s],
         loop' = Free \/ loop' = At("claim", None, None, w)
  PROVE  waits' \in [WaitIds -> WaitRow] /\ loop' \in LoopRow /\ Shape'
<1> USE DEF TypeInv, TypeOK
<1> DEFINE y == [waits[w] EXCEPT !.state = s]
<1>1. y \in WaitRow /\ y.state = s /\ y.run = waits[w].run /\ y.run \in Runs
  BY DEF WaitRow, Shape
<1>2. waits' = [waits EXCEPT ![w] = y]
  OBVIOUS
<1> HIDE DEF y
<1>3. waits' \in [WaitIds -> WaitRow]
  BY <1>1, <1>2
<1>4. loop' \in LoopRow
  BY BoundsAssumption DEF At, Free, LoopRow, WaitIds
<1>5. Shape'
  BY <1>1, <1>2 DEF Shape, At, Free, OnRun, ByExec, OnWait
<1>6. QED
  BY <1>3, <1>4, <1>5

\* A stored reply and a passed deadline keep the type invariant.
LEMMA PeerType == ASSUME TypeInv, Peer \/ Deadline PROVE TypeInv'
<1> USE DEF TypeInv, TypeOK
<1>1. ASSUME NEW q \in Requests, ReplyArrives(q) PROVE TypeInv'
  <2>1. CASE Pending(q) = {}
    <3>1. loop' \in LoopRow /\ Shape'
      BY <1>1, <2>1, FreedType DEF ReplyArrives
    <3>2. QED
      BY <1>1, <3>1 DEF ReplyArrives
  <2>2. CASE Pending(q) # {}
    <3>1. PICK w \in Pending(q) : loop' = At("satisfy", None, None, w)
      BY <1>1, <2>2 DEF ReplyArrives
    <3>2. w \in WaitIds /\ waits[w].state # "absent"
      BY DEF Pending
    <3>3. loop' \in LoopRow /\ Shape'
      BY <1>1, <3>1, <3>2, HandlerType DEF ReplyArrives
    <3>4. QED
      BY <1>1, <3>3 DEF ReplyArrives
  <2>3. QED
    BY <2>1, <2>2
<1>2. ASSUME NEW w \in WaitIds, TimeOutWait(w) PROVE TypeInv'
  <2>1. waits[w].state # "absent" /\ "timed_out" \in WaitStates \ {"absent"}
    BY <1>2 DEF TimeOutWait, Due, WaitStates
  <2>2. waits' \in [WaitIds -> WaitRow] /\ loop' \in LoopRow /\ Shape'
    BY <1>2, <2>1, WaitMovesType DEF TimeOutWait
  <2>3. QED
    BY <1>2, <2>2 DEF TimeOutWait
<1>3. QED
  BY <1>1, <1>2 DEF Peer, Deadline

\* current_for_mission and latest_for_mission return a run or nothing.
LEMMA NewestType ==
  ASSUME NEW m
  PROVE  Current(m) \in Runs \cup {None} /\ Latest(m) \in Runs \cup {None}
  BY DEF Current, Latest, Newest, RunsOf

\* Every operator request keeps the type invariant.
LEMMA OperatorType == ASSUME TypeInv, Operator PROVE TypeInv'
<1> USE DEF TypeInv, TypeOK
<1>1. ASSUME NEW m \in Missions, StartMission(m) PROVE TypeInv'
  <2>1. CASE CreateRun(m, None)
    BY <2>1, CreateRunType
  <2>2. CASE ~CreateRun(m, None)
    <3>1. /\ Current(m) \in Runs /\ loop' = At("queue", None, Current(m), 0)
          /\ UNCHANGED <<rows, exec, node>>
      BY <1>1, <2>2, NewestType DEF StartMission
    <3>2. loop' \in LoopRow /\ Shape'
      BY <3>1, HandlerType DEF rows
    <3>3. QED
      BY <3>1, <3>2 DEF rows
  <2>3. QED
    BY <2>1, <2>2
<1>2. ASSUME NEW m \in Missions, RetryMission(m) PROVE TypeInv'
  <2>1. PICK r \in Runs : loop' = At("retry", None, r, 0)
    BY <1>2 DEF RetryMission
  <2>2. loop' \in LoopRow /\ Shape'
    BY <1>2, <2>1, HandlerType DEF RetryMission
  <2>3. QED
    BY <1>2, <2>2 DEF RetryMission, MissionStatus
<1>3. ASSUME NEW m \in Missions, PauseMission(m) \/ CancelMission(m) PROVE TypeInv'
  <2>1. Current(m) \in Runs /\ runs[Current(m)] \in RunRow
    BY <1>3, NewestType DEF PauseMission, CancelMission
  <2>2. runs' \in [Runs -> RunRow]
    BY <1>3, <2>1, RunRowUpdates DEF PauseMission, CancelMission
  <2>3. loop' \in LoopRow /\ Shape'
    <3>1. CASE loop' = Free
      BY <1>3, <3>1, FreedType DEF PauseMission, CancelMission
    <3>2. CASE loop' # Free
      BY <1>3, <2>1, <3>2, HandlerType DEF PauseMission, CancelMission
    <3>3. QED
      BY <3>1, <3>2
  <2>4. QED
    BY <1>3, <2>2, <2>3 DEF PauseMission, CancelMission
<1>4. ASSUME NEW m \in Missions, ResumeMission(m) PROVE TypeInv'
  <2> DEFINE r == Latest(m)
             run == [runs[r] EXCEPT !.pause = FALSE, !.waiting = None]
  <2>1. r \in Runs /\ runs[r] \in RunRow
    BY <1>4, NewestType DEF ResumeMission
  <2>2. run \in RunRow
    BY <2>1 DEF RunRow
  <2>3. Apply(r, "queued", runs[r], run)
    BY <1>4 DEF ResumeMission
  <2> HIDE DEF run, r
  <2>4. missions' \in [Missions -> MissionStatus] /\ runs' \in [Runs -> RunRow]
    BY <2>1, <2>2, <2>3, ApplyType DEF MissionStatus
  <2>5. Shape'
    BY <1>4 DEF ResumeMission, Shape
  <2>6. QED
    BY <1>4, <2>4, <2>5 DEF ResumeMission
<1>5. ASSUME NEW m \in Missions, NEW c \in Callers, RunOneStep(c, m) PROVE TypeInv'
  <2>1. c \in Executors
    BY DEF Executors
  <2>2. CASE CreateRun(m, c)
    BY <2>1, <2>2, CreateRunType
  <2>3. CASE ~CreateRun(m, c)
    <3>1. Current(m) \in Runs /\ Acquire(c, Current(m))
      BY <1>5, <2>3, NewestType DEF RunOneStep
    <3>2. QED
      BY <2>1, <3>1, AcquireType
  <2>4. QED
    BY <2>2, <2>3
<1>6. ASSUME NEW w \in WaitIds, CancelWait(w) PROVE TypeInv'
  <2>1. waits[w].state # "absent" /\ "cancelled" \in WaitStates \ {"absent"} /\ loop' = Free
    BY <1>6 DEF CancelWait, WaitStates, Serving, LoopFree
  <2>2. waits' \in [WaitIds -> WaitRow] /\ loop' \in LoopRow /\ Shape'
    BY <1>6, <2>1, WaitMovesType DEF CancelWait
  <2>3. QED
    BY <1>6, <2>2 DEF CancelWait
<1>7. QED
  BY <1>1, <1>2, <1>3, <1>4, <1>5, <1>6 DEF Operator

\* Startup, shutdown and crash keep the type invariant.
LEMMA ProcessType == ASSUME TypeInv, Process PROVE TypeInv'
<1> USE DEF TypeInv, TypeOK
<1>1. CASE StartWorkers
  <2>1. \A r \in Runs :
          [runs[r] EXCEPT !.status = "queued", !.lease = "none", !.token = "none",
                          !.pause = FALSE] \in RunRow
    <3>1. "queued" \in RunStatus /\ "none" \in LeaseStates /\ "none" \in Tokens
      BY DEF RunStatus, MissionStatus, LeaseStates, Tokens
    <3>2. QED
      BY <3>1, RunRowUpdates
  <2>2. runs' \in [Runs -> RunRow] /\ missions' \in [Missions -> MissionStatus]
    BY <1>1, <2>1 DEF StartWorkers, MissionStatus
  <2>3. Shape'
    BY <1>1 DEF StartWorkers, Shape
  <2>4. QED
    BY <1>1, <2>2, <2>3 DEF StartWorkers
<1>2. CASE BecomeReady \/ BeginShutdown \/ Stopped
  <2>1. Shape'
    BY <1>2 DEF BecomeReady, BeginShutdown, Stopped, Shape, rows
  <2>2. QED
    BY <1>2, <2>1 DEF BecomeReady, BeginShutdown, Stopped, rows
<1>3. CASE Crash
  <2>1. Idle \in ExecRow
    BY DEF Idle, ExecRow, ExecStates
  <2>2. runs' \in [Runs -> RunRow]
    <3>1. \A r \in Runs : [runs[r] EXCEPT !.token = "dead"] \in RunRow
      BY RunRowUpdates DEF Tokens
    <3>2. QED
      BY <1>3, <3>1 DEF Crash
  <2>3. loop' \in LoopRow
    BY <1>3, BoundsAssumption DEF Crash, Free, At, LoopRow
  <2>4. Shape'
    BY <1>3 DEF Crash, Shape, Idle, Free, At, OnRun, ByExec, OnWait
  <2>5. QED
    BY <1>3, <2>1, <2>2, <2>3, <2>4 DEF Crash
<1>4. ASSUME NEW w \in WaitIds, RecoverWait(w) PROVE TypeInv'
  <2>1. waits[w].state # "absent"
    BY <1>4 DEF RecoverWait, Unresumed
  <2>2. loop' \in LoopRow /\ Shape'
    BY <1>4, <2>1, HandlerType DEF RecoverWait, rows
  <2>3. QED
    BY <1>4, <2>2 DEF RecoverWait, rows
<1>5. ASSUME NEW m \in Missions, CancelTask(m) PROVE TypeInv'
  <2> DEFINE x == [exec[m] EXCEPT !.pc = "winddown", !.route = None]
  <2>1. m \in Executors /\ exec[m].run \in Runs
    BY <1>5 DEF CancelTask, Shape, Executors, Suspended
  <2>2. x \in ExecRow /\ x.pc = "winddown" /\ x.run \in Runs
    BY <2>1 DEF ExecRow, ExecStates
  <2>3. /\ exec' = [exec EXCEPT ![m] = x] /\ loop' = Free /\ waits' = waits
        /\ UNCHANGED <<missions, runs, outbox, replies, node>>
    BY <1>5 DEF CancelTask, LoopFree, rows
  <2> HIDE DEF x
  <2>4. exec' \in [Executors -> ExecRow] /\ loop' \in LoopRow /\ Shape'
    BY <2>1, <2>2, <2>3, ExecutorType
  <2>5. QED
    BY <2>3, <2>4
<1>6. QED
  BY <1>1, <1>2, <1>3, <1>4, <1>5 DEF Process

-------------------------------------------------------------------------------
\* The type invariant is inductive.
LEMMA StepType == TypeInv /\ [Next]_vars => TypeInv'
<1>1. ASSUME TypeInv, UNCHANGED vars PROVE TypeInv'
  BY <1>1 DEF TypeInv, TypeOK, Shape, vars
<1>2. QED
  BY <1>1, LoopStepType, WorkerType, PeerType, OperatorType, ProcessType DEF Next

\* Every value the model reaches is one the rows and the event loop can hold,
\* whatever the missions, budgets, peers and faults.
THEOREM TypeCorrect == Spec => []TypeOK
<1>1. Init => TypeInv
  BY TypeInit
<1>2. TypeInv /\ [Next]_vars => TypeInv'
  BY StepType
<1>3. TypeInv => TypeOK
  BY DEF TypeInv
<1>4. QED
  BY <1>1, <1>2, <1>3, PTL DEF Spec

-------------------------------------------------------------------------------
(* What a step may do to a run row: every action but Requeue leaves a      *)
(* terminal status alone, and only BeginIteration counts an iteration.     *)

KeptStatus(run, new) == run.status \in Terminal => new.status = run.status
KeptCount(run, new)  == new.iterations = run.iterations \/ new.iterations <= MaxIterations
Kept(run, new) == KeptStatus(run, new) /\ KeptCount(run, new)
RunsKept == \A r \in Runs : Kept(runs[r], runs'[r])

\* A step that writes one run row, keeping it, keeps every row.
LEMMA OneRunKept ==
  ASSUME TypeInv, NEW r \in Runs, NEW y \in RunRow, runs' = [runs EXCEPT ![r] = y],
         Kept(runs[r], y)
  PROVE  RunsKept
  BY DEF TypeInv, TypeOK, RunsKept, Kept, KeptStatus, KeptCount, Runs

\* _apply_transition validates the move of the run row.
LEMMA ApplyKept ==
  ASSUME TypeInv, NEW r \in Runs, NEW target \in MissionStatus,
         NEW run \in RunRow, NEW moved \in RunRow, Apply(r, target, run, moved),
         run.status = runs[r].status, run.iterations = runs[r].iterations,
         moved.iterations = runs[r].iterations
  PROVE  RunsKept
<1> USE DEF TypeInv, TypeOK
<1> DEFINE y == [moved EXCEPT !.status = target]
<1>1. y \in RunRow /\ y.status = target /\ y.iterations = moved.iterations
  <2>1. y \in RunRow
    BY RunRowUpdates DEF RunStatus
  <2>2. y.status = target /\ y.iterations = moved.iterations
    BY DEF RunRow
  <2>3. QED
    BY <2>1, <2>2
<1>2. CASE Applies(r, target)
  <2>1. runs' = [runs EXCEPT ![r] = y]
    BY <1>2 DEF Apply
  <2>2. Kept(runs[r], y)
    <3>1. CanTransition(runs[r].status, target)
      BY <1>2 DEF Applies
    <3>2. runs[r].status \in Terminal => runs[r].status \in MissionStatus
                                         /\ Allowed[runs[r].status] = {}
      BY DEF Terminal, MissionStatus, Allowed
    <3>3. runs[r].status \in Terminal => target = runs[r].status
      BY <3>1, <3>2 DEF CanTransition
    <3>4. QED
      BY <1>1, <3>3 DEF Kept, KeptStatus, KeptCount
  <2> HIDE DEF y
  <2>3. QED
    BY <1>1, <2>1, <2>2, OneRunKept
<1>3. CASE ~Applies(r, target)
  <2>1. runs' = [runs EXCEPT ![r] = run] /\ Kept(runs[r], run)
    BY <1>3 DEF Apply, Kept, KeptStatus, KeptCount
  <2>2. QED
    BY <2>1, OneRunKept
<1>4. QED
  BY <1>2, <1>3

\* A step that writes no run row keeps them all.
LEMMA UnchangedKept == runs' = runs => RunsKept
  BY DEF RunsKept, Kept, KeptStatus, KeptCount

\* The run rows an answer may write.
AnswerRows(e) ==
  {Counted(e), [Counted(e) EXCEPT !.failures = 0],
   [Counted(e) EXCEPT !.failures = Counted(e).failures + 1],
   [Counted(e) EXCEPT !.waiting = None], Failed(Counted(e)), Failed(runs[exec[e].run])}

\* The rows an answer writes keep the status and the count of the run.
LEMMA CountedKept ==
  ASSUME TypeInv, NEW e \in Executors, exec[e].pc # "idle"
  PROVE  \A run \in AnswerRows(e) \cup {runs[exec[e].run]} :
           /\ run \in RunRow
           /\ run.status = runs[exec[e].run].status
           /\ run.iterations = runs[exec[e].run].iterations
<1> DEFINE r == exec[e].run
           Same(run) == /\ run \in RunRow /\ run.status = runs[r].status
                        /\ run.iterations = runs[r].iterations
<1>1. r \in Runs /\ runs[r] \in RunRow /\ Counted(e) \in RunRow
  BY CountedType
<1>2. Same(runs[r])
  BY <1>1
<1>3. Same(Counted(e))
  BY <1>1 DEF Counted, RunRow
<1>4. Same([Counted(e) EXCEPT !.failures = 0]) /\ Same([Counted(e) EXCEPT !.waiting = None])
  BY <1>1, <1>3, CountedType DEF RunRow
<1>5. Same([Counted(e) EXCEPT !.failures = Counted(e).failures + 1])
  BY <1>1, <1>3, CountedType DEF RunRow
<1>6. Same(Failed(Counted(e)))
  BY <1>1, <1>3, FailedType DEF Failed, RunRow
<1>7. Same(Failed(runs[r]))
  BY <1>1, <1>2, FailedType DEF Failed, RunRow
<1> HIDE DEF r
<1>8. \A run \in AnswerRows(e) \cup {runs[r]} : Same(run)
  BY <1>2, <1>3, <1>4, <1>5, <1>6, <1>7 DEF AnswerRows, r
<1>9. QED
  BY <1>8 DEF r

\* No answer of the coordinator reopens a run or counts an iteration.
LEMMA AnswerKept == ASSUME TypeInv, NEW e \in Executors, Answer(e) PROVE RunsKept
<1> USE DEF TypeInv, TypeOK
<1> DEFINE r == exec[e].run
<1>1. exec[e].pc = "coordinator"
  BY DEF Answer, CoordinatorUnusable, CoordinatorFails, InvalidDecision, DecidesComplete,
         CompletionRefused, DecidesBlocked, DecidesWait, DecidesRoute, SendsPeerMessage,
         DecidesReplyWait, PeerMessageRefused, Answered
<1>2. r \in Runs
  BY <1>1 DEF Shape
<1>3. ASSUME NEW run \in AnswerRows(e), runs' = [runs EXCEPT ![r] = run] PROVE RunsKept
  BY <1>1, <1>2, <1>3, CountedKept, OneRunKept DEF Kept, KeptStatus, KeptCount
<1>4. ASSUME NEW target \in MissionStatus, NEW run \in AnswerRows(e) \cup {runs[r]},
             NEW moved \in AnswerRows(e) \cup {runs[r]}, Apply(r, target, run, moved)
      PROVE  RunsKept
  BY <1>1, <1>2, <1>4, CountedKept, ApplyKept
<1>5. {"blocked", "completed", "waiting"} \subseteq MissionStatus
  BY DEF MissionStatus, Terminal
<1>6. ASSUME NEW run \in AnswerRows(e), NEW otherwise, Streaks(e, run, otherwise) PROVE RunsKept
  BY <1>3, <1>4, <1>5, <1>6 DEF Streaks
<1>7. CASE CoordinatorUnusable(e)
  BY <1>4, <1>5, <1>7 DEF CoordinatorUnusable
<1>8. CASE CoordinatorFails(e)
  BY <1>6, <1>8 DEF CoordinatorFails, AnswerRows
<1>9. CASE InvalidDecision(e)
  BY <1>6, <1>9 DEF InvalidDecision, AnswerRows
<1>10. CASE DecidesComplete(e)
  BY <1>4, <1>5, <1>10 DEF DecidesComplete, AnswerRows
<1>11. CASE CompletionRefused(e)
  BY <1>3, <1>11 DEF CompletionRefused, AnswerRows
<1>12. CASE DecidesBlocked(e)
  BY <1>4, <1>5, <1>12 DEF DecidesBlocked, AnswerRows
<1>13. CASE DecidesWait(e)
  BY <1>4, <1>5, <1>13 DEF DecidesWait, AnswerRows
<1>14. ASSUME NEW t \in CappedRoutes, DecidesRoute(e, t) PROVE RunsKept
  BY <1>3, <1>4, <1>5, <1>14 DEF DecidesRoute, AnswerRows
<1>15. ASSUME NEW q \in Requests, SendsPeerMessage(e, q) PROVE RunsKept
  BY <1>3, <1>15 DEF SendsPeerMessage, AnswerRows
<1>16. ASSUME NEW q \in Requests, NEW deadline \in BOOLEAN, DecidesReplyWait(e, q, deadline)
       PROVE  RunsKept
  <2>1. runs' = [runs EXCEPT ![r] = Counted(e)]
    BY <1>16 DEF DecidesReplyWait
  <2>2. QED
    BY <1>3, <2>1 DEF AnswerRows
<1>17. CASE PeerMessageRefused(e)
  BY <1>3, <1>17 DEF PeerMessageRefused, AnswerRows
<1>18. QED
  BY <1>7, <1>8, <1>9, <1>10, <1>11, <1>12, <1>13, <1>14, <1>15, <1>16, <1>17 DEF Answer

\* No end of a routed action reopens a run or counts an iteration.
LEMMA RouteAnswerKept == ASSUME TypeInv, NEW e \in Executors, RouteAnswer(e) PROVE RunsKept
<1> USE DEF TypeInv, TypeOK
<1> DEFINE r == exec[e].run
           t == exec[e].route
           acted == [runs[r].actions EXCEPT ![t] = runs[r].actions[t] + 1]
<1>1. r \in Runs /\ runs[r] \in RunRow /\ t \in CappedRoutes
  BY DEF RouteAnswer, RouteReturns, CodingSandboxFails, Shape
<1>2. acted \in [CappedRoutes -> Nat] /\ runs[r].failures + 1 \in Nat
  BY <1>1 DEF RunRow
<1>3. ASSUME NEW a \in [CappedRoutes -> Nat], NEW n \in Nat
      PROVE  LET y == [runs[r] EXCEPT !.actions = a, !.failures = n]
             IN  y \in RunRow /\ y.status = runs[r].status /\ y.iterations = runs[r].iterations
  BY <1>1 DEF RunRow
<1>4. ASSUME NEW outcome \in {"completed", "failed", "rejected"}, RouteReturns(e, outcome)
      PROVE  RunsKept
  <2> DEFINE n == IF outcome = "completed" THEN 0 ELSE runs[r].failures + 1
             y == [runs[r] EXCEPT !.actions = acted, !.failures = n]
  <2>1. CASE outcome = "rejected"
    <3>1. runs' = runs
      BY <1>1, <1>4, <2>1 DEF RouteReturns
    <3>2. QED
      BY <3>1, UnchangedKept
  <2>2. CASE outcome # "rejected"
    <3>1. n \in Nat
      BY <1>2
    <3>2. y \in RunRow /\ y.status = runs[r].status /\ y.iterations = runs[r].iterations
      <4> HIDE DEF n, acted
      <4>1. QED
        BY <1>2, <1>3, <3>1
    <3>3. runs' = [runs EXCEPT ![r] = y]
      BY <1>4, <2>2 DEF RouteReturns
    <3> HIDE DEF y
    <3>4. QED
      BY <1>1, <3>2, <3>3, OneRunKept DEF Kept, KeptStatus, KeptCount
  <2>3. QED
    BY <2>1, <2>2
<1>5. CASE CodingSandboxFails(e)
  <2> DEFINE y == [runs[r] EXCEPT !.actions = acted, !.failures = runs[r].failures + 1]
  <2>1. y \in RunRow /\ y.status = runs[r].status /\ y.iterations = runs[r].iterations
    <3> HIDE DEF acted
    <3>1. QED
      BY <1>2, <1>3
  <2>2. Apply(r, "blocked", y, y) /\ "blocked" \in MissionStatus
    BY <1>5 DEF CodingSandboxFails, MissionStatus, Terminal
  <2> HIDE DEF y
  <2>3. QED
    BY <1>1, <2>1, <2>2, ApplyKept
<1>6. QED
  BY <1>4, <1>5 DEF RouteAnswer

\* acquire_lease only claims runs that are queued or active.
LEMMA AcquireKept ==
  ASSUME TypeInv, NEW e \in Executors, NEW r \in Runs, Acquire(e, r) PROVE RunsKept
<1> USE DEF TypeInv, TypeOK
<1> DEFINE y == [runs[r] EXCEPT !.status = "active", !.lease = "live", !.token = e]
<1>1. y \in RunRow
  BY RunRowUpdates DEF RunStatus, LeaseStates, Tokens, MissionStatus
<1>2. y.status = "active" /\ y.iterations = runs[r].iterations
  BY DEF RunRow
<1>3. runs[r].status \in {"queued", "active"} /\ runs' = [runs EXCEPT ![r] = y]
  BY DEF Acquire, CanAcquire
<1> HIDE DEF y
<1>4. QED
  BY <1>1, <1>2, <1>3, OneRunKept DEF Kept, KeptStatus, KeptCount, Terminal

\* Enqueue inserts its run as a row that did not exist.
LEMMA CreateRunKept ==
  ASSUME TypeInv, NEW m, NEW e, CreateRun(m, e) PROVE RunsKept
<1>1. FreshRun \in RunRow /\ FreshRun.iterations = 0
  BY DEF FreshRun, RunRow, RunStatus, MissionStatus, LeaseStates, Tokens
<1>2. PICK r \in Runs : runs[r].status = "absent" /\ runs' = [runs EXCEPT ![r] = FreshRun]
  BY DEF CreateRun, NextRun
<1>3. Kept(runs[r], FreshRun)
  BY <1>1, <1>2, BoundsAssumption DEF Kept, KeptStatus, KeptCount, Terminal
<1>4. QED
  BY <1>1, <1>2, <1>3, OneRunKept

\* Rows that change in other columns than status and iterations.
LEMMA OtherColumnKept ==
  ASSUME TypeInv, NEW r \in Runs, NEW y \in RunRow, runs' = [runs EXCEPT ![r] = y],
         y.status = runs[r].status, y.iterations = runs[r].iterations
  PROVE  RunsKept
  BY OneRunKept DEF Kept, KeptStatus, KeptCount

\* release_lease leaves status and iterations alone.
LEMMA ReleasedKept ==
  ASSUME TypeInv, NEW e \in Executors, exec[e].run \in Runs, runs' = Released(e)
  PROVE  RunsKept
<1> USE DEF TypeInv, TypeOK
<1> DEFINE r == exec[e].run
           y == [runs[r] EXCEPT !.token = "none", !.lease = "none"]
<1>1. y \in RunRow
  BY RunRowUpdates DEF LeaseStates, Tokens
<1>2. y.status = runs[r].status /\ y.iterations = runs[r].iterations
  BY DEF RunRow
<1>3. runs' = runs \/ runs' = [runs EXCEPT ![r] = y]
  BY DEF Released
<1> HIDE DEF y
<1>4. QED
  BY <1>1, <1>2, <1>3, UnchangedKept, OtherColumnKept

\* _requeue_mission does not touch the iteration count.
LEMMA RequeueKept == ASSUME TypeInv, Requeue PROVE \A r \in Runs : KeptCount(runs[r], runs'[r])
<1> USE DEF TypeInv, TypeOK
<1> DEFINE r == waits[loop.w].run
           y == [runs[r] EXCEPT !.status = "queued", !.waiting = None]
<1>1. r \in Runs /\ runs[r] \in RunRow
  BY DEF Requeue, Shape, OnWait
<1>2. y.iterations = runs[r].iterations
  BY <1>1 DEF RunRow
<1>3. runs' = runs \/ runs' = [runs EXCEPT ![r] = y]
  BY DEF Requeue
<1> HIDE DEF y
<1>4. QED
  BY <1>1, <1>2, <1>3 DEF KeptCount

\* Of the steps that hold the loop, only Requeue can reopen a run.
LEMMA LoopStepKept == ASSUME TypeInv, LoopStep, ~Requeue PROVE RunsKept
<1> USE DEF TypeInv, TypeOK
<1>1. loop.do \in OnRun => loop.r \in Runs /\ runs[loop.r] \in RunRow
  BY DEF Shape
<1>2. {"active", "waiting", "paused", "queued", "cancelled", "blocked"} \subseteq MissionStatus
  BY DEF MissionStatus, Terminal
<1>3. CASE MissionActive \/ Queue \/ PauseDirectly \/ MoveToCancelled
  <2>1. loop.do \in OnRun
    BY <1>3 DEF MissionActive, Queue, PauseDirectly, MoveToCancelled, OnRun
  <2>2. PICK target \in MissionStatus : Apply(loop.r, target, runs[loop.r], runs[loop.r])
    BY <1>2, <1>3 DEF MissionActive, Queue, PauseDirectly, MoveToCancelled
  <2>3. QED
    BY <1>1, <2>1, <2>2, ApplyKept
<1>4. CASE EndRun
  <2>1. loop.e \in Executors /\ exec[loop.e].run \in Runs
    BY <1>4 DEF EndRun, Shape, ByExec
  <2>2. runs' = runs \/ runs' = Released(loop.e)
    BY <1>4 DEF EndRun
  <2>3. QED
    BY <2>1, <2>2, UnchangedKept, ReleasedKept
<1>5. CASE EnterWaiting
  <2> DEFINE y == [runs[loop.r] EXCEPT !.waiting = waits[loop.w].request]
  <2>1. loop.r \in Runs /\ runs[loop.r] \in RunRow /\ waits[loop.w] \in WaitRow
    BY <1>1, <1>5 DEF EnterWaiting, OnRun, OnWait, Shape
  <2>2. y \in RunRow /\ y.iterations = runs[loop.r].iterations
    <3>1. waits[loop.w].request \in Requests \cup {None}
      BY <2>1 DEF WaitRow
    <3>2. y \in RunRow
      BY <2>1, <3>1, RunRowUpdates
    <3>3. y.iterations = runs[loop.r].iterations
      BY <2>1 DEF RunRow
    <3>4. QED
      BY <3>2, <3>3
  <2>3. Apply(loop.r, "waiting", runs[loop.r], y)
    BY <1>5 DEF EnterWaiting
  <2> HIDE DEF y
  <2>4. QED
    BY <1>2, <2>1, <2>2, <2>3, ApplyKept
<1>6. CASE SatisfyWait \/ ClaimResume \/ CancelMissionWaits
  BY <1>6, UnchangedKept DEF SatisfyWait, ClaimResume, CancelMissionWaits
<1>7. CASE EnqueueRetry
  BY <1>7, CreateRunKept DEF EnqueueRetry
<1>8. CASE StepAcquires
  <2>1. loop.e \in Executors /\ loop.r \in Runs
    BY <1>8 DEF StepAcquires, Shape, OnRun, ByExec
  <2>2. QED
    BY <1>8, <2>1, AcquireKept DEF StepAcquires
<1>9. ASSUME NEW r \in Runs, runs' = [runs EXCEPT ![r].cancelAck = TRUE] PROVE RunsKept
  <2> DEFINE y == [runs[r] EXCEPT !.cancelAck = TRUE]
  <2>1. y \in RunRow
    BY RunRowUpdates
  <2>2. y.status = runs[r].status /\ y.iterations = runs[r].iterations
    BY DEF RunRow
  <2>3. runs' = [runs EXCEPT ![r] = y]
    BY <1>9
  <2> HIDE DEF y
  <2>4. QED
    BY <2>1, <2>2, <2>3, OtherColumnKept
<1>10. CASE AcknowledgeDirectly
  BY <1>1, <1>9, <1>10 DEF AcknowledgeDirectly, OnRun
<1>11. ASSUME NEW e \in Executors, Turn(e)
       PROVE  exec[e].run \in Runs /\ runs[exec[e].run] \in RunRow
  BY <1>11 DEF Turn, Shape
<1>12. ASSUME NEW e \in Executors, IterationStopped(e) PROVE RunsKept
  BY <1>12, UnchangedKept DEF IterationStopped, rows
<1>13. ASSUME NEW e \in Executors, AcknowledgeCancel(e) PROVE RunsKept
  BY <1>9, <1>11, <1>13 DEF AcknowledgeCancel, Proceeds
<1>14. ASSUME NEW e \in Executors, PauseAtBoundary(e) \/ BudgetGate(e) PROVE RunsKept
  <2>1. exec[e].run \in Runs /\ runs[exec[e].run] \in RunRow
    BY <1>11, <1>14 DEF PauseAtBoundary, BudgetGate, Proceeds
  <2>2. PICK target \in MissionStatus :
          Apply(exec[e].run, target, runs[exec[e].run], runs[exec[e].run])
    BY <1>2, <1>14 DEF PauseAtBoundary, BudgetGate
  <2>3. QED
    BY <2>1, <2>2, ApplyKept
<1>15. ASSUME NEW e \in Executors, BeginIteration(e) PROVE RunsKept
  <2> DEFINE r == exec[e].run
  <2>1. r \in Runs /\ runs[r] \in RunRow
    BY <1>11, <1>15 DEF BeginIteration, Proceeds
  <2>2. PICK late \in BOOLEAN :
          runs' = [runs EXCEPT ![r] =
                     [runs[r] EXCEPT !.iterations = runs[r].iterations + 1, !.late = late]]
    BY <1>15 DEF BeginIteration
  <2> DEFINE y == [runs[r] EXCEPT !.iterations = runs[r].iterations + 1, !.late = late]
  <2>3. runs[r].iterations + 1 \in Nat
    BY <2>1 DEF RunRow
  <2>4. y \in RunRow
    BY <2>1, <2>3, RunRowUpdates
  <2>5. y.status = runs[r].status /\ y.iterations = runs[r].iterations + 1
    BY <2>1 DEF RunRow
  <2>6. y.iterations <= MaxIterations
    <3>1. ~(runs[r].iterations >= MaxIterations)
      BY <1>15 DEF BeginIteration, IterationBlocked
    <3>2. runs[r].iterations \in Nat
      BY <2>1 DEF RunRow
    <3>3. QED
      BY <2>5, <3>1, <3>2, BoundsAssumption
  <2>7. runs' = [runs EXCEPT ![r] = y]
    BY <2>2
  <2> HIDE DEF y
  <2>8. QED
    BY <2>1, <2>4, <2>5, <2>6, <2>7, OneRunKept DEF Kept, KeptStatus, KeptCount
<1>16. QED
  BY <1>3, <1>4, <1>5, <1>6, <1>7, <1>8, <1>10, <1>12, <1>13, <1>14, <1>15 DEF LoopStep

\* No step of the worker pool reopens a run or counts an iteration.
LEMMA WorkerKept == ASSUME TypeInv, Worker PROVE RunsKept
<1> USE DEF TypeInv, TypeOK
<1>1. ASSUME NEW r \in Runs, Schedule(r) PROVE RunsKept
  BY <1>1, UnchangedKept DEF Schedule, rows
<1>2. ASSUME NEW r \in Runs, LeaseExpires(r) PROVE RunsKept
  <2> DEFINE y == [runs[r] EXCEPT !.lease = "expired"]
  <2>1. y \in RunRow
    BY RunRowUpdates DEF LeaseStates
  <2>2. y.status = runs[r].status /\ y.iterations = runs[r].iterations
    BY DEF RunRow
  <2>3. runs' = [runs EXCEPT ![r] = y]
    BY <1>2 DEF LeaseExpires
  <2> HIDE DEF y
  <2>4. QED
    BY <2>1, <2>2, <2>3, OtherColumnKept
<1>3. ASSUME NEW m \in Missions, BeginTask(m) PROVE RunsKept
  <2>1. m \in Executors /\ exec[m].run \in Runs
    BY <1>3 DEF BeginTask, Shape, Executors
  <2>2. Acquire(m, exec[m].run) \/ runs' = runs
    BY <1>3 DEF BeginTask, rows
  <2>3. QED
    BY <2>1, <2>2, AcquireKept, UnchangedKept
<1>4. ASSUME NEW m \in Missions, WindDown(m) PROVE RunsKept
  <2>1. m \in Executors /\ exec[m].run \in Runs
    BY <1>4 DEF WindDown, Shape, Executors
  <2>2. runs' = runs \/ runs' = Released(m)
    BY <1>4 DEF WindDown
  <2>3. QED
    BY <2>1, <2>2, ReleasedKept, UnchangedKept
<1>5. ASSUME NEW m \in Missions, HeartbeatLost(m) PROVE RunsKept
  BY <1>5, UnchangedKept DEF HeartbeatLost, rows
<1>6. ASSUME NEW e \in Executors, BackoffEnds(e) PROVE RunsKept
  BY <1>6, UnchangedKept DEF BackoffEnds, rows
<1>7. QED
  BY <1>1, <1>2, <1>3, <1>4, <1>5, <1>6, AnswerKept, RouteAnswerKept DEF Worker

\* No operator request reopens a run or counts an iteration.
LEMMA OperatorKept == ASSUME TypeInv, Operator PROVE RunsKept
<1> USE DEF TypeInv, TypeOK
<1>1. ASSUME NEW m \in Missions, StartMission(m) PROVE RunsKept
  BY <1>1, CreateRunKept, UnchangedKept DEF StartMission, rows
<1>2. ASSUME NEW m \in Missions, RetryMission(m) PROVE RunsKept
  BY <1>2, UnchangedKept DEF RetryMission
<1>3. ASSUME NEW m \in Missions, PauseMission(m) \/ CancelMission(m) PROVE RunsKept
  <2> DEFINE r == Current(m)
             y == [runs[r] EXCEPT !.pause = TRUE]
             z == [runs[r] EXCEPT !.cancelReq = TRUE]
  <2>1. r \in Runs /\ runs[r] \in RunRow
    BY <1>3, NewestType DEF PauseMission, CancelMission
  <2>2. /\ y \in RunRow /\ y.status = runs[r].status /\ y.iterations = runs[r].iterations
        /\ z \in RunRow /\ z.status = runs[r].status /\ z.iterations = runs[r].iterations
    <3> HIDE DEF r
    <3>1. y \in RunRow /\ z \in RunRow
      BY <2>1, RunRowUpdates
    <3>2. QED
      BY <2>1, <3>1 DEF RunRow
  <2>3. runs' = [runs EXCEPT ![r] = y] \/ runs' = [runs EXCEPT ![r] = z]
    BY <1>3 DEF PauseMission, CancelMission
  <2> HIDE DEF y, z, r
  <2>4. QED
    BY <2>1, <2>2, <2>3, OtherColumnKept
<1>4. ASSUME NEW m \in Missions, ResumeMission(m) PROVE RunsKept
  <2> DEFINE r == Latest(m)
             y == [runs[r] EXCEPT !.pause = FALSE, !.waiting = None]
  <2>1. r \in Runs /\ runs[r] \in RunRow
    BY <1>4, NewestType DEF ResumeMission
  <2>2. y \in RunRow /\ y.iterations = runs[r].iterations
    BY <2>1 DEF RunRow
  <2>3. Apply(r, "queued", runs[r], y) /\ "queued" \in MissionStatus
    BY <1>4 DEF ResumeMission, MissionStatus
  <2> HIDE DEF y, r
  <2>4. QED
    BY <2>1, <2>2, <2>3, ApplyKept
<1>5. ASSUME NEW m \in Missions, NEW c \in Callers, RunOneStep(c, m) PROVE RunsKept
  <2>1. c \in Executors /\ Current(m) \in Runs \cup {None}
    BY NewestType DEF Executors
  <2>2. CreateRun(m, c) \/ (Current(m) \in Runs /\ Acquire(c, Current(m)))
    BY <1>5, <2>1 DEF RunOneStep
  <2>3. QED
    BY <2>1, <2>2, CreateRunKept, AcquireKept
<1>6. ASSUME NEW w \in WaitIds, CancelWait(w) PROVE RunsKept
  BY <1>6, UnchangedKept DEF CancelWait
<1>7. QED
  BY <1>1, <1>2, <1>3, <1>4, <1>5, <1>6 DEF Operator

\* Nor do startup recovery, shutdown, a crash, a reply or a deadline.
LEMMA ProcessKept == ASSUME TypeInv, Process \/ Peer \/ Deadline PROVE RunsKept
<1> USE DEF TypeInv, TypeOK
<1>1. CASE StartWorkers
  <2>1. ASSUME NEW r \in Runs PROVE Kept(runs[r], runs'[r])
    <3>1. runs[r] \in RunRow
      OBVIOUS
    <3>2. CASE Recoverable(r)
      <4>1. runs'[r].iterations = runs[r].iterations /\ runs[r].status = "active"
        BY <1>1, <3>1, <3>2 DEF StartWorkers, Recoverable, RunRow
      <4>2. QED
        BY <4>1 DEF Kept, KeptStatus, KeptCount, Terminal
    <3>3. CASE ~Recoverable(r)
      BY <1>1, <3>3 DEF StartWorkers, Kept, KeptStatus, KeptCount
    <3>4. QED
      BY <3>2, <3>3
  <2>2. QED
    BY <2>1 DEF RunsKept
<1>2. CASE Crash
  <2>1. ASSUME NEW r \in Runs PROVE Kept(runs[r], runs'[r])
    <3>1. runs[r] \in RunRow
      OBVIOUS
    <3>2. runs'[r].iterations = runs[r].iterations /\ runs'[r].status = runs[r].status
      BY <1>2, <3>1 DEF Crash, RunRow
    <3>3. QED
      BY <3>2 DEF Kept, KeptStatus, KeptCount
  <2>2. QED
    BY <2>1 DEF RunsKept
<1>3. CASE BecomeReady \/ BeginShutdown \/ Stopped
  BY <1>3, UnchangedKept DEF BecomeReady, BeginShutdown, Stopped, rows
<1>4. ASSUME NEW w \in WaitIds, RecoverWait(w) \/ TimeOutWait(w) PROVE RunsKept
  BY <1>4, UnchangedKept DEF RecoverWait, TimeOutWait, rows
<1>5. ASSUME NEW m \in Missions, CancelTask(m) PROVE RunsKept
  BY <1>5, UnchangedKept DEF CancelTask, rows
<1>6. ASSUME NEW q \in Requests, ReplyArrives(q) PROVE RunsKept
  BY <1>6, UnchangedKept DEF ReplyArrives
<1>7. QED
  BY <1>1, <1>2, <1>3, <1>4, <1>5, <1>6 DEF Process, Peer, Deadline

\* What any step may do to the run rows, with Requeue as the one exception.
LEMMA StepKept ==
  ASSUME TypeInv, [Next]_vars
  PROVE  /\ \A r \in Runs : KeptCount(runs[r], runs'[r])
         /\ loop.do # "requeue" => RunsKept
<1>1. CASE Requeue
  BY <1>1, RequeueKept DEF Requeue
<1>2. CASE Next /\ ~Requeue
  <2>1. RunsKept
    BY <1>2, LoopStepKept, WorkerKept, OperatorKept, ProcessKept DEF Next
  <2>2. QED
    BY <2>1 DEF RunsKept, Kept
<1>3. CASE UNCHANGED vars
  BY <1>3, UnchangedKept DEF vars, rows, RunsKept, Kept
<1>4. QED
  BY <1>1, <1>2, <1>3

\* No run ever begins more iterations than its budget allows, whoever executes
\* it and however often it is paused, resumed, requeued, recovered or stepped
\* by hand (run_iteration checks the budget before it counts the iteration).
THEOREM IterationBudgetHolds == Spec => []IterationBudget
<1>1. Init => IterationBudget
  BY BoundsAssumption DEF Init, IterationBudget, NoRun, FreshRun
<1>2. TypeInv /\ IterationBudget /\ [Next]_vars => IterationBudget'
  <2> SUFFICES ASSUME TypeInv, IterationBudget, [Next]_vars PROVE IterationBudget'
    OBVIOUS
  <2>1. QED
    BY StepKept DEF IterationBudget, KeptCount
<1>3. TypeInv /\ [Next]_vars => TypeInv'
  BY StepType
<1>4. QED
  BY <1>1, <1>2, <1>3, TypeInit, PTL DEF Spec

\* Of all handlers only _requeue_mission, which writes the run row of a reply
\* wait without validating the move, can take a run out of a terminal status:
\* every other one goes through the lifecycle table or a conditional update.
THEOREM OnlyRequeueReopensHolds == Spec => OnlyRequeueReopens
<1> DEFINE A == \A r \in Runs : Reopened(r) => loop.do = "requeue"
<1>1. TypeInv /\ [Next]_vars => A
  <2> SUFFICES ASSUME TypeInv, [Next]_vars, NEW r \in Runs, Reopened(r),
                      loop.do # "requeue"
               PROVE  FALSE
    OBVIOUS
  <2>1. QED
    BY StepKept DEF Reopened, RunsKept, Kept, KeptStatus
<1>2. TypeInv /\ [Next]_vars => TypeInv'
  BY StepType
<1>3. QED
  BY <1>1, <1>2, TypeInit, PTL DEF Spec, OnlyRequeueReopens

-------------------------------------------------------------------------------
(* What a step may do to a reply wait.  The one fact needed beside the     *)
(* types: the wait that is about to be satisfied is still pending, for the *)
(* reply was stored and its wait looked up without giving the loop away.   *)

SatisfiesPending == loop.do = "satisfy" => waits[loop.w].state = "pending"

SameWait(w) ==
  /\ waits'[w].state = waits[w].state /\ waits'[w].request = waits[w].request
  /\ waits[w].resume # "none" => waits'[w].resume = waits[w].resume
Resolved(w) == waits[w].state \in {"absent", "pending"} /\ waits'[w].state # "pending"
Opened(w) ==
  /\ waits[w].state = "absent" /\ Pending(waits'[w].request) = {}
  /\ \A v \in WaitIds : v # w => waits'[v] = waits[v]
WaitsKept == \A w \in WaitIds : SameWait(w) \/ Resolved(w) \/ Opened(w)

\* A step that writes no wait keeps them all.
LEMMA UnchangedWaits == waits' = waits => WaitsKept
  BY DEF WaitsKept, SameWait

\* A step that passes the loop on without satisfying a wait keeps the fact above.
LEMMA PassedOn ==
  ASSUME SatisfiesPending, \/ loop'.do # "satisfy"
                           \/ loop' = loop /\ (loop.do = "free" \/ waits' = waits)
  PROVE  SatisfiesPending'
  BY DEF SatisfiesPending

\* A step that writes one wait.
LEMMA OneWait ==
  ASSUME TypeInv, NEW w \in WaitIds, NEW y \in WaitRow, waits' = [waits EXCEPT ![w] = y],
         \/ /\ y.state = waits[w].state /\ y.request = waits[w].request
            /\ waits[w].resume = "none"
         \/ waits[w].state \in {"absent", "pending"} /\ y.state # "pending"
         \/ waits[w].state = "absent" /\ Pending(y.request) = {}
  PROVE  WaitsKept
<1>1. waits'[w] = y /\ \A v \in WaitIds : v # w => waits'[v] = waits[v]
  BY DEF TypeInv, TypeOK
<1>2. SameWait(w) \/ Resolved(w) \/ Opened(w)
  BY <1>1 DEF SameWait, Resolved, Opened
<1>3. QED
  BY <1>1, <1>2 DEF WaitsKept, SameWait

\* Of the steps that hold the loop, three write waits: the one that satisfies,
\* the one that claims a resume, and the cancellation of a mission's waits.
LEMMA LoopStepWaits ==
  ASSUME TypeInv, SatisfiesPending, LoopStep PROVE WaitsKept /\ SatisfiesPending'
<1> USE DEF TypeInv, TypeOK
<1>1. CASE SatisfyWait
  <2> DEFINE y == [waits[loop.w] EXCEPT !.state = "satisfied"]
  <2>1. loop.w \in WaitIds /\ waits[loop.w] \in WaitRow /\ waits[loop.w].state = "pending"
    BY <1>1 DEF SatisfyWait, Shape, OnWait, SatisfiesPending
  <2>2. y \in WaitRow /\ y.state # "pending" /\ waits' = [waits EXCEPT ![loop.w] = y]
    BY <1>1, <2>1 DEF SatisfyWait, WaitRow, WaitStates
  <2> HIDE DEF y
  <2>3. WaitsKept
    BY <2>1, <2>2, OneWait
  <2>4. QED
    BY <1>1, <2>3, PassedOn DEF SatisfyWait, At
<1>2. CASE ClaimResume
  <2> DEFINE y == [waits[loop.w] EXCEPT !.resume = "queued"]
  <2>1. loop.w \in WaitIds /\ waits[loop.w] \in WaitRow
    BY <1>2 DEF ClaimResume, Shape, OnWait
  <2>2. y \in WaitRow /\ y.state = waits[loop.w].state /\ y.request = waits[loop.w].request
    BY <2>1 DEF WaitRow
  <2>3. \/ waits' = waits
        \/ waits[loop.w].resume = "none" /\ waits' = [waits EXCEPT ![loop.w] = y]
    BY <1>2 DEF ClaimResume
  <2> HIDE DEF y
  <2>4. WaitsKept
    BY <2>1, <2>2, <2>3, OneWait, UnchangedWaits
  <2>5. QED
    BY <1>2, <2>4, PassedOn DEF ClaimResume, At, Free
<1>3. CASE CancelMissionWaits
  <2>1. ASSUME NEW w \in WaitIds PROVE SameWait(w) \/ Resolved(w)
    <3>1. waits[w] \in WaitRow
      OBVIOUS
    <3>2. CASE w \in PendingOf(loop.r[1])
      BY <1>3, <3>1, <3>2 DEF CancelMissionWaits, PendingOf, Resolved, WaitRow
    <3>3. CASE w \notin PendingOf(loop.r[1])
      BY <1>3, <3>3 DEF CancelMissionWaits, SameWait
    <3>4. QED
      BY <3>2, <3>3
  <2>2. QED
    BY <1>3, <2>1, PassedOn DEF CancelMissionWaits, WaitsKept, CancelDone, Finish, Free, At
<1>4. CASE MissionActive \/ EndRun \/ EnterWaiting \/ Requeue \/ Queue \/ EnqueueRetry
           \/ StepAcquires \/ PauseDirectly \/ AcknowledgeDirectly
  <2>1. waits' = waits
    BY <1>4 DEF MissionActive, EndRun, EnterWaiting, Requeue, Queue, EnqueueRetry, CreateRun,
                StepAcquires, Acquire, PauseDirectly, AcknowledgeDirectly
  <2>2. loop'.do # "satisfy"
    BY <1>4 DEF MissionActive, EndRun, EnterWaiting, Requeue, Queue, EnqueueRetry, CreateRun,
                StepAcquires, Acquire, PauseDirectly, AcknowledgeDirectly,
                Iterate, Finish, Free, At
  <2>3. QED
    BY <2>1, <2>2, UnchangedWaits, PassedOn
<1>5. CASE MoveToCancelled
  <2>1. waits' = waits /\ loop'.do # "satisfy"
    BY <1>5 DEF MoveToCancelled, CancelDone, Finish, Free, At, LoopRow
  <2>2. QED
    BY <2>1, UnchangedWaits, PassedOn
<1>6. ASSUME NEW e \in Executors,
             \/ IterationStopped(e) \/ AcknowledgeCancel(e) \/ PauseAtBoundary(e)
             \/ BudgetGate(e) \/ BeginIteration(e)
      PROVE  WaitsKept /\ SatisfiesPending'
  <2>1. waits' = waits
    BY <1>6 DEF IterationStopped, AcknowledgeCancel, PauseAtBoundary, BudgetGate,
                BeginIteration, rows
  <2>2. loop' = Finish(e) \/ loop' = Free \/ loop' = At("cancel", e, exec[e].run, 0)
    BY <1>6 DEF IterationStopped, AcknowledgeCancel, PauseAtBoundary, BudgetGate,
                BeginIteration
  <2>3. loop'.do # "satisfy"
    BY <2>2 DEF Finish, Free, At
  <2>4. QED
    BY <2>1, <2>3, UnchangedWaits, PassedOn
<1>7. QED
  BY <1>1, <1>2, <1>3, <1>4, <1>5, <1>6 DEF LoopStep

\* Of the answers only a reply wait writes waits, and it opens one only when
\* the request has none pending (prepare_peer_reply_wait).
LEMMA AnswerWaits ==
  ASSUME TypeInv, SatisfiesPending, NEW e \in Executors, Answer(e)
  PROVE  WaitsKept /\ SatisfiesPending'
<1> USE DEF TypeInv, TypeOK
<1>1. ASSUME NEW q \in Requests, NEW deadline \in BOOLEAN, DecidesReplyWait(e, q, deadline)
      PROVE  WaitsKept /\ SatisfiesPending'
  <2> DEFINE r == exec[e].run
             wait == [NoWait EXCEPT !.run = r, !.request = q, !.deadline = deadline]
             open == [wait EXCEPT !.state = "pending"]
             found == [wait EXCEPT !.state = "satisfied", !.resume = "inline"]
  <2>1. r \in Runs
    BY <1>1 DEF DecidesReplyWait, Answered, Shape
  <2>2. /\ open \in WaitRow /\ open.request = q
        /\ found \in WaitRow /\ found.state = "satisfied"
    BY <2>1 DEF NoWait, WaitRow, WaitStates
  <2>3. loop'.do \in {"wait", "iterate", "finish"}
    BY <1>1 DEF DecidesReplyWait, Continued, Iterate, Finish, At
  <2>4. \/ waits' = waits
        \/ \E w \in WaitIds :
             /\ waits[w].state = "absent" /\ Pending(q) = {}
             /\ waits' = [waits EXCEPT ![w] = open] \/ waits' = [waits EXCEPT ![w] = found]
    BY <1>1 DEF DecidesReplyWait, NewWait
  <2> HIDE DEF open, found
  <2>5. WaitsKept
    BY <2>2, <2>4, OneWait, UnchangedWaits
  <2>6. QED
    BY <2>3, <2>5, PassedOn
<1>2. ASSUME waits' = waits,
             \/ loop' = Free \/ loop' = Finish(e) \/ loop' = Continued(e)
             \/ loop' = loop /\ LoopFree
      PROVE  WaitsKept /\ SatisfiesPending'
  <2>1. \/ loop'.do # "satisfy"
        \/ loop' = loop /\ waits' = waits
    BY <1>2 DEF Free, Continued, Iterate, Finish, At
  <2>2. QED
    BY <1>2, <2>1, UnchangedWaits, PassedOn
<1>3. CASE CoordinatorUnusable(e) \/ DecidesComplete(e) \/ CompletionRefused(e)
           \/ DecidesBlocked(e) \/ DecidesWait(e) \/ PeerMessageRefused(e)
  BY <1>2, <1>3 DEF CoordinatorUnusable, DecidesComplete, CompletionRefused, DecidesBlocked,
                    DecidesWait, PeerMessageRefused
<1>4. CASE CoordinatorFails(e) \/ InvalidDecision(e)
  BY <1>2, <1>4 DEF CoordinatorFails, InvalidDecision, Streaks
<1>5. ASSUME NEW t \in CappedRoutes, DecidesRoute(e, t) PROVE WaitsKept /\ SatisfiesPending'
  BY <1>2, <1>5 DEF DecidesRoute, Answered
<1>6. ASSUME NEW q \in Requests, SendsPeerMessage(e, q) PROVE WaitsKept /\ SatisfiesPending'
  BY <1>2, <1>6 DEF SendsPeerMessage
<1>7. QED
  BY <1>1, <1>3, <1>4, <1>5, <1>6 DEF Answer

\* No end of a routed action, and no step of the pool, touches a wait.
LEMMA WorkerWaits ==
  ASSUME TypeInv, SatisfiesPending, Worker PROVE WaitsKept /\ SatisfiesPending'
<1>1. ASSUME waits' = waits,
             \/ loop' = loop
             \/ \E e \in Executors : loop' = Finish(e) \/ loop' = Continued(e)
             \/ \E e \in Executors, r \in Runs : loop' = At("acquired", e, r, 0)
      PROVE  WaitsKept /\ SatisfiesPending'
  <2>1. loop'.do # "satisfy" \/ loop' = loop
    BY <1>1 DEF Continued, Iterate, Finish, At
  <2>2. QED
    BY <1>1, <2>1, UnchangedWaits, PassedOn
<1>2. ASSUME NEW r \in Runs, Schedule(r) \/ LeaseExpires(r)
      PROVE  WaitsKept /\ SatisfiesPending'
  BY <1>1, <1>2 DEF Schedule, LeaseExpires, rows
<1>3. ASSUME NEW m \in Missions, BeginTask(m) PROVE WaitsKept /\ SatisfiesPending'
  <2>1. waits' = waits /\ (loop' = loop \/ loop' = At("acquired", m, exec[m].run, 0))
    BY <1>3 DEF BeginTask, Acquire, rows
  <2>2. m \in Executors /\ exec[m].run \in Runs
    BY <1>3 DEF BeginTask, Executors, TypeInv, Shape
  <2>3. QED
    BY <1>1, <2>1, <2>2
<1>4. ASSUME NEW m \in Missions, WindDown(m) \/ HeartbeatLost(m)
      PROVE  WaitsKept /\ SatisfiesPending'
  BY <1>1, <1>4 DEF WindDown, HeartbeatLost, rows
<1>5. ASSUME NEW e \in Executors, RouteAnswer(e) PROVE WaitsKept /\ SatisfiesPending'
  BY <1>1, <1>5 DEF RouteAnswer, RouteReturns, CodingSandboxFails
<1>6. ASSUME NEW e \in Executors, BackoffEnds(e) PROVE WaitsKept /\ SatisfiesPending'
  BY <1>1, <1>6 DEF BackoffEnds, rows
<1>7. QED
  BY <1>2, <1>3, <1>4, <1>5, <1>6, AnswerWaits DEF Worker

\* A stored reply hands the loop to its pending wait; a deadline resolves one.
LEMMA PeerWaits ==
  ASSUME TypeInv, SatisfiesPending, Peer \/ Deadline PROVE WaitsKept /\ SatisfiesPending'
<1> USE DEF TypeInv, TypeOK
<1>1. ASSUME NEW q \in Requests, ReplyArrives(q) PROVE WaitsKept /\ SatisfiesPending'
  <2>1. waits' = waits
    BY <1>1 DEF ReplyArrives
  <2>2. loop' = Free \/ \E w \in Pending(q) : loop' = At("satisfy", None, None, w)
    BY <1>1 DEF ReplyArrives
  <2>3. SatisfiesPending'
    BY <2>1, <2>2 DEF SatisfiesPending, Pending, Free, At
  <2>4. QED
    BY <2>1, <2>3, UnchangedWaits
<1>2. ASSUME NEW w \in WaitIds, TimeOutWait(w) PROVE WaitsKept /\ SatisfiesPending'
  <2> DEFINE y == [waits[w] EXCEPT !.state = "timed_out"]
  <2>1. waits[w] \in WaitRow /\ waits[w].state = "pending" /\ waits' = [waits EXCEPT ![w] = y]
    BY <1>2 DEF TimeOutWait, Due
  <2>2. y \in WaitRow /\ y.state # "pending"
    BY <2>1 DEF WaitRow, WaitStates
  <2> HIDE DEF y
  <2>3. WaitsKept
    BY <2>1, <2>2, OneWait
  <2>4. QED
    BY <1>2, <2>3, PassedOn DEF TimeOutWait, At
<1>3. QED
  BY <1>1, <1>2 DEF Peer, Deadline

\* Of the operator's requests one writes a wait, and it cancels a pending one.
LEMMA OperatorWaits ==
  ASSUME TypeInv, SatisfiesPending, Operator PROVE WaitsKept /\ SatisfiesPending'
<1> USE DEF TypeInv, TypeOK
<1>1. ASSUME NEW m \in Missions, \/ StartMission(m) \/ RetryMission(m) \/ PauseMission(m)
                                 \/ ResumeMission(m) \/ CancelMission(m)
      PROVE  WaitsKept /\ SatisfiesPending'
  <2>1. waits' = waits
    BY <1>1 DEF StartMission, CreateRun, RetryMission, PauseMission, ResumeMission,
                CancelMission, rows
  <2>2. loop'.do # "satisfy" \/ loop' = loop
    BY <1>1 DEF StartMission, CreateRun, RetryMission, PauseMission, ResumeMission,
                CancelMission, Free, At
  <2>3. QED
    BY <2>1, <2>2, UnchangedWaits, PassedOn
<1>2. ASSUME NEW m \in Missions, NEW c \in Callers, RunOneStep(c, m)
      PROVE  WaitsKept /\ SatisfiesPending'
  <2>1. waits' = waits /\ loop'.do # "satisfy"
    BY <1>2 DEF RunOneStep, Acquire, CreateRun, At
  <2>2. QED
    BY <2>1, UnchangedWaits, PassedOn
<1>3. ASSUME NEW w \in WaitIds, CancelWait(w) PROVE WaitsKept /\ SatisfiesPending'
  <2> DEFINE y == [waits[w] EXCEPT !.state = "cancelled"]
  <2>1. /\ waits[w] \in WaitRow /\ waits[w].state = "pending"
        /\ waits' = [waits EXCEPT ![w] = y] /\ loop' = loop /\ loop.do = "free"
    BY <1>3 DEF CancelWait, Serving, LoopFree, Free, At
  <2>2. y \in WaitRow /\ y.state # "pending"
    BY <2>1 DEF WaitRow, WaitStates
  <2> HIDE DEF y
  <2>3. QED
    BY <2>1, <2>2, OneWait, PassedOn
<1>4. QED
  BY <1>1, <1>2, <1>3 DEF Operator

\* What any step may do to the waits: resolve a pending one, open one for a
\* request that has none pending, claim a resume once, and nothing else.
LEMMA StepWaits ==
  ASSUME TypeInv, SatisfiesPending, [Next]_vars PROVE WaitsKept /\ SatisfiesPending'
<1>1. ASSUME waits' = waits, loop' = loop \/ loop' = Free \/ loop'.do = "claim"
      PROVE  WaitsKept /\ SatisfiesPending'
  BY <1>1, UnchangedWaits, PassedOn DEF Free, At
<1>2. CASE StartWorkers \/ BecomeReady \/ BeginShutdown \/ Stopped \/ Crash
  BY <1>1, <1>2 DEF StartWorkers, BecomeReady, BeginShutdown, Stopped, Crash, rows
<1>3. ASSUME NEW w \in WaitIds, RecoverWait(w) PROVE WaitsKept /\ SatisfiesPending'
  BY <1>1, <1>3 DEF RecoverWait, At, rows
<1>4. ASSUME NEW m \in Missions, CancelTask(m) PROVE WaitsKept /\ SatisfiesPending'
  BY <1>1, <1>4 DEF CancelTask, rows
<1>5. CASE UNCHANGED vars
  BY <1>1, <1>5 DEF vars
<1>6. QED
  BY <1>2, <1>3, <1>4, <1>5, LoopStepWaits, WorkerWaits, PeerWaits, OperatorWaits
     DEF Next, Process

\* A request never has two pending waits, however often a mission waits for it
\* again, and whatever crashes fall in between (prepare_peer_reply_wait).
THEOREM OnePendingWaitHolds == Spec => []OnePendingWait
<1>1. Init => SatisfiesPending /\ OnePendingWait
  BY DEF Init, NoWait, SatisfiesPending, OnePendingWait, Free, At
<1>2. ASSUME TypeInv, SatisfiesPending, OnePendingWait, [Next]_vars PROVE OnePendingWait'
  <2>1. ASSUME NEW v \in WaitIds, NEW w \in WaitIds, v # w,
               waits'[v].state = "pending", waits'[w].state = "pending",
               waits'[v].request = waits'[w].request
        PROVE  FALSE
    <3>1. WaitsKept
      BY <1>2, StepWaits
    <3>2. (SameWait(v) \/ Opened(v)) /\ (SameWait(w) \/ Opened(w))
      BY <2>1, <3>1 DEF WaitsKept, Resolved
    <3>3. CASE SameWait(v) /\ SameWait(w)
      BY <1>2, <2>1, <3>3 DEF SameWait, OnePendingWait
    <3>4. CASE Opened(v)
      BY <2>1, <3>4 DEF Opened, Pending
    <3>5. CASE Opened(w)
      BY <2>1, <3>5 DEF Opened, Pending
    <3>6. QED
      BY <3>2, <3>3, <3>4, <3>5
  <2>2. QED
    BY <2>1 DEF OnePendingWait
<1>3. TypeInv /\ SatisfiesPending /\ [Next]_vars => TypeInv' /\ SatisfiesPending'
  BY StepType, StepWaits
<1>4. QED
  BY <1>1, <1>2, <1>3, TypeInit, PTL DEF Spec

\* A wait is resolved once: a reply, a deadline and a cancellation that come
\* late change nothing, and a claimed resume is never claimed again (the
\* conditional updates of MissionReplyWaitRepository, on_inbound_stored).
THEOREM ResolvedWaitFinalHolds == Spec => ResolvedWaitFinal
<1> DEFINE A == \A w \in WaitIds : waits[w].state \notin {"absent", "pending"} =>
                  /\ waits'[w].state = waits[w].state
                  /\ waits[w].resume # "none" => waits'[w].resume = waits[w].resume
<1>1. Init => SatisfiesPending
  BY DEF Init, SatisfiesPending, Free, At
<1>2. TypeInv /\ SatisfiesPending /\ [Next]_vars => A
  <2> SUFFICES ASSUME TypeInv, SatisfiesPending, [Next]_vars PROVE A
    OBVIOUS
  <2>1. WaitsKept
    BY StepWaits
  <2>2. QED
    BY <2>1 DEF WaitsKept, SameWait, Resolved, Opened
<1>3. TypeInv /\ SatisfiesPending /\ [Next]_vars => TypeInv' /\ SatisfiesPending'
  BY StepType, StepWaits
<1>4. QED
  BY <1>1, <1>2, <1>3, TypeInit, PTL DEF Spec, ResolvedWaitFinal
===============================================================================
