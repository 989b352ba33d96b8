---------------------------- MODULE Delivery_proofs ---------------------------
(***************************************************************************)
(* Proofs about Delivery for any messages, limits and faults: its types,   *)
(* that a record is delivered by one attempt at a time, and that the two   *)
(* nodes implement MessageService.                                         *)
(***************************************************************************)
EXTENDS Delivery, TLAPS

\* The attempt that holds a record's claim is the one under way, until an
\* operator cancels the record under it.
Owned ==
  \A t \in Attempts : tasks[t].pc # "idle" =>
    \/ outbox[t[1]].status = "cancelled" /\ outbox[t[1]].owner = "none"
    \/ outbox[t[1]].status = "in_flight" /\ outbox[t[1]].owner = t[2]

DownIsIdle == sender = "down" => tasks = NoTasks

\* What the receiver knows: a served or accepted message is stored, a message at
\* the desk is stored and was not handed on, and nothing came that was not sent.
Arrived ==
  /\ \A t \in Attempts : tasks[t].pc \in {"serving", "accepted"} => t[1] \in inbox
  /\ desk # None => desk \in inbox /\ handled[desk] = 0
  /\ \A m \in Messages : m \notin inbox => handled[m] = 0
  /\ \A m \in Messages : outbox[m].status = "absent" => m \notin inbox /\ late[m] = 0

IInv == TypeOK /\ Owned /\ OneAttempt /\ DownIsIdle /\ Arrived

-------------------------------------------------------------------------------
(* Operators.                                                              *)

\* A record given a status and no claim is a record (release_and_update).
LEMMA UnclaimedType ==
  ASSUME NEW row \in Row, NEW s \in Statuses
  PROVE  /\ Unclaimed(row, s) \in Row
         /\ Unclaimed(row, s).status = s /\ Unclaimed(row, s).owner = "none"
         /\ Unclaimed(row, s).attempts = row.attempts
BY DEF Unclaimed, Row

\* The outcome of an attempt leaves a status of a record (deliver_record).
LEMMA VerdictType ==
  ASSUME NEW outcome, NEW attempt
  PROVE  /\ Verdict(outcome, attempt) \in {"acknowledged", "failed", "retry_scheduled", "dead_letter"}
         /\ Verdict(outcome, attempt) = "acknowledged" => outcome = "accepted"
BY DEF Verdict

\* The number of late requests stays within its bound.
LEMMA LateType ==
  ASSUME late \in [Messages -> 0 .. MaxLate], NEW lost, BecomesLate(lost)
  PROVE  /\ late' \in [Messages -> 0 .. MaxLate]
         /\ \A m \in Messages :
              late'[m] = late[m] \/ \E t \in lost : t[1] = m /\ tasks[t].pc = "posted"
BY DeliveryAssumption DEF BecomesLate

\* A recovery touches records in flight only, and leaves them to be retried.
LEMMA RecoveredRows ==
  ASSUME outbox \in [Messages -> Row]
  PROVE  /\ Recovered \in [Messages -> Row]
         /\ \A m \in Messages :
              \/ Recovered[m] = outbox[m]
              \/ outbox[m].status = "in_flight" /\ Recovered[m].status = "retry_scheduled"
<1>1. ASSUME NEW m \in Messages PROVE Unclaimed(outbox[m], "retry_scheduled") \in Row
  BY UnclaimedType DEF Statuses
<1>2. ASSUME NEW m \in Messages PROVE Unclaimed(outbox[m], "retry_scheduled").status = "retry_scheduled"
  BY UnclaimedType DEF Statuses
<1>3. QED BY <1>1, <1>2 DEF Recovered

\* The death of a process changes the names of owners only.
LEMMA OrphanedRows ==
  ASSUME NEW rows \in [Messages -> Row]
  PROVE  /\ Orphaned(rows) \in [Messages -> Row]
         /\ \A m \in Messages : Orphaned(rows)[m].status = rows[m].status
BY DEF Orphaned, Row

\* Nobody's attempt is under way after a restart.
LEMMA NoTasksType == NoTasks \in [Attempts -> Task] /\ \A t \in Attempts : NoTasks[t].pc = "idle"
BY DeliveryAssumption DEF NoTasks, Idle, Task

\* An attempt that is over or has been refused is written by its owner only.
LEMMA FinishedRows ==
  ASSUME outbox \in [Messages -> Row], NEW t \in Attempts, NEW s \in Statuses
  PROVE  /\ Finished(t, s) \in [Messages -> Row]
         /\ \A m \in Messages : m # t[1] => Finished(t, s)[m] = outbox[m]
         /\ outbox[t[1]].owner # t[2] => Finished(t, s) = outbox
         /\ outbox[t[1]].owner = t[2] => Finished(t, s)[t[1]].status = s
<1>1. t[1] \in Messages BY DEF Attempts
<1>2. Unclaimed(outbox[t[1]], s) \in Row /\ Unclaimed(outbox[t[1]], s).status = s
  BY <1>1, UnclaimedType
<1>3. QED BY <1>1, <1>2 DEF Finished

-------------------------------------------------------------------------------
(* Types.                                                                  *)

\* What a claim writes is a record.
LEMMA ClaimedRow ==
  ASSUME NEW row \in Row, NEW o \in Owners
  PROVE  [status |-> "in_flight", owner |-> o, lease |-> "live",
          attempts |-> IF row.attempts < MaxAttempts THEN row.attempts + 1 ELSE row.attempts] \in Row
BY DeliveryAssumption DEF Row, Statuses, Owners

\* Every step keeps the types (all handlers of Delivery).
LEMMA TypeStep == TypeOK /\ [Next]_vars => TypeOK'
<1> SUFFICES ASSUME TypeOK, [Next]_vars PROVE TypeOK'
  OBVIOUS
<1> USE DEF TypeOK
<1>1. CASE UNCHANGED vars
  BY <1>1 DEF vars
<1>2. ASSUME NEW t \in Attempts, Attempt(t) PROVE TypeOK'
  <2>t. t[1] \in Messages /\ t[2] \in Owners BY DEF Attempts
  <2>r. outbox[t[1]] \in Row /\ tasks[t] \in Task BY <2>t
  <2>s. {"acknowledged", "failed", "retry_scheduled", "dead_letter"} \subseteq Statuses
    BY DEF Statuses
  <2>1. CASE Claim(t)
    <3>1. outbox' \in [Messages -> Row] BY <2>1, <2>t, <2>r, ClaimedRow DEF Claim
    <3>2. tasks' \in [Attempts -> Task] BY <2>1, <2>r DEF Claim, Task
    <3>3. QED BY <2>1, <3>1, <3>2 DEF Claim, receiving
  <2>2. CASE Refuse(t)
    <3>1. outbox' \in [Messages -> Row] BY <2>2, <2>s, FinishedRows DEF Refuse
    <3>2. tasks' \in [Attempts -> Task] BY <2>2, NoTasksType DEF Refuse, NoTasks
    <3>3. QED BY <2>2, <3>1, <3>2 DEF Refuse, receiving
  <2>3. CASE Post(t)
    <3>1. tasks' \in [Attempts -> Task]
      BY <2>3, <2>r DEF Post, Row, Task, Awaiting
    <3>2. QED BY <2>3, <3>1 DEF Post, receiving
  <2>4. CASE Conclude(t)
    <3>1. outbox' \in [Messages -> Row] BY <2>4, <2>s, VerdictType, FinishedRows DEF Conclude
    <3>2. tasks' \in [Attempts -> Task] BY <2>4, NoTasksType DEF Conclude, NoTasks
    <3>3. late' \in [Messages -> 0 .. MaxLate] BY <2>4, LateType DEF Conclude
    <3>4. QED BY <2>4, <3>1, <3>2, <3>3 DEF Conclude, receiving
  <2>5. CASE Fail(t)
    <3>2. tasks' \in [Attempts -> Task] BY <2>5, NoTasksType DEF Fail, NoTasks
    <3>3. late' \in [Messages -> 0 .. MaxLate] BY <2>5, LateType DEF Fail
    <3>4. QED BY <2>5, <3>2, <3>3 DEF Fail, receiving
  <2>6. CASE Receive(t)
    <3>1. Response(t[1]) \in {"refused", "accepted", "serving"} BY DEF Response
    <3>2. tasks' \in [Attempts -> Task] BY <2>6, <2>r, <3>1 DEF Receive, Task, Awaiting
    <3>3. inbox' \subseteq Messages /\ desk' \in Messages \cup {None}
      BY <2>6, <2>t DEF Receive, Meet
    <3>4. QED BY <2>6, <3>2, <3>3 DEF Receive, Meet
  <2>7. QED BY <1>2, <2>1, <2>2, <2>3, <2>4, <2>5, <2>6 DEF Attempt
<1>3. ASSUME NEW m \in Messages, PerMessage(m) PROVE TypeOK'
  <2>r. outbox[m] \in Row OBVIOUS
  <2>1. CASE Create(m)
    <3>1. outbox' \in [Messages -> Row] BY <2>1, <2>r DEF Create, Row, Statuses
    <3>2. QED BY <2>1, <3>1 DEF Create, receiving
  <2>2. CASE RetryMessage(m)
    <3>1. outbox' \in [Messages -> Row] BY <2>2, <2>r, UnclaimedType DEF RetryMessage, Statuses
    <3>2. QED BY <2>2, <3>1 DEF RetryMessage, receiving
  <2>3. CASE CancelMessage(m)
    <3>1. outbox' \in [Messages -> Row] BY <2>3, <2>r, UnclaimedType DEF CancelMessage, Statuses
    <3>2. QED BY <2>3, <3>1 DEF CancelMessage, receiving
  <2>4. CASE ReceiveLate(m)
    <3>1. late' \in [Messages -> 0 .. MaxLate]
      BY <2>4, DeliveryAssumption DEF ReceiveLate
    <3>2. inbox' \subseteq Messages /\ desk' \in Messages \cup {None}
      BY <2>4 DEF ReceiveLate, Meet
    <3>3. QED BY <2>4, <3>1, <3>2 DEF ReceiveLate, Meet
  <2>5. CASE LeaseExpires(m)
    <3>1. outbox' \in [Messages -> Row] BY <2>5, <2>r DEF LeaseExpires, Row
    <3>2. QED BY <2>5, <3>1 DEF LeaseExpires, receiving
  <2>6. CASE GrowOld(m)
    BY <2>6 DEF GrowOld, receiving
  <2>7. QED BY <1>3, <2>1, <2>2, <2>3, <2>4, <2>5, <2>6 DEF PerMessage
<1>4. CASE SetDeliverable
  BY <1>4 DEF SetDeliverable, receiving
<1>5. CASE StartSender
  BY <1>5, RecoveredRows DEF StartSender, receiving
<1>6. CASE StopSender
  BY <1>6 DEF StopSender, receiving
<1>7. CASE SenderDown
  <2>1. outbox' \in [Messages -> Row] BY <1>7, RecoveredRows, OrphanedRows DEF SenderDown
  <2>2. tasks' \in [Attempts -> Task] BY <1>7, NoTasksType DEF SenderDown
  <2>3. late' \in [Messages -> 0 .. MaxLate] BY <1>7, LateType DEF SenderDown
  <2>4. QED BY <1>7, <2>1, <2>2, <2>3 DEF SenderDown, receiving
<1>8. CASE CrashSender
  <2>1. outbox' \in [Messages -> Row] BY <1>8, OrphanedRows DEF CrashSender
  <2>2. tasks' \in [Attempts -> Task] BY <1>8, NoTasksType DEF CrashSender
  <2>3. late' \in [Messages -> 0 .. MaxLate] BY <1>8, LateType DEF CrashSender
  <2>4. QED BY <1>8, <2>1, <2>2, <2>3 DEF CrashSender, receiving
<1>9. CASE HandOn
  <2>1. tasks' \in [Attempts -> Task] BY <1>9 DEF HandOn, Task, Awaiting
  <2>2. desk \in Messages BY <1>9 DEF HandOn
  <2>3. handled' \in [Messages -> 0 .. 2] BY <1>9, <2>2 DEF HandOn
  <2>4. QED BY <1>9, <2>1, <2>3 DEF HandOn
<1>10. CASE SetAccepting
  BY <1>10 DEF SetAccepting, sending
<1>11. CASE CrashReceiver
  BY <1>11 DEF CrashReceiver, sending
<1>12. CASE StartReceiver
  BY <1>12 DEF StartReceiver, sending
<1>13. QED
  BY <1>1, <1>2, <1>3, <1>4, <1>5, <1>6, <1>7, <1>8, <1>9, <1>10, <1>11, <1>12 DEF Next

\* The initial state is well typed.
LEMMA TypeInit == Init => TypeOK
BY NoTasksType, DeliveryAssumption DEF Init, TypeOK, NoRow, Row, Statuses

-------------------------------------------------------------------------------
(* One attempt at a time.                                                  *)

Claims == Owned /\ OneAttempt /\ DownIsIdle

\* An attempt that ends, whatever it writes, leaves the others' claims alone.
LEMMA AttemptEnds ==
  ASSUME TypeOK, Claims, NEW t \in Attempts, tasks[t].pc # "idle", sender' = sender,
         tasks' = [tasks EXCEPT ![t] = Idle],
         \A m \in Messages : m # t[1] => outbox'[m] = outbox[m]
  PROVE  Claims'
<1>1. t[1] \in Messages /\ \A u \in Attempts : u[1] \in Messages BY DEF Attempts
<1>2. ASSUME NEW u \in Attempts, tasks'[u].pc # "idle"
      PROVE  u # t /\ u[1] # t[1] /\ tasks'[u] = tasks[u] /\ outbox'[u[1]] = outbox[u[1]]
  <2>1. u # t BY <1>2 DEF TypeOK, Idle
  <2>2. tasks'[u] = tasks[u] BY <2>1 DEF TypeOK
  <2>3. u[1] # t[1] BY <1>2, <2>1, <2>2 DEF Claims, OneAttempt
  <2>4. QED BY <1>1, <2>1, <2>2, <2>3
<1>3. Owned' BY <1>2 DEF Claims, Owned
<1>4. OneAttempt' BY <1>2 DEF Claims, OneAttempt
<1>5. DownIsIdle'
  BY NoTasksType DEF Claims, DownIsIdle
<1>6. QED BY <1>3, <1>4, <1>5 DEF Claims

\* An attempt that goes on keeps its claim.
LEMMA AttemptGoesOn ==
  ASSUME TypeOK, Claims, sender' = sender, outbox' = outbox, tasks' \in [Attempts -> Task],
         \A u \in Attempts : tasks[u].pc = "idle" => tasks'[u] = tasks[u]
  PROVE  Claims'
<1>1. \A u \in Attempts : tasks'[u].pc # "idle" => tasks[u].pc # "idle" OBVIOUS
<1>2. Owned' BY <1>1 DEF Claims, Owned
<1>3. OneAttempt' BY <1>1 DEF Claims, OneAttempt
<1>4. DownIsIdle' BY NoTasksType DEF Claims, DownIsIdle, TypeOK
<1>5. QED BY <1>2, <1>3, <1>4 DEF Claims

\* A row that nobody is delivering, or that is cancelled, may be rewritten.
LEMMA RowRewritten ==
  ASSUME TypeOK, Claims, sender' = sender, tasks' = tasks, NEW m \in Messages,
         \A n \in Messages : n # m => outbox'[n] = outbox[n],
         \/ outbox[m].status \notin {"in_flight", "cancelled"}
         \/ outbox'[m].status = "cancelled" /\ outbox'[m].owner = "none"
         \/ outbox'[m].status = outbox[m].status /\ outbox'[m].owner = outbox[m].owner
  PROVE  Claims'
<1>1. \A u \in Attempts : u[1] \in Messages BY DEF Attempts
<1>2. Owned' BY <1>1 DEF Claims, Owned
<1>3. OneAttempt' /\ DownIsIdle' BY DEF Claims, OneAttempt, DownIsIdle, NoTasks
<1>4. QED BY <1>2, <1>3 DEF Claims

\* When no attempt is under way, whatever the rows are.
LEMMA NobodyDelivers == ASSUME tasks' = NoTasks PROVE Claims'
BY NoTasksType DEF Claims, Owned, OneAttempt, DownIsIdle, NoTasks

\* Every step keeps a record with at most one attempt, which owns its claim.
LEMMA ClaimsStep == TypeOK /\ Claims /\ [Next]_vars => Claims'
<1> SUFFICES ASSUME TypeOK, Claims, [Next]_vars PROVE Claims'
  OBVIOUS
<1>t. TypeOK' BY TypeStep
<1>1. CASE UNCHANGED vars
  BY <1>1, <1>t, AttemptGoesOn DEF vars, TypeOK
<1>2. ASSUME NEW t \in Attempts, Attempt(t) PROVE Claims'
  <2>t. t[1] \in Messages /\ t[2] \in Owners BY DEF Attempts
  <2>1. CASE Claim(t)
    <3>1. \A u \in Attempts : u[1] = t[1] => tasks[u].pc = "idle"
      BY <2>1 DEF Claim, Claimable, Claims, Owned
    <3>2. outbox'[t[1]].status = "in_flight" /\ outbox'[t[1]].owner = t[2]
      BY <2>1, <2>t DEF Claim, TypeOK
    <3>3. \A m \in Messages : m # t[1] => outbox'[m] = outbox[m]
      BY <2>1, <2>t DEF Claim, TypeOK
    <3>4. \A u \in Attempts : u # t => tasks'[u] = tasks[u]
      BY <2>1 DEF Claim, TypeOK
    <3>5. Owned'
      <4> SUFFICES ASSUME NEW u \in Attempts, tasks'[u].pc # "idle"
                   PROVE  \/ outbox'[u[1]].status = "cancelled" /\ outbox'[u[1]].owner = "none"
                          \/ outbox'[u[1]].status = "in_flight" /\ outbox'[u[1]].owner = u[2]
        BY DEF Owned
      <4>1. CASE u = t BY <4>1, <3>2
      <4>2. CASE u # t
        <5>1. u[1] \in Messages /\ u[1] # t[1] BY <4>2, <3>1, <3>4 DEF Attempts
        <5>2. QED BY <5>1, <4>2, <3>3, <3>4 DEF Claims, Owned
      <4>3. QED BY <4>1, <4>2
    <3>6. OneAttempt' BY <3>1, <3>4 DEF Claims, OneAttempt
    <3>7. DownIsIdle' BY <2>1 DEF Claim, DownIsIdle
    <3>8. QED BY <3>5, <3>6, <3>7 DEF Claims
  <2>2. CASE Refuse(t)
    BY <2>2, FinishedRows, AttemptEnds DEF Refuse, TypeOK, Statuses
  <2>3. CASE Post(t)
    BY <2>3, <1>t, AttemptGoesOn DEF Post, TypeOK
  <2>4. CASE Conclude(t)
    <3>1. \A m \in Messages : m # t[1] => outbox'[m] = outbox[m]
      <4>1. PICK outcome : outbox' = Finished(t, Verdict(outcome, tasks[t].attempt))
        BY <2>4 DEF Conclude
      <4>2. Verdict(outcome, tasks[t].attempt) \in Statuses BY VerdictType DEF Statuses
      <4>3. QED BY <4>1, <4>2, FinishedRows DEF TypeOK
    <3>2. QED BY <2>4, <3>1, AttemptEnds DEF Conclude, Awaiting
  <2>5. CASE Fail(t)
    BY <2>5, AttemptEnds DEF Fail
  <2>6. CASE Receive(t)
    BY <2>6, <1>t, AttemptGoesOn DEF Receive, Meet, TypeOK
  <2>7. QED BY <1>2, <2>1, <2>2, <2>3, <2>4, <2>5, <2>6 DEF Attempt
<1>3. ASSUME NEW m \in Messages, PerMessage(m) PROVE Claims'
  <2>1. CASE Create(m)
    BY <2>1, RowRewritten DEF Create, TypeOK
  <2>2. CASE RetryMessage(m)
    BY <2>2, RowRewritten DEF RetryMessage, TypeOK
  <2>3. CASE CancelMessage(m)
    <3>1. /\ Unclaimed(outbox[m], "cancelled").status = "cancelled"
          /\ Unclaimed(outbox[m], "cancelled").owner = "none"
      BY UnclaimedType DEF TypeOK, Statuses
    <3>2. QED BY <2>3, <3>1, RowRewritten DEF CancelMessage, TypeOK
  <2>4. CASE ReceiveLate(m)
    BY <2>4, <1>t, AttemptGoesOn DEF ReceiveLate, Meet, TypeOK
  <2>5. CASE LeaseExpires(m)
    BY <2>5, RowRewritten DEF LeaseExpires, TypeOK, Row
  <2>6. CASE GrowOld(m)
    BY <2>6, <1>t, AttemptGoesOn DEF GrowOld, TypeOK
  <2>7. QED BY <1>3, <2>1, <2>2, <2>3, <2>4, <2>5, <2>6 DEF PerMessage
<1>4. CASE SetDeliverable
  BY <1>4, <1>t, AttemptGoesOn DEF SetDeliverable, TypeOK
<1>5. CASE StartSender
  BY <1>5, NobodyDelivers DEF StartSender, Claims, DownIsIdle
<1>6. CASE StopSender
  <2>1. Owned' /\ OneAttempt' BY <1>6 DEF StopSender, Claims, Owned, OneAttempt
  <2>2. QED BY <1>6, <2>1 DEF StopSender, Claims, DownIsIdle
<1>7. CASE SenderDown
  BY <1>7, NobodyDelivers DEF SenderDown
<1>8. CASE CrashSender
  BY <1>8, NobodyDelivers DEF CrashSender
<1>9. CASE HandOn
  BY <1>9, <1>t, AttemptGoesOn DEF HandOn, TypeOK
<1>10. CASE SetAccepting
  BY <1>10, <1>t, AttemptGoesOn DEF SetAccepting, sending, TypeOK
<1>11. CASE CrashReceiver
  BY <1>11, <1>t, AttemptGoesOn DEF CrashReceiver, sending, TypeOK
<1>12. CASE StartReceiver
  BY <1>12, <1>t, AttemptGoesOn DEF StartReceiver, sending, TypeOK
<1>13. QED
  BY <1>1, <1>2, <1>3, <1>4, <1>5, <1>6, <1>7, <1>8, <1>9, <1>10, <1>11, <1>12 DEF Next

-------------------------------------------------------------------------------
(* What has arrived.                                                       *)

\* A step that stores nothing and sends nothing keeps what the receiver knows.
LEMMA NothingArrives ==
  ASSUME TypeOK, Arrived, UNCHANGED <<inbox, handled, desk>>,
         \A t \in Attempts : tasks'[t].pc \in {"serving", "accepted"} => tasks'[t].pc = tasks[t].pc,
         \A m \in Messages : outbox'[m].status = "absent" => outbox[m].status = "absent",
         \A m \in Messages : outbox'[m].status = "absent" => late'[m] = late[m]
  PROVE  Arrived'
BY DEF Arrived

\* A request met by the receiver is stored when it answers that it is.
LEMMA Met ==
  ASSUME TypeOK, Arrived, NEW m \in Messages, Meet(m), outbox[m].status # "absent",
         tasks' \in [Attempts -> Task],
         \A t \in Attempts : tasks'[t].pc \in {"serving", "accepted"} =>
           tasks'[t].pc = tasks[t].pc \/ (t[1] = m /\ tasks'[t].pc = Response(m)),
         \A n \in Messages : n # m => late'[n] = late[n]
  PROVE  Arrived'
<1>1. inbox \subseteq inbox' /\ (Response(m) \in {"serving", "accepted"} => m \in inbox')
  BY DEF Meet, Response
<1>2. \A t \in Attempts : tasks'[t].pc \in {"serving", "accepted"} => t[1] \in inbox'
  BY <1>1 DEF Arrived
<1>3. desk' # None => desk' \in inbox' /\ handled'[desk'] = 0
  BY <1>1 DEF Meet, Response, Arrived
<1>4. \A n \in Messages : n \notin inbox' => handled'[n] = 0
  BY <1>1 DEF Meet, Arrived
<1>5. \A n \in Messages : outbox'[n].status = "absent" => n \notin inbox' /\ late'[n] = 0
  BY DEF Meet, Arrived
<1>6. QED BY <1>2, <1>3, <1>4, <1>5 DEF Arrived

\* Every step keeps what the receiver knows.
LEMMA ArrivedStep == IInv /\ [Next]_vars => Arrived'
<1> SUFFICES ASSUME IInv, [Next]_vars PROVE Arrived'
  OBVIOUS
<1>i. TypeOK /\ Claims /\ Arrived /\ TypeOK' BY TypeStep DEF IInv, Claims
<1>1. CASE UNCHANGED vars
  BY <1>1, <1>i, NothingArrives DEF vars
<1>2. ASSUME NEW t \in Attempts, Attempt(t) PROVE Arrived'
  <2>t. t[1] \in Messages BY DEF Attempts
  <2>s. \A u \in Attempts : tasks[u].pc # "idle" => outbox[u[1]].status # "absent"
    BY <1>i DEF Claims, Owned
  <2>e. ASSUME tasks' = [tasks EXCEPT ![t] = Idle], UNCHANGED <<inbox, handled, desk>>,
               \A m \in Messages : outbox'[m].status = "absent" => outbox[m].status = "absent",
               UNCHANGED late \/ BecomesLate({t})
        PROVE  Arrived'
    <3>1. \A u \in Attempts : tasks'[u].pc \in {"serving", "accepted"} => tasks'[u].pc = tasks[u].pc
      BY <1>i, <2>e DEF TypeOK, Idle
    <3>2. \A m \in Messages : outbox[m].status = "absent" => late'[m] = late[m]
      BY <1>i, <2>e, <2>s, LateType DEF TypeOK
    <3>3. QED BY <1>i, <2>e, <3>1, <3>2, NothingArrives
  <2>f. ASSUME NEW s \in Statuses \ {"absent"}, outbox' = Finished(t, s)
        PROVE  \A m \in Messages : outbox'[m].status = "absent" => outbox[m].status = "absent"
    BY <1>i, <2>f, <2>t, FinishedRows DEF TypeOK
  <2>1. CASE Claim(t)
    <3>1. \A m \in Messages : outbox'[m].status = "absent" => outbox'[m] = outbox[m]
      BY <1>i, <2>1, <2>t DEF Claim, TypeOK
    <3>2. \A u \in Attempts : tasks'[u].pc \in {"serving", "accepted"} => tasks'[u].pc = tasks[u].pc
      BY <1>i, <2>1 DEF Claim, TypeOK
    <3>3. QED BY <1>i, <2>1, <3>1, <3>2, NothingArrives DEF Claim, receiving
  <2>2. CASE Refuse(t)
    BY <2>2, <2>e, <2>f DEF Refuse, receiving, Statuses
  <2>3. CASE Post(t)
    <3>1. \A u \in Attempts : tasks'[u].pc \in {"serving", "accepted"} => tasks'[u].pc = tasks[u].pc
      BY <1>i, <2>3 DEF Post, TypeOK
    <3>2. QED BY <1>i, <2>3, <3>1, NothingArrives DEF Post, receiving
  <2>4. CASE Conclude(t)
    <3>1. PICK outcome : outbox' = Finished(t, Verdict(outcome, tasks[t].attempt))
      BY <2>4 DEF Conclude
    <3>2. Verdict(outcome, tasks[t].attempt) \in Statuses \ {"absent"} BY VerdictType DEF Statuses
    <3>3. QED BY <2>4, <2>e, <2>f, <3>1, <3>2 DEF Conclude, receiving
  <2>5. CASE Fail(t)
    BY <2>5, <2>e DEF Fail, receiving
  <2>6. CASE Receive(t)
    <3>1. \A u \in Attempts : tasks'[u].pc \in {"serving", "accepted"} =>
            tasks'[u].pc = tasks[u].pc \/ (u[1] = t[1] /\ tasks'[u].pc = Response(t[1]))
      BY <1>i, <2>6 DEF Receive, TypeOK
    <3>2. QED BY <1>i, <2>6, <2>t, <2>s, <3>1, Met DEF Receive, TypeOK
  <2>7. QED BY <1>2, <2>1, <2>2, <2>3, <2>4, <2>5, <2>6 DEF Attempt
<1>3. ASSUME NEW m \in Messages, PerMessage(m) PROVE Arrived'
  <2>1. CASE Create(m)
    <3>1. \A n \in Messages : outbox'[n].status = "absent" => outbox[n].status = "absent"
      BY <1>i, <2>1 DEF Create, TypeOK
    <3>2. QED BY <1>i, <2>1, <3>1, NothingArrives DEF Create, receiving
  <2>2. CASE RetryMessage(m)
    <3>1. \A n \in Messages : outbox'[n].status = "absent" => outbox[n].status = "absent"
      <4>1. Unclaimed(outbox[m], "retry_scheduled").status = "retry_scheduled"
        BY <1>i, UnclaimedType DEF TypeOK, Statuses
      <4>2. QED BY <1>i, <2>2, <4>1 DEF RetryMessage, TypeOK
    <3>2. QED BY <1>i, <2>2, <3>1, NothingArrives DEF RetryMessage, receiving
  <2>3. CASE CancelMessage(m)
    <3>1. \A n \in Messages : outbox'[n].status = "absent" => outbox[n].status = "absent"
      <4>1. Unclaimed(outbox[m], "cancelled").status = "cancelled"
        BY <1>i, UnclaimedType DEF TypeOK, Statuses
      <4>2. QED BY <1>i, <2>3, <4>1 DEF CancelMessage, TypeOK
    <3>2. QED BY <1>i, <2>3, <3>1, NothingArrives DEF CancelMessage, receiving
  <2>4. CASE ReceiveLate(m)
    <3>1. outbox[m].status # "absent" BY <1>i, <2>4 DEF ReceiveLate, Arrived
    <3>2. \A n \in Messages : n # m => late'[n] = late[n] BY <1>i, <2>4 DEF ReceiveLate, TypeOK
    <3>3. QED BY <1>i, <2>4, <3>1, <3>2, Met DEF ReceiveLate, TypeOK
  <2>5. CASE LeaseExpires(m)
    <3>1. \A n \in Messages : outbox'[n].status = "absent" => outbox[n].status = "absent"
      BY <1>i, <2>5 DEF LeaseExpires, TypeOK, Row
    <3>2. QED BY <1>i, <2>5, <3>1, NothingArrives DEF LeaseExpires, receiving
  <2>6. CASE GrowOld(m)
    BY <1>i, <2>6, NothingArrives DEF GrowOld, receiving
  <2>7. QED BY <1>3, <2>1, <2>2, <2>3, <2>4, <2>5, <2>6 DEF PerMessage
<1>4. CASE SetDeliverable
  BY <1>i, <1>4, NothingArrives DEF SetDeliverable, receiving
<1>r. \A m \in Messages : Recovered[m].status = "absent" => outbox[m].status = "absent"
  BY <1>i, RecoveredRows DEF TypeOK
<1>5. CASE StartSender
  BY <1>i, <1>5, <1>r, NothingArrives DEF StartSender, receiving
<1>6. CASE StopSender
  BY <1>i, <1>6, NothingArrives DEF StopSender, receiving
<1>d. ASSUME tasks' = NoTasks, BecomesLate(Attempts), UNCHANGED <<inbox, handled, desk>>,
             \A m \in Messages : outbox'[m].status = "absent" => outbox[m].status = "absent"
      PROVE  Arrived'
  <2>1. \A m \in Messages : outbox[m].status = "absent" => late'[m] = late[m]
    BY <1>i, <1>d, LateType DEF TypeOK, Claims, Owned
  <2>2. QED BY <1>i, <1>d, <2>1, NoTasksType, NothingArrives
<1>7. CASE SenderDown
  BY <1>i, <1>7, <1>d, <1>r, RecoveredRows, OrphanedRows DEF SenderDown, receiving, TypeOK
<1>8. CASE CrashSender
  BY <1>i, <1>8, <1>d, OrphanedRows DEF CrashSender, receiving, TypeOK
<1>9. CASE HandOn
  <2>1. desk \in inbox BY <1>i, <1>9 DEF HandOn, Arrived
  <2>2. \A t \in Attempts : tasks'[t].pc \in {"serving", "accepted"} => t[1] \in inbox'
    BY <1>i, <1>9 DEF HandOn, Arrived
  <2>3. \A m \in Messages : m \notin inbox' => handled'[m] = 0
    BY <1>i, <1>9, <2>1 DEF HandOn, Arrived, TypeOK
  <2>4. QED BY <1>i, <1>9, <2>2, <2>3 DEF HandOn, Arrived
<1>10. CASE SetAccepting
  BY <1>i, <1>10, NothingArrives DEF SetAccepting, sending
<1>11. CASE CrashReceiver
  BY <1>i, <1>11 DEF CrashReceiver, sending, Arrived
<1>12. CASE StartReceiver
  BY <1>i, <1>12, NothingArrives DEF StartReceiver, sending
<1>13. QED
  BY <1>1, <1>2, <1>3, <1>4, <1>5, <1>6, <1>7, <1>8, <1>9, <1>10, <1>11, <1>12 DEF Next

\* The inductive invariant holds initially.
LEMMA InvInit == Init => IInv
<1> SUFFICES ASSUME Init PROVE IInv
  OBVIOUS
<1>1. TypeOK BY TypeInit
<1>2. \A t \in Attempts : tasks[t].pc = "idle" BY NoTasksType DEF Init
<1>3. Owned /\ OneAttempt /\ DownIsIdle BY <1>2 DEF Owned, OneAttempt, DownIsIdle, Init
<1>4. Arrived BY <1>2 DEF Arrived, Init
<1>5. QED BY <1>1, <1>3, <1>4 DEF IInv

\* Every step keeps the inductive invariant.
LEMMA InvStep == IInv /\ [Next]_vars => IInv'
BY TypeStep, ClaimsStep, ArrivedStep DEF IInv, Claims

\* IInv is an invariant of the delivery of messages.
LEMMA InvHolds == Spec => []IInv
BY InvInit, InvStep, PTL DEF Spec

\* Every reachable state of the two nodes is well typed.
THEOREM TypeCorrect == Spec => []TypeOK
<1>1. IInv => TypeOK BY DEF IInv
<1>2. QED BY <1>1, InvHolds, PTL

\* A record is delivered by one attempt at a time, whatever the worker,
\* send_now calls, retries, cancellations, restarts and crashes do.
THEOREM OneAttemptHolds == Spec => []OneAttempt
<1>1. IInv => OneAttempt BY DEF IInv
<1>2. QED BY <1>1, InvHolds, PTL

-------------------------------------------------------------------------------
(* The two nodes implement the message service.                            *)

fates == [m \in Messages |-> Fate(outbox[m].status)]

\* A step that changes no fate and nothing at the receiver is no step of the service.
LEMMA Stutters ==
  ASSUME UNCHANGED <<inbox, handled>>,
         \A m \in Messages : Fate(outbox'[m].status) = Fate(outbox[m].status)
  PROVE  UNCHANGED <<fates, inbox, handled>>
BY DEF fates

\* A step that rewrites one row moves the fate of that message only.
LEMMA OneFate ==
  ASSUME NEW m \in Messages, \A n \in Messages : n # m => outbox'[n] = outbox[n]
  PROVE  fates' = [fates EXCEPT ![m] = Fate(outbox'[m].status)]
BY DEF fates

\* A request met by the receiver stores the message or changes nothing there.
LEMMA MeetServes ==
  ASSUME TypeOK, NEW m \in Messages, Meet(m), outbox[m].status # "absent"
  PROVE  Service!Store(m) \/ UNCHANGED <<fates, inbox, handled>>
<1>1. CASE Response(m) = "serving" /\ m \notin inbox
  <2>1. fates[m] # "unsent" BY DEF fates, Fate, TypeOK, Row, Statuses
  <2>2. fates' = fates BY DEF Meet, fates
  <2>3. QED BY <1>1, <2>1, <2>2 DEF Meet, Service!Store, fates
<1>2. CASE ~(Response(m) = "serving" /\ m \notin inbox)
  BY <1>2 DEF Meet, fates
<1>3. QED BY <1>1, <1>2

\* The rows' fates after an attempt's outcome.
LEMMA ConcludedFate ==
  ASSUME TypeOK, Owned, NEW t \in Attempts, tasks[t].pc # "idle",
         NEW s \in {"acknowledged", "failed", "retry_scheduled", "dead_letter"},
         outbox' = Finished(t, s), UNCHANGED <<inbox, handled>>
  PROVE  \/ UNCHANGED <<fates, inbox, handled>>
         \/ /\ fates[t[1]] = "open"
            /\ fates' = [fates EXCEPT ![t[1]] = Fate(s)]
<1>1. t[1] \in Messages /\ s \in Statuses BY DEF Attempts, Statuses
<1>2. CASE outbox[t[1]].owner # t[2]
  BY <1>1, <1>2, FinishedRows DEF TypeOK, fates
<1>3. CASE outbox[t[1]].owner = t[2]
  <2>1. outbox[t[1]].status = "in_flight" /\ t[2] # "none"
    BY <1>3 DEF Owned, Attempts, Owners
  <2>2. outbox'[t[1]].status = s /\ \A n \in Messages : n # t[1] => outbox'[n] = outbox[n]
    BY <1>1, <1>3, FinishedRows DEF TypeOK
  <2>3. fates[t[1]] = "open" BY <1>1, <2>1 DEF fates, Fate
  <2>4. QED BY <1>1, <2>2, <2>3, OneFate
<1>4. QED BY <1>2, <1>3

\* Every step is a step of the service, or changes nothing it speaks of.
LEMMA ServiceStep ==
  IInv /\ [Next]_vars => [Service!Next]_<<fates, inbox, handled>>
<1> SUFFICES ASSUME IInv, [Next]_vars PROVE Service!Next \/ UNCHANGED <<fates, inbox, handled>>
  OBVIOUS
<1>i. TypeOK /\ Owned /\ OneAttempt /\ DownIsIdle /\ Arrived BY DEF IInv
<1>1. CASE UNCHANGED vars
  BY <1>1 DEF vars, fates
<1>m. ASSUME NEW m \in Messages,
             Service!Send(m) \/ Service!GiveUp(m) \/ Service!Reopen(m) \/ Service!Cancel(m)
               \/ Service!Confirm(m) \/ Service!Store(m) \/ Service!Hand(m)
      PROVE  Service!Next
  BY <1>m DEF Service!Next
<1>2. ASSUME NEW t \in Attempts, Attempt(t)
      PROVE  Service!Next \/ UNCHANGED <<fates, inbox, handled>>
  <2>t. t[1] \in Messages BY DEF Attempts
  <2>s. tasks[t].pc # "idle" => outbox[t[1]].status # "absent" BY <1>i DEF Owned
  <2>1. CASE Claim(t)
    <3>1. Fate(outbox'[t[1]].status) = "open" /\ Fate(outbox[t[1]].status) = "open"
      BY <1>i, <2>1, <2>t DEF Claim, Claimable, Fate, TypeOK
    <3>2. \A n \in Messages : n # t[1] => outbox'[n] = outbox[n]
      BY <1>i, <2>1, <2>t DEF Claim, TypeOK
    <3>3. QED BY <2>1, <3>1, <3>2, Stutters DEF Claim, receiving
  <2>2. CASE Refuse(t)
    <3>1. \/ UNCHANGED <<fates, inbox, handled>>
          \/ fates[t[1]] = "open" /\ fates' = [fates EXCEPT ![t[1]] = Fate("failed")]
      BY <1>i, <2>2, ConcludedFate DEF Refuse, receiving
    <3>2. CASE fates[t[1]] = "open" /\ fates' = [fates EXCEPT ![t[1]] = Fate("failed")]
      <4>1. Service!GiveUp(t[1])
        BY <2>2, <3>2 DEF Refuse, receiving, Service!GiveUp, Service!Moves, Fate, fates
      <4>2. QED BY <4>1, <2>t, <1>m
    <3>3. QED BY <3>1, <3>2
  <2>3. CASE Post(t)
    BY <2>3, Stutters DEF Post, receiving
  <2>4. CASE Conclude(t)
    <3>1. PICK outcome \in Outcomes(tasks[t].pc) :
            outbox' = Finished(t, Verdict(outcome, tasks[t].attempt))
      BY <2>4 DEF Conclude
    <3> DEFINE s == Verdict(outcome, tasks[t].attempt)
    <3>2. s \in {"acknowledged", "failed", "retry_scheduled", "dead_letter"} BY VerdictType
    <3>3. s = "acknowledged" => t[1] \in inbox
      BY <1>i, <3>1, VerdictType DEF Outcomes, Arrived
    <3>a. outbox' = Finished(t, s) BY <3>1
    <3> HIDE DEF s
    <3>4. \/ UNCHANGED <<fates, inbox, handled>>
          \/ fates[t[1]] = "open" /\ fates' = [fates EXCEPT ![t[1]] = Fate(s)]
      BY <1>i, <2>4, <3>a, <3>2, ConcludedFate DEF Conclude, receiving, Awaiting
    <3>5. UNCHANGED <<inbox, handled>> BY <2>4 DEF Conclude, receiving
    <3>6. ASSUME fates[t[1]] = "open", fates' = [fates EXCEPT ![t[1]] = Fate(s)]
          PROVE  Service!Next \/ UNCHANGED <<fates, inbox, handled>>
      <4>1. CASE s = "acknowledged"
        <5>1. Service!Confirm(t[1])
          BY <3>3, <3>5, <3>6, <4>1 DEF Service!Confirm, Service!Moves, Fate, fates
        <5>2. QED BY <5>1, <2>t, <1>m
      <4>2. CASE s \in {"failed", "dead_letter"}
        <5>1. Service!GiveUp(t[1])
          BY <3>5, <3>6, <4>2 DEF Service!GiveUp, Service!Moves, Fate, fates
        <5>2. QED BY <5>1, <2>t, <1>m
      <4>3. CASE s = "retry_scheduled"
        BY <3>5, <3>6, <4>3, <2>t DEF Fate, fates
      <4>4. QED BY <3>2, <4>1, <4>2, <4>3
    <3>7. QED BY <3>4, <3>6
  <2>5. CASE Fail(t)
    BY <2>5, Stutters DEF Fail, receiving
  <2>6. CASE Receive(t)
    BY <1>i, <1>m, <2>6, <2>t, <2>s, MeetServes DEF Receive
  <2>7. QED BY <1>2, <2>1, <2>2, <2>3, <2>4, <2>5, <2>6 DEF Attempt
<1>3. ASSUME NEW m \in Messages, PerMessage(m)
      PROVE  Service!Next \/ UNCHANGED <<fates, inbox, handled>>
  <2>u. /\ Unclaimed(outbox[m], "retry_scheduled").status = "retry_scheduled"
        /\ Unclaimed(outbox[m], "cancelled").status = "cancelled"
    BY <1>i, UnclaimedType DEF TypeOK, Statuses
  <2>1. CASE Create(m)
    <3>1. outbox'[m].status = "pending" /\ \A n \in Messages : n # m => outbox'[n] = outbox[n]
      BY <1>i, <2>1 DEF Create, TypeOK, Row
    <3>2. fates' = [fates EXCEPT ![m] = "open"] BY <3>1, OneFate DEF Fate
    <3>3. Service!Send(m)
      BY <2>1, <3>2 DEF Create, receiving, Service!Send, Service!Moves, Fate, fates
    <3>4. QED BY <3>3, <1>m
  <2>2. CASE RetryMessage(m)
    <3>1. outbox'[m].status = "retry_scheduled" /\ \A n \in Messages : n # m => outbox'[n] = outbox[n]
      BY <1>i, <2>2, <2>u DEF RetryMessage, TypeOK
    <3>2. fates' = [fates EXCEPT ![m] = "open"] BY <3>1, OneFate DEF Fate
    <3>3. Service!Reopen(m)
      BY <2>2, <3>2 DEF RetryMessage, receiving, Service!Reopen, Service!Moves, Fate, fates
    <3>4. QED BY <3>3, <1>m
  <2>3. CASE CancelMessage(m)
    <3>1. outbox'[m].status = "cancelled" /\ \A n \in Messages : n # m => outbox'[n] = outbox[n]
      BY <1>i, <2>3, <2>u DEF CancelMessage, TypeOK
    <3>2. fates' = [fates EXCEPT ![m] = "cancelled"] BY <3>1, OneFate DEF Fate
    <3>3. fates[m] \in {"open", "given_up"}
      BY <1>i, <2>3 DEF CancelMessage, TypeOK, Row, Statuses, Fate, fates
    <3>4. Service!Cancel(m)
      BY <2>3, <3>2, <3>3 DEF CancelMessage, receiving, Service!Cancel, Service!Moves, fates
    <3>5. QED BY <3>4, <1>m
  <2>4. CASE ReceiveLate(m)
    <3>1. outbox[m].status # "absent" BY <1>i, <2>4 DEF ReceiveLate, Arrived
    <3>2. QED BY <1>i, <1>m, <2>4, <3>1, MeetServes DEF ReceiveLate
  <2>5. CASE LeaseExpires(m)
    <3>1. \A n \in Messages : outbox'[n].status = outbox[n].status
      BY <1>i, <2>5 DEF LeaseExpires, TypeOK, Row
    <3>2. QED BY <2>5, <3>1, Stutters DEF LeaseExpires, receiving
  <2>6. CASE GrowOld(m)
    BY <2>6, Stutters DEF GrowOld, receiving
  <2>7. QED BY <1>3, <2>1, <2>2, <2>3, <2>4, <2>5, <2>6 DEF PerMessage
<1>4. CASE SetDeliverable
  BY <1>4, Stutters DEF SetDeliverable, receiving
<1>r. \A m \in Messages : Fate(Recovered[m].status) = Fate(outbox[m].status)
  BY <1>i, RecoveredRows DEF TypeOK, Fate
<1>5. CASE StartSender
  BY <1>5, <1>r, Stutters DEF StartSender, receiving
<1>6. CASE StopSender
  BY <1>6, Stutters DEF StopSender, receiving
<1>7. CASE SenderDown
  <2>1. \A m \in Messages : outbox'[m].status = Recovered[m].status
    BY <1>i, <1>7, RecoveredRows, OrphanedRows DEF SenderDown, TypeOK
  <2>2. QED BY <1>7, <1>r, <2>1, Stutters DEF SenderDown, receiving
<1>8. CASE CrashSender
  <2>1. \A m \in Messages : outbox'[m].status = outbox[m].status
    BY <1>i, <1>8, OrphanedRows DEF CrashSender, TypeOK
  <2>2. QED BY <1>8, <2>1, Stutters DEF CrashSender, receiving
<1>9. CASE HandOn
  <2>1. desk \in Messages /\ desk \in inbox /\ handled[desk] = 0
    BY <1>i, <1>9 DEF HandOn, Arrived, TypeOK
  <2>2. fates' = fates BY <1>9 DEF HandOn, fates
  <2>3. CASE handled' = handled BY <1>9, <2>2, <2>3 DEF HandOn
  <2>4. CASE handled' = [handled EXCEPT ![desk] = IF @ < 2 THEN @ + 1 ELSE @]
    <3>1. handled' = [handled EXCEPT ![desk] = 1] BY <1>i, <2>1, <2>4 DEF TypeOK
    <3>2. Service!Hand(desk) BY <1>9, <2>1, <2>2, <3>1 DEF HandOn, Service!Hand, fates
    <3>3. QED BY <2>1, <3>2, <1>m
  <2>5. QED BY <1>9, <2>3, <2>4 DEF HandOn
<1>10. CASE SetAccepting
  BY <1>10, Stutters DEF SetAccepting, sending
<1>11. CASE CrashReceiver
  BY <1>11, Stutters DEF CrashReceiver, sending
<1>12. CASE StartReceiver
  BY <1>12, Stutters DEF StartReceiver, sending
<1>13. QED
  BY <1>1, <1>2, <1>3, <1>4, <1>5, <1>6, <1>7, <1>8, <1>9, <1>10, <1>11, <1>12 DEF Next

\* The outbox, its claims and retries, the network and the inbox together keep
\* the promises of MessageService: nothing is acknowledged that is not stored,
\* nothing is handed on twice, an acknowledgement or a cancellation is final.
THEOREM ImplementsServiceHolds == Spec => ImplementsService
<1>1. Init => Service!Init BY DEF Init, Service!Init, NoRow, Fate
<1>2. IInv /\ [Next]_vars => [Service!Next]_<<fates, inbox, handled>> BY ServiceStep
<1>3. QED BY <1>1, <1>2, InvHolds, PTL DEF Spec, ImplementsService, Service!Spec, fates
===============================================================================
