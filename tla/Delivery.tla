------------------------------- MODULE Delivery -------------------------------
(***************************************************************************)
(* Delivery of signed messages from one node to a peer: the outbox, its    *)
(* claims and the delivery worker of the sender (transport/service.py,     *)
(* transport/worker.py), the network, and the inbox of the receiver.       *)
(*                                                                         *)
(* The sender's coroutines share one event loop and suspend only while a   *)
(* request is out, so the outcome of an attempt is concluded in one        *)
(* transaction.  A worker task is created when its record is claimed and   *)
(* begins later, when the loop comes to it; send_now goes from its claim   *)
(* straight to its request, with a commit in between.                      *)
(***************************************************************************)
EXTENDS Naturals, FiniteSets

CONSTANTS
  Messages,     \* outbox records, by their immutable message id
  MaxAttempts,  \* max_attempts of a record
  WorkerCount,  \* worker_count: deliveries of the worker at a time
  MaxLate,      \* bound: requests per message whose sender no longer waits
  Faults,       \* what may befall: "stop", "crash", "receiver", "task"
  None          \* no message at the receiver's desk

ASSUME DeliveryAssumption ==
  /\ MaxAttempts \in Nat \ {0} /\ WorkerCount \in Nat \ {0} /\ MaxLate \in Nat
  /\ Faults \subseteq {"stop", "crash", "receiver", "task"}
  /\ None \notin Messages

VARIABLES
  outbox,       \* agent_outbox_messages rows
  age,          \* of each envelope: "stale" is expired beyond the accepted skew
  deliverable,  \* the sender's peer row is enabled and not revoked
  tasks,        \* in-memory: attempts of the worker and of send_now calls
  sender,       \* phase of the sender's process
  late,         \* requests on the wire whose sender gave up waiting
  inbox,        \* messages with an agent_inbox_messages row
  handled,      \* how often each was given to the application (up to 2)
  desk,         \* in-memory: the request the receiver has stored, not yet handed on
  accepting,    \* the receiver's peer row is trusted and enabled
  receiver      \* phase of the receiver's process

sending   == <<outbox, age, deliverable, tasks, sender>>
receiving == <<inbox, handled, desk, accepting, receiver>>
vars == <<outbox, age, deliverable, tasks, sender, late,
          inbox, handled, desk, accepting, receiver>>

-------------------------------------------------------------------------------
(* Rows and attempts.                                                      *)

Owners   == {"worker", "send_now"}
Attempts == Messages \X Owners
Statuses == {"absent", "pending", "in_flight", "retry_scheduled",
             "acknowledged", "failed", "dead_letter", "cancelled"}

\* attempts is attempt_count: it is only compared with max_attempts, where it stops.
Row  == [status : Statuses, owner : Owners \cup {"none", "dead"},
         lease : {"none", "live", "expired"}, attempts : 0 .. MaxAttempts]

\* A request is posted, then being served (stored, not handed on), then answered.
Awaiting == {"posted", "serving", "accepted", "refused"}
Task == [pc : {"idle", "claimed"} \cup Awaiting, attempt : 0 .. MaxAttempts]
Idle == [pc |-> "idle", attempt |-> 0]

NoRow == [status |-> "absent", owner |-> "none", lease |-> "none", attempts |-> 0]
UnclaimedToNull(row, status) ==  \* mutant of Unclaimed: the wrong absent value
  [row EXCEPT !.status = status, !.owner = None, !.lease = "none"]
Unclaimed(row, status) == [row EXCEPT !.status = status, !.owner = "none", !.lease = "none"]

\* send_now does not suspend between its claim and its request.
LoopFree == \A m \in Messages : tasks[<<m, "send_now">>].pc # "claimed"
Running  == sender \in {"up", "stopping"}

\* The requests of `lost' attempts may still arrive after nobody waits for them.
BecomesLate(lost) ==
  \E arrives \in SUBSET {m \in Messages : \E t \in lost : t[1] = m /\ tasks[t].pc = "posted"} :
    late' = [m \in Messages |->
               IF m \in arrives /\ late[m] < MaxLate THEN late[m] + 1 ELSE late[m]]

-------------------------------------------------------------------------------
(* Creating and claiming.                                                  *)

Create(m) ==
  /\ Running /\ LoopFree /\ deliverable /\ outbox[m].status = "absent"
  /\ outbox' = [outbox EXCEPT ![m].status = "pending"]
  /\ UNCHANGED <<age, deliverable, tasks, sender, late, receiving>>

ClaimableInFlight(row) ==  \* mutant of Claimable: the status filter is forgotten
  row.status \in {"pending", "retry_scheduled", "in_flight"}
\* The WHERE clause of claim(); its due time has come whenever it is evaluated.
Claimable(row) ==
  /\ row.status \in {"pending", "retry_scheduled"}
  /\ row.owner = "none" \/ row.lease = "expired"

\* One conditional UPDATE claims the record and counts the attempt.
Claim(t) ==
  /\ sender = "up" /\ LoopFree
  /\ Claimable(outbox[t[1]]) /\ tasks[t].pc = "idle"
  /\ t[2] = "worker" =>
       Cardinality({m \in Messages : tasks[<<m, "worker">>].pc # "idle"}) < WorkerCount
  /\ outbox' = [outbox EXCEPT ![t[1]] =
       [status |-> "in_flight", owner |-> t[2], lease |-> "live",
        attempts |-> IF @.attempts < MaxAttempts THEN @.attempts + 1 ELSE @.attempts]]
  /\ tasks' = [tasks EXCEPT ![t].pc = "claimed"]
  /\ UNCHANGED <<age, deliverable, sender, late, receiving>>

-------------------------------------------------------------------------------
(* One attempt (deliver_record).                                           *)

\* release_and_update: only the holder of the claim writes the outcome.
FinishedByAnyone(t, status) ==  \* mutant of Finished: the owner is not checked
  [outbox EXCEPT ![t[1]] = Unclaimed(@, status)]
Finished(t, status) ==
  [outbox EXCEPT ![t[1]] = IF @.owner = t[2] THEN Unclaimed(@, status) ELSE @]

\* Whoever may go on: a send_now call between claim and request, or anyone else.
HasLoop(t) == Running /\ (LoopFree \/ (t[2] = "send_now" /\ tasks[t].pc = "claimed"))

Refuse(t) ==
  /\ HasLoop(t) /\ tasks[t].pc = "claimed"
  /\ age[t[1]] # "fresh" \/ ~deliverable
  /\ outbox' = Finished(t, "failed")
  /\ tasks' = [tasks EXCEPT ![t] = Idle]
  /\ UNCHANGED <<age, deliverable, sender, late, receiving>>

Post(t) ==
  /\ HasLoop(t) /\ tasks[t].pc = "claimed"
  /\ age[t[1]] = "fresh" /\ deliverable
  /\ tasks' = [tasks EXCEPT ![t] = [pc |-> "posted", attempt |-> outbox[t[1]].attempts]]
  /\ UNCHANGED <<outbox, age, deliverable, sender, late, receiving>>

\* What the sender learns: the signed acknowledgement, a permanent or a
\* retryable error, or a response that is no valid acknowledgement.  An answer
\* may be lost, and a gateway may answer in the peer's place.
Outcomes(pc) ==
  CASE pc = "accepted" -> {"accepted", "retryable"}
    [] pc = "refused"  -> {"permanent", "retryable"}
    [] OTHER           -> {"retryable", "permanent", "invalid_ack"}

VerdictRetriesForever(outcome, attempt) ==  \* mutant of Verdict: no dead letter
  CASE outcome = "accepted"  -> "acknowledged"
    [] outcome = "permanent" -> "failed"
    [] OTHER                 -> "retry_scheduled"
Verdict(outcome, attempt) ==
  CASE outcome = "accepted"  -> "acknowledged"
    [] outcome = "permanent" -> "failed"
    [] attempt < MaxAttempts -> "retry_scheduled"
    [] OTHER                 -> "dead_letter"

Conclude(t) ==
  /\ HasLoop(t) /\ tasks[t].pc \in Awaiting
  /\ \E outcome \in Outcomes(tasks[t].pc) :
       outbox' = Finished(t, Verdict(outcome, tasks[t].attempt))
  /\ BecomesLate({t})
  /\ tasks' = [tasks EXCEPT ![t] = Idle]
  /\ UNCHANGED <<age, deliverable, sender, receiving>>

\* An unexpected exception ends the attempt and leaves the record in flight.
Fail(t) ==
  /\ "task" \in Faults /\ HasLoop(t) /\ tasks[t].pc # "idle"
  /\ BecomesLate({t})
  /\ tasks' = [tasks EXCEPT ![t] = Idle]
  /\ UNCHANGED <<outbox, age, deliverable, sender, receiving>>

-------------------------------------------------------------------------------
(* Operators of the sender.                                                *)

RetryMessage(m) ==
  /\ sender = "up" /\ LoopFree
  /\ outbox[m].status \in {"failed", "dead_letter"}
  /\ outbox' = [outbox EXCEPT ![m] = Unclaimed(@, "retry_scheduled")]
  /\ UNCHANGED <<age, deliverable, tasks, sender, late, receiving>>

CancelMessage(m) ==
  /\ sender = "up" /\ LoopFree
  /\ outbox[m].status \notin {"absent", "acknowledged", "cancelled"}
  /\ outbox' = [outbox EXCEPT ![m] = Unclaimed(@, "cancelled")]
  /\ UNCHANGED <<age, deliverable, tasks, sender, late, receiving>>

\* trust_peer, revoke_peer and set_peer_enabled.
SetDeliverable ==
  /\ sender = "up" /\ LoopFree
  /\ deliverable' = ~deliverable
  /\ UNCHANGED <<outbox, age, tasks, sender, late, receiving>>

-------------------------------------------------------------------------------
(* Restarts of the sender.                                                 *)

\* recover_expired_claims, at the start and at the end of the worker's life.
Recovered ==
  [m \in Messages |-> IF outbox[m].status = "in_flight" /\ outbox[m].lease = "expired"
                      THEN Unclaimed(outbox[m], "retry_scheduled") ELSE outbox[m]]
\* What outlives the process keeps the name of an owner that is gone.
Orphaned(rows) ==
  [m \in Messages |-> IF rows[m].owner = "none" THEN rows[m] ELSE [rows[m] EXCEPT !.owner = "dead"]]
NoTasks == [t \in Attempts |-> Idle]

StartSender ==
  /\ sender = "down"
  /\ outbox' = Recovered /\ sender' = "up"
  /\ UNCHANGED <<age, deliverable, tasks, late, receiving>>

\* The server has drained its requests when the worker is told to stop.
StopSender ==
  /\ "stop" \in Faults /\ sender = "up"
  /\ \A m \in Messages : tasks[<<m, "send_now">>] = Idle
  /\ sender' = "stopping"
  /\ UNCHANGED <<outbox, age, deliverable, tasks, late, receiving>>

\* After the grace period the attempts that are left are cancelled.
SenderDown ==
  /\ sender = "stopping"
  /\ outbox' = Orphaned(Recovered)
  /\ BecomesLate(Attempts) /\ tasks' = NoTasks /\ sender' = "down"
  /\ UNCHANGED <<age, deliverable, receiving>>

CrashSender ==
  /\ "crash" \in Faults /\ Running
  /\ outbox' = Orphaned(outbox)
  /\ BecomesLate(Attempts) /\ tasks' = NoTasks /\ sender' = "down"
  /\ UNCHANGED <<age, deliverable, receiving>>

-------------------------------------------------------------------------------
(* The receiver (handle_inbound, _store_and_ack).                          *)

\* How a request for m is met: refused (trust, signature, age), answered again
\* when it is a duplicate, or stored and then served.
Response(m) ==
  CASE ~accepting \/ age[m] = "stale" -> "refused"
    [] accepting /\ age[m] # "stale" /\ m \in inbox -> "accepted"
    [] OTHER -> "serving"

Meet(m) ==
  /\ receiver = "up" /\ desk = None
  /\ IF Response(m) = "serving" THEN inbox' = inbox \cup {m} /\ desk' = m
                                ELSE UNCHANGED <<inbox, desk>>
  /\ UNCHANGED <<outbox, age, deliverable, sender, handled, accepting, receiver>>

Receive(t) ==
  /\ tasks[t].pc = "posted" /\ Meet(t[1])
  /\ tasks' = [tasks EXCEPT ![t].pc = Response(t[1])]
  /\ UNCHANGED late

\* The answer to a late request is lost.
ReceiveLate(m) ==
  /\ late[m] > 0 /\ Meet(m)
  /\ late' = [late EXCEPT ![m] = @ - 1]
  /\ UNCHANGED tasks

\* A stored message is handed to the application, which may raise; then the
\* acknowledgement is returned.
HandOn ==
  /\ desk # None
  /\ handled' \in {handled, [handled EXCEPT ![desk] = IF @ < 2 THEN @ + 1 ELSE @]}
  /\ tasks' = [t \in Attempts |-> IF t[1] = desk /\ tasks[t].pc = "serving"
                                  THEN [tasks[t] EXCEPT !.pc = "accepted"] ELSE tasks[t]]
  /\ desk' = None
  /\ UNCHANGED <<outbox, age, deliverable, sender, late, inbox, accepting, receiver>>

SetAccepting ==
  /\ receiver = "up" /\ desk = None
  /\ accepting' = ~accepting
  /\ UNCHANGED <<sending, late, inbox, handled, desk, receiver>>

\* A crash keeps the inbox row and forgets that the message was to be handed on.
CrashReceiver ==
  /\ "receiver" \in Faults /\ receiver = "up"
  /\ receiver' = "down" /\ desk' = None
  /\ UNCHANGED <<sending, late, inbox, handled, accepting>>

StartReceiver ==
  /\ receiver = "down"
  /\ receiver' = "up"
  /\ UNCHANGED <<sending, late, inbox, handled, desk, accepting>>

-------------------------------------------------------------------------------
(* Time.                                                                   *)

LeaseExpires(m) ==
  /\ outbox[m].lease = "live"
  /\ outbox' = [outbox EXCEPT ![m].lease = "expired"]
  /\ UNCHANGED <<age, deliverable, tasks, sender, late, receiving>>

GrowOld(m) ==
  /\ outbox[m].status # "absent" /\ age[m] # "stale"
  /\ age' = [age EXCEPT ![m] = IF @ = "fresh" THEN "expired" ELSE "stale"]
  /\ UNCHANGED <<outbox, deliverable, tasks, sender, late, receiving>>

-------------------------------------------------------------------------------
Init ==
  /\ outbox = [m \in Messages |-> NoRow]
  /\ age = [m \in Messages |-> "fresh"]
  /\ deliverable = TRUE /\ accepting = TRUE
  /\ tasks = NoTasks
  /\ sender = "up" /\ receiver = "up"
  /\ late = [m \in Messages |-> 0]
  /\ inbox = {} /\ handled = [m \in Messages |-> 0] /\ desk = None

Attempt(t) == Claim(t) \/ Refuse(t) \/ Post(t) \/ Conclude(t) \/ Fail(t) \/ Receive(t)
PerMessage(m) ==
  Create(m) \/ RetryMessage(m) \/ CancelMessage(m) \/ ReceiveLate(m) \/ LeaseExpires(m) \/ GrowOld(m)
Next ==
  \/ \E t \in Attempts : Attempt(t)
  \/ \E m \in Messages : PerMessage(m)
  \/ SetDeliverable \/ StartSender \/ StopSender \/ SenderDown \/ CrashSender
  \/ HandOn \/ SetAccepting \/ CrashReceiver \/ StartReceiver

Spec == Init /\ [][Next]_vars

\* The poll loop comes round and takes due records in the order they are due, and
\* a task's awaits end by a timeout; other coroutines only hold the loop for a
\* moment.  A shutdown lasts no longer than its grace period.
Fairness ==
  /\ \A m \in Messages : SF_vars(Claim(<<m, "worker">>))
  /\ \A t \in Attempts : SF_vars(Refuse(t) \/ Post(t) \/ Conclude(t))
  /\ WF_vars(SenderDown) /\ WF_vars(HandOn)
FairSpec == Spec /\ Fairness

TypeOK ==
  /\ outbox \in [Messages -> Row]
  /\ age \in [Messages -> {"fresh", "expired", "stale"}]
  /\ deliverable \in BOOLEAN /\ accepting \in BOOLEAN
  /\ tasks \in [Attempts -> Task]
  /\ sender \in {"up", "stopping", "down"} /\ receiver \in {"up", "down"}
  /\ late \in [Messages -> 0 .. MaxLate]
  /\ inbox \subseteq Messages
  /\ handled \in [Messages -> 0 .. 2]
  /\ desk \in Messages \cup {None}

-------------------------------------------------------------------------------
(* Properties.                                                             *)

\* One delivery of a record is under way at a time, whether the worker, a
\* send_now call, a retry or a recovery started it ("a DB-backed claim lease
\* lets one delivery worker own a record at a time").
OneAttempt ==
  \A t, u \in Attempts :
    t[1] = u[1] /\ tasks[t].pc # "idle" /\ tasks[u].pc # "idle" => t = u

\* The two nodes implement the message service: acknowledged messages are in
\* the receiver's inbox, each is handed on at most once, and neither a late
\* attempt, a retry nor a recovery moves an acknowledged or cancelled record.
Fate(status) ==
  CASE status = "absent" -> "unsent"
    [] status \in {"pending", "in_flight", "retry_scheduled"} -> "open"
    [] status \in {"failed", "dead_letter"} -> "given_up"
    [] OTHER -> status
Service == INSTANCE MessageService WITH
  fate <- [m \in Messages |-> Fate(outbox[m].status)], stored <- inbox, handed <- handled
ImplementsService == Service!Spec

\* A message comes to an end, by an acknowledgement, an error or its last
\* attempt, once the sender stays up: unless it is in flight with nobody
\* delivering it (see ClaimReleased).
Open(m) == Fate(outbox[m].status) = "open"
Abandoned(m) ==
  outbox[m].status = "in_flight" /\ \A o \in Owners : tasks[<<m, o>>].pc = "idle"
MessageSettles ==
  <>[](sender = "up") => \A m \in Messages : Open(m) ~> (~Open(m) \/ Abandoned(m))

\* No record stays claimed for ever once the sender stays up ("reset now so
\* nothing is left claimed indefinitely").
ClaimReleased ==
  <>[](sender = "up") =>
    \A m \in Messages : outbox[m].status = "in_flight" ~> outbox[m].status # "in_flight"
===============================================================================
