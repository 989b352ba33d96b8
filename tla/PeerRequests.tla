----------------------------- MODULE PeerRequests -----------------------------
(***************************************************************************)
(* Requests that peers make of a node's coordinator (comms/service.py):    *)
(* an authenticated message that the transport has stored becomes at most  *)
(* one mission, and one that must be answered keeps its mission from       *)
(* completing until a reply is queued.                                     *)
(*                                                                         *)
(* Handlers share one event loop and none of these awaits suspends, so a   *)
(* handler that has begun is alone until it returns; but each commits      *)
(* several transactions, and the process may die between two of them.      *)
(* What a mission does in between is MissionExecution's; here it is open   *)
(* or has ended.                                                           *)
(***************************************************************************)
EXTENDS Integers, Sequences, FiniteSets

CONSTANTS
  Peers,       \* trusted peers
  Messages,    \* messages they send, each handed over once (MessageService)
  RequestIds,  \* application request ids
  SenderOf,    \* which peer sends a message,
  IdOf,        \* the request_id it carries,
  Wants,       \* and whether it sets expects_reply
  Flags,       \* permissions that an operator changes
  Cap,         \* max_concurrent_inbound_missions
  MaxReplies,  \* bound: replies that are queued
  None

Permissions == {"may_send_requests", "may_request_response", "may_receive_messages"}

ASSUME RequestAssumption ==
  /\ SenderOf \in [Messages -> Peers] /\ IdOf \in [Messages -> RequestIds]
  /\ Wants \in [Messages -> BOOLEAN] /\ Flags \subseteq Permissions
  /\ Cap \in Nat \ {0} /\ MaxReplies \in Nat /\ None \notin Messages

VARIABLES
  perm,     \* what each peer is authorized to do
  inbox,    \* application_state of each message's inbox row
  rows,     \* inbound_requests rows, by request id
  missions, \* the mission made for each message
  replies,  \* outbox rows of replies, oldest first
  loop      \* the handler that holds the event loop, and its next step

vars == <<perm, inbox, rows, missions, replies, loop>>

-------------------------------------------------------------------------------
Row == [state    : {"absent", "received", "mission_created", "responded"},
        message  : Messages \cup {None},
        required : BOOLEAN,
        response : 0 .. MaxReplies]   \* response_message_id: which reply, or none
NoRow == [state |-> "absent", message |-> None, required |-> FALSE, response |-> 0]

Refusals == {"invalid", "unauthorized", "collision", "rate_limited"}
Reply == [request : RequestIds, to : Peers]

Free == [do |-> "none", msg |-> None, reply |-> 0]
For(step, m) == [do |-> step, msg |-> m, reply |-> 0]

\* An operator has authorized the peers for everything.
Init ==
  /\ perm = [p \in Peers |-> Permissions]
  /\ inbox = [m \in Messages |-> "absent"]
  /\ rows = [q \in RequestIds |-> NoRow]
  /\ missions = [m \in Messages |-> "none"]
  /\ replies = <<>>
  /\ loop = Free

-------------------------------------------------------------------------------
(* An inbound message.                                                     *)

\* _store_and_ack commits the inbox row and calls on_inbound_stored.
Arrive(m) ==
  /\ loop = Free /\ inbox[m] = "absent"
  /\ inbox' = [inbox EXCEPT ![m] = "stored"]
  /\ loop' = For("parse", m)
  /\ UNCHANGED <<perm, rows, missions, replies>>

\* on_inbound_stored: what is no coordinator message stays as it is, what does
\* not parse is marked, an update is history, and a request goes on.
Parse(m) ==
  /\ loop = For("parse", m)
  /\ \/ /\ inbox' = inbox /\ loop' = Free
     \/ \E state \in {"invalid", "update_stored"} :
          inbox' = [inbox EXCEPT ![m] = state] /\ loop' = Free
     \/ inbox' = [inbox EXCEPT ![m] = "parsed"] /\ loop' = For("decide", m)
  /\ UNCHANGED <<perm, rows, missions, replies>>

May(p, flag) == flag \in perm[p]
RowFor(m) == rows[IdOf[m]]

TakenByMission(m) ==  \* mutant of Taken
  RowFor(m).state \in {"mission_created", "responded"}
\* Another message made the request's row; no two envelopes have the same hash.
Taken(m) == RowFor(m).state # "absent"

\* count_open_for_peer
OpenOf(p) == {q \in RequestIds :
  rows[q].state = "mission_created" /\ SenderOf[rows[q].message] = p}
Full(p) == Cardinality(OpenOf(p)) >= Cap

\* _process_request turns the message down: the first check that fails names why.
Refuse(m) ==
  /\ loop = For("decide", m)
  /\ \E why \in Refusals :
       /\ \/ why = "unauthorized" /\ ~May(SenderOf[m], "may_send_requests")
          \/ /\ May(SenderOf[m], "may_send_requests")
             /\ \/ why = "collision" /\ Taken(m)
                \/ why = "rate_limited" /\ ~Taken(m) /\ Full(SenderOf[m])
       /\ inbox' = [inbox EXCEPT ![m] = why]
  /\ loop' = Free
  /\ UNCHANGED <<perm, rows, missions, replies>>

\* _process_request accepts it: the request row is committed first,
Accept(m) ==
  /\ loop = For("decide", m)
  /\ May(SenderOf[m], "may_send_requests") /\ ~Taken(m) /\ ~Full(SenderOf[m])
  /\ rows' = [rows EXCEPT ![IdOf[m]] =
       [state |-> "received", message |-> m, response |-> 0,
        required |-> Wants[m] /\ May(SenderOf[m], "may_request_response")]]
  /\ loop' = For("create", m)
  /\ UNCHANGED <<perm, inbox, missions, replies>>

\* then the mission,
CreateMission(m) ==
  /\ loop = For("create", m)
  /\ missions' = [missions EXCEPT ![m] = "received"]
  /\ loop' = For("link", m)
  /\ UNCHANGED <<perm, inbox, rows, replies>>

\* then the row again, whatever its state,
Link(m) ==
  /\ loop = For("link", m)
  /\ rows' = [rows EXCEPT ![IdOf[m]].state = "mission_created"]
  /\ loop' = For("note", m)
  /\ UNCHANGED <<perm, inbox, missions, replies>>

\* then the inbox row,
Note(m) ==
  /\ loop = For("note", m)
  /\ inbox' = [inbox EXCEPT ![m] = "mission_created"]
  /\ loop' = For("enqueue", m)
  /\ UNCHANGED <<perm, rows, missions, replies>>

\* and last the mission is queued.
Enqueue(m) ==
  /\ loop = For("enqueue", m)
  /\ missions' = [missions EXCEPT ![m] = "open"]
  /\ loop' = Free
  /\ UNCHANGED <<perm, inbox, rows, replies>>

-------------------------------------------------------------------------------
(* Missions, replies, operators.                                           *)

Moves(m, from, to) ==
  /\ loop = Free /\ missions[m] = from
  /\ missions' = [missions EXCEPT ![m] = to]
  /\ UNCHANGED <<perm, inbox, rows, replies, loop>>

UnmetWhileOpen(m) ==  \* mutant of Unmet
  RowFor(m).required /\ RowFor(m).state = "mission_created"
\* response_obligation_unmet
Unmet(m) == RowFor(m).required /\ RowFor(m).response = 0

\* An operator starts a mission that was never queued, or retries a failed or
\* blocked one.
Start(m)    == Moves(m, "received", "open")
Retry(m)    == Moves(m, "failed", "open")
Complete(m) == ~Unmet(m) /\ Moves(m, "open", "completed")
Fail(m)     == Moves(m, "open", "failed")
Cancel(m)   == Moves(m, "open", "cancelled")

\* queue_peer_message, for a coordinator or an operator: both choose the request
\* that they answer and the peer.  The outbox row is committed first,
QueueReply(q, p) ==
  /\ loop = Free /\ Len(replies) < MaxReplies
  /\ May(p, "may_receive_messages")
  /\ replies' = Append(replies, [request |-> q, to |-> p])
  /\ loop' = [do |-> "respond", msg |-> None, reply |-> Len(replies) + 1]
  /\ UNCHANGED <<perm, inbox, rows, missions>>

UnansweredOrUnknown(q) == rows[q].response = 0  \* mutant of Unanswered: no `record is not None'
Unanswered(q) == rows[q].state # "absent" /\ rows[q].response = 0

\* and then the request is marked, by its first reply (_mark_inbound_responded).
MarkResponded ==
  /\ loop.do = "respond"
  /\ LET q == replies[loop.reply].request IN
     rows' = IF Unanswered(q)
             THEN [rows EXCEPT ![q].state = "responded", ![q].response = loop.reply]
             ELSE rows
  /\ loop' = Free
  /\ UNCHANGED <<perm, inbox, missions, replies>>

\* set_peer_permissions
SetPermissions(p, flag) ==
  /\ loop = Free
  /\ perm' = [perm EXCEPT ![p] = IF flag \in @ THEN @ \ {flag} ELSE @ \cup {flag}]
  /\ UNCHANGED <<inbox, rows, missions, replies, loop>>

\* The process dies within a handler.  Nothing resumes the handler: recover()
\* looks at reply waits only.
Crash ==
  /\ loop # Free
  /\ loop' = Free
  /\ UNCHANGED <<perm, inbox, rows, missions, replies>>

-------------------------------------------------------------------------------
Handle(m) ==
  \/ Arrive(m) \/ Parse(m) \/ Refuse(m) \/ Accept(m)
  \/ CreateMission(m) \/ Link(m) \/ Note(m) \/ Enqueue(m)
Lives(m) == Start(m) \/ Retry(m) \/ Complete(m) \/ Fail(m) \/ Cancel(m)

Next ==
  \/ \E m \in Messages : Handle(m) \/ Lives(m)
  \/ \E q \in RequestIds, p \in Peers : QueueReply(q, p)
  \/ MarkResponded
  \/ \E p \in Peers, flag \in Flags : SetPermissions(p, flag)
  \/ Crash

Spec == Init /\ [][Next]_vars

-------------------------------------------------------------------------------
(* Properties.                                                             *)

TypeOK ==
  /\ perm \in [Peers -> SUBSET Permissions]
  /\ inbox \in [Messages -> Refusals \cup
       {"absent", "stored", "update_stored", "parsed", "mission_created"}]
  /\ rows \in [RequestIds -> Row]
  /\ \A q \in RequestIds : rows[q].message = None <=> rows[q].state = "absent"
  /\ missions \in [Messages -> {"none", "received", "open", "completed", "failed", "cancelled"}]
  /\ replies \in Seq(Reply) /\ Len(replies) <= MaxReplies
  /\ \/ loop = Free
     \/ \E step \in {"parse", "decide", "create", "link", "note", "enqueue"},
           m \in Messages : loop = For(step, m)
     \/ \E k \in 1 .. Len(replies) : loop = [do |-> "respond", msg |-> None, reply |-> k]

\* "Guarantees one inbound request id from one peer creates at most one mission"
\* (models.py), also when a handler died half-way and the id arrives again: every
\* mission is that of the message its request's row was created for.
OneMission ==
  \A m \in Messages : missions[m] # "none" => RowFor(m).message = m

\* A mission that has to answer completes only when a reply to its request is in
\* the outbox, whatever crashes, retries and replies to other requests came before.
CompletedMeansAnswered ==
  \A m \in Messages :
    missions[m] = "completed" /\ RowFor(m).required =>
      \E k \in 1 .. Len(replies) : replies[k].request = IdOf[m]

\* The cap is on "open inbound-request missions per peer": a peer is turned away
\* only while so many of its missions have not ended.  The count takes every
\* request without a reply as open, also when its mission has ended.
RefusedOnlyWhenFull ==
  [][\A m \in Messages :
       inbox[m] # "rate_limited" /\ inbox'[m] = "rate_limited" =>
         Cardinality({n \in Messages : SenderOf[n] = SenderOf[m]
                                       /\ missions[n] \in {"received", "open"}}) >= Cap]_vars

\* "Open inbound requests survive a restart": once no handler runs, an accepted
\* request has its mission, and the mission has been queued.
RequestSurvives ==
  loop = Free => \A q \in RequestIds :
    rows[q].state # "absent" => missions[rows[q].message] \notin {"none", "received"}

\* "Nothing is double-sent": when the handler that queued a reply is over, the
\* request it answers is marked, so that its mission is not told to answer again.
ReplyRemembered ==
  [][loop.do = "respond" =>
       LET q == replies[loop.reply].request IN
       rows[q].state # "absent" => rows'[q].response # 0]_vars
===============================================================================
