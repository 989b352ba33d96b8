------------------------- MODULE PeerRequests_proofs -------------------------
(***************************************************************************)
(* Proofs about PeerRequests for any peers, messages, request ids, cap and *)
(* number of replies: its types, that a request makes one mission, and     *)
(* that a mission which has to answer completes only when it has.          *)
(***************************************************************************)
EXTENDS PeerRequests, TLAPS

USE RequestAssumption

-------------------------------------------------------------------------------
(* Types.                                                                  *)

LEMMA InitType == Init => TypeOK
<1> SUFFICES ASSUME Init PROVE TypeOK
  OBVIOUS
<1>1. NoRow \in Row
  BY DEF NoRow, Row
<1>2. rows \in [RequestIds -> Row] /\ \A q \in RequestIds : rows[q] = NoRow
  BY <1>1 DEF Init
<1>3. \A q \in RequestIds : rows[q].message = None <=> rows[q].state = "absent"
  BY <1>2 DEF NoRow
<1>4. replies \in Seq(Reply) /\ Len(replies) <= MaxReplies
  BY DEF Init
<1>5. QED BY <1>2, <1>3, <1>4 DEF Init, TypeOK, Permissions

\* Rewriting one row keeps the type of the others.
LEMMA RowUpdate ==
  ASSUME TypeOK, NEW q \in RequestIds, NEW row \in Row,
         row.message = None <=> row.state = "absent"
  PROVE  LET new == [rows EXCEPT ![q] = row] IN
         /\ new \in [RequestIds -> Row]
         /\ \A r \in RequestIds : new[r].message = None <=> new[r].state = "absent"
BY DEF TypeOK

LEMMA ArriveType == ASSUME TypeOK, NEW m \in Messages, Arrive(m) PROVE TypeOK'
BY SMTT(30) DEF TypeOK, Arrive, For

LEMMA ParseType == ASSUME TypeOK, NEW m \in Messages, Parse(m) PROVE TypeOK'
<1>1. inbox' \in [Messages -> Refusals \cup
        {"absent", "stored", "update_stored", "parsed", "mission_created"}]
  BY DEF TypeOK, Parse, Refusals
<1>2. loop' = Free \/ loop' = For("decide", m)
  BY DEF Parse
<1>3. QED BY <1>1, <1>2 DEF TypeOK, Parse

LEMMA RefuseType == ASSUME TypeOK, NEW m \in Messages, Refuse(m) PROVE TypeOK'
<1>1. inbox' \in [Messages -> Refusals \cup
        {"absent", "stored", "update_stored", "parsed", "mission_created"}]
  BY DEF TypeOK, Refuse
<1>2. QED BY <1>1 DEF TypeOK, Refuse

LEMMA AcceptType == ASSUME TypeOK, NEW m \in Messages, Accept(m) PROVE TypeOK'
<1> DEFINE row == [state |-> "received", message |-> m, response |-> 0,
                   required |-> Wants[m] /\ May(SenderOf[m], "may_request_response")]
<1>1. row \in Row /\ row.message # None /\ row.state # "absent" /\ IdOf[m] \in RequestIds
  BY DEF Row, May, TypeOK
<1>2. rows' = [rows EXCEPT ![IdOf[m]] = row]
  BY DEF Accept
<1>3. /\ rows' \in [RequestIds -> Row]
      /\ \A q \in RequestIds : rows'[q].message = None <=> rows'[q].state = "absent"
  BY <1>1, <1>2, RowUpdate
<1>4. loop' = For("create", m)
  BY DEF Accept
<1>5. QED BY <1>3, <1>4 DEF TypeOK, Accept

LEMMA CreateType == ASSUME TypeOK, NEW m \in Messages, CreateMission(m) PROVE TypeOK'
<1>1. loop' = For("link", m)
  BY DEF CreateMission
<1>2. missions' \in [Messages -> {"none", "received", "open", "completed", "failed", "cancelled"}]
  BY DEF TypeOK, CreateMission
<1>3. QED BY <1>1, <1>2 DEF TypeOK, CreateMission

\* A handler past its first commit works on the row that it made.
Owns == \A m \in Messages :
  loop \in {For(step, m) : step \in {"create", "link", "note", "enqueue"}} =>
    RowFor(m).message = m

LEMMA LinkType == ASSUME TypeOK, Owns, NEW m \in Messages, Link(m) PROVE TypeOK'
<1> DEFINE q == IdOf[m]
           row == [rows[q] EXCEPT !.state = "mission_created"]
<1>1. q \in RequestIds /\ rows[q] \in Row /\ rows[q].message = m
  BY DEF TypeOK, Link, Owns, RowFor
<1>2. row \in Row /\ row.message # None /\ row.state # "absent"
  BY <1>1 DEF Row
<1>3. rows' = [rows EXCEPT ![q] = row]
  BY DEF Link
<1> HIDE DEF row
<1>4. /\ rows' \in [RequestIds -> Row]
      /\ \A r \in RequestIds : rows'[r].message = None <=> rows'[r].state = "absent"
  BY <1>1, <1>2, <1>3, RowUpdate
<1>5. loop' = For("note", m)
  BY DEF Link
<1>6. QED BY <1>4, <1>5 DEF TypeOK, Link

LEMMA NoteType == ASSUME TypeOK, NEW m \in Messages, Note(m) PROVE TypeOK'
<1>1. loop' = For("enqueue", m)
  BY DEF Note
<1>2. inbox' \in [Messages -> Refusals \cup
        {"absent", "stored", "update_stored", "parsed", "mission_created"}]
  BY DEF TypeOK, Note
<1>3. QED BY <1>1, <1>2 DEF TypeOK, Note

LEMMA EnqueueType == ASSUME TypeOK, NEW m \in Messages, Enqueue(m) PROVE TypeOK'
BY DEF TypeOK, Enqueue

LEMMA LivesType == ASSUME TypeOK, NEW m \in Messages, Lives(m) PROVE TypeOK'
<1>1. PICK to \in {"open", "completed", "failed", "cancelled"} :
        missions' = [missions EXCEPT ![m] = to]
  BY DEF Lives, Start, Retry, Complete, Fail, Cancel, Moves
<1>2. UNCHANGED <<perm, inbox, rows, replies, loop>>
  BY DEF Lives, Start, Retry, Complete, Fail, Cancel, Moves
<1>3. missions' \in [Messages -> {"none", "received", "open", "completed", "failed", "cancelled"}]
  BY <1>1 DEF TypeOK
<1>4. QED BY <1>2, <1>3 DEF TypeOK

LEMMA QueueType ==
  ASSUME TypeOK, NEW q \in RequestIds, NEW p \in Peers, QueueReply(q, p) PROVE TypeOK'
<1>1. [request |-> q, to |-> p] \in Reply
  BY DEF Reply
<1>2. /\ replies' \in Seq(Reply) /\ Len(replies') = Len(replies) + 1
      /\ Len(replies') \in Nat /\ Len(replies') <= MaxReplies
  BY <1>1 DEF TypeOK, QueueReply
<1>3. \E k \in 1 .. Len(replies') : loop' = [do |-> "respond", msg |-> None, reply |-> k]
  BY <1>2 DEF QueueReply
<1>4. QED BY <1>2, <1>3 DEF TypeOK, QueueReply

\* The reply that is being recorded is one of those queued.
LEMMA Recorded ==
  ASSUME TypeOK, MarkResponded
  PROVE  loop.reply \in 1 .. Len(replies) /\ replies[loop.reply].request \in RequestIds
<1>1. PICK k \in 1 .. Len(replies) : loop = [do |-> "respond", msg |-> None, reply |-> k]
  BY DEF TypeOK, MarkResponded, For, Free
<1>2. replies[k] \in Reply
  BY <1>1 DEF TypeOK
<1>3. QED BY <1>1, <1>2 DEF Reply

LEMMA MarkType == ASSUME TypeOK, MarkResponded PROVE TypeOK'
<1> DEFINE q == replies[loop.reply].request
           row == [rows[q] EXCEPT !.state = "responded", !.response = loop.reply]
<1>1. q \in RequestIds /\ loop.reply \in 1 .. Len(replies)
  BY Recorded
<1>2. CASE Unanswered(q)
  <2>1. loop.reply \in 0 .. MaxReplies /\ rows[q] \in Row
    BY <1>1 DEF TypeOK
  <2>2. row \in Row /\ row.message = rows[q].message /\ row.state # "absent"
    BY <2>1 DEF Row
  <2>3. row.message # None
    BY <1>1, <1>2, <2>2 DEF TypeOK, Unanswered
  <2>4. rows' = [rows EXCEPT ![q] = row]
    BY <1>2 DEF MarkResponded, Unanswered
  <2> HIDE DEF row
  <2>5. /\ rows' \in [RequestIds -> Row]
        /\ \A r \in RequestIds : rows'[r].message = None <=> rows'[r].state = "absent"
    BY <1>1, <2>2, <2>3, <2>4, RowUpdate
  <2>6. QED BY <2>5 DEF TypeOK, MarkResponded
<1>3. CASE ~Unanswered(q)
  BY <1>3 DEF TypeOK, MarkResponded, Unanswered
<1>4. QED BY <1>2, <1>3

LEMMA PermissionsType ==
  ASSUME TypeOK, NEW p \in Peers, NEW flag \in Flags, SetPermissions(p, flag) PROVE TypeOK'
<1>1. perm' \in [Peers -> SUBSET Permissions]
  BY DEF TypeOK, SetPermissions
<1>2. QED BY <1>1 DEF TypeOK, SetPermissions

LEMMA CrashType == ASSUME TypeOK, Crash PROVE TypeOK'
BY DEF TypeOK, Crash

LEMMA StutterType == ASSUME TypeOK, UNCHANGED vars PROVE TypeOK'
BY DEF TypeOK, vars
-------------------------------------------------------------------------------
(* One mission for a request, and one reply that pays for it.              *)

\* The reply a row names is queued and answers that request.
Paid == \A q \in RequestIds :
  rows[q].response # 0 =>
    rows[q].response \in 1 .. Len(replies) /\ replies[rows[q].response].request = q

\* A completed mission that had to answer finds its reply in the row.
Settled == \A m \in Messages :
  missions[m] = "completed" /\ RowFor(m).required => RowFor(m).response # 0

IInv == TypeOK /\ OneMission /\ Owns /\ Paid /\ Settled

\* What a step may do to the rows: make one for a request that has none, or
\* change its state, or name a reply in one that names none.
Kept(q) ==
  /\ rows'[q].message = rows[q].message /\ rows'[q].required = rows[q].required
  /\ rows'[q].response = rows[q].response

LEMMA InitInv == Init => IInv
<1> SUFFICES ASSUME Init PROVE IInv
  OBVIOUS
<1>1. \A q \in RequestIds : rows[q].response = 0
  BY DEF Init, NoRow
<1>2. Owns
  BY DEF Init, Owns, For, Free
<1>3. Paid
  BY <1>1 DEF Paid
<1>4. QED BY <1>2, <1>3, InitType DEF Init, IInv, OneMission, Settled

\* Every step keeps the types.
LEMMA TypeStep == ASSUME IInv, Next PROVE TypeOK'
<1> USE DEF IInv
<1>1. CASE \E m \in Messages : Handle(m)
  BY <1>1, ArriveType, ParseType, RefuseType, AcceptType, CreateType, LinkType, NoteType,
     EnqueueType DEF Handle
<1>2. CASE \E m \in Messages : Lives(m)
  BY <1>2, LivesType
<1>3. CASE \E q \in RequestIds, p \in Peers : QueueReply(q, p)
  BY <1>3, QueueType
<1>4. CASE MarkResponded
  BY <1>4, MarkType
<1>5. CASE \E p \in Peers, flag \in Flags : SetPermissions(p, flag)
  BY <1>5, PermissionsType
<1>6. CASE Crash
  BY <1>6, CrashType
<1>7. QED BY <1>1, <1>2, <1>3, <1>4, <1>5, <1>6 DEF Next

\* A handler that begins, refuses or is cut off leaves rows, missions and replies.
LEMMA QuietStep ==
  ASSUME IInv, TypeOK', UNCHANGED <<rows, missions, replies>>,
         \/ loop' = loop
         \/ loop' = Free
         \/ \E m \in Messages : loop' \in {For("parse", m), For("decide", m)}
         \/ \E m \in Messages : loop = For("note", m) /\ loop' = For("enqueue", m)
  PROVE  IInv'
<1>1. Owns'
  BY DEF IInv, Owns, For, Free, RowFor
<1>2. QED BY <1>1 DEF IInv, OneMission, Paid, Settled, RowFor

LEMMA AcceptInv == ASSUME IInv, TypeOK', NEW m \in Messages, Accept(m) PROVE IInv'
<1> DEFINE q == IdOf[m]
<1>1. q \in RequestIds /\ rows[q].state = "absent" /\ rows[q].message = None
  BY DEF IInv, TypeOK, Accept, Taken, RowFor
<1>2. /\ rows'[q].message = m /\ rows'[q].response = 0
      /\ \A r \in RequestIds \ {q} : rows'[r] = rows[r]
  BY <1>1 DEF IInv, TypeOK, Accept
<1>3. \A n \in Messages : IdOf[n] = q => missions[n] = "none"
  BY <1>1 DEF IInv, OneMission, RowFor
<1>4. OneMission' /\ Settled'
  BY <1>2, <1>3 DEF IInv, OneMission, Settled, Accept, RowFor
<1>5. Owns'
  BY <1>2 DEF Accept, Owns, For, RowFor
<1>6. Paid'
  BY <1>2 DEF IInv, Paid, Accept
<1>7. QED BY <1>4, <1>5, <1>6 DEF IInv

LEMMA CreateInv == ASSUME IInv, TypeOK', NEW m \in Messages, CreateMission(m) PROVE IInv'
<1>1. RowFor(m).message = m
  BY DEF IInv, Owns, CreateMission
<1>2. OneMission' /\ Settled'
  BY <1>1 DEF IInv, TypeOK, OneMission, Settled, CreateMission, RowFor
<1>3. Owns'
  BY <1>1 DEF Owns, CreateMission, For, RowFor
<1>4. QED BY <1>2, <1>3 DEF IInv, Paid, CreateMission

LEMMA LinkInv == ASSUME IInv, TypeOK', NEW m \in Messages, Link(m) PROVE IInv'
<1>1. RowFor(m).message = m
  BY DEF IInv, Owns, Link
<1>2. \A q \in RequestIds : Kept(q)
  BY DEF IInv, TypeOK, Row, Link, Kept
<1>3. OneMission' /\ Settled'
  BY <1>2 DEF IInv, OneMission, Settled, Link, RowFor, Kept
<1>4. Owns'
  BY <1>1, <1>2 DEF Owns, Link, For, RowFor, Kept
<1>5. Paid'
  BY <1>2 DEF IInv, Paid, Link, Kept
<1>6. QED BY <1>3, <1>4, <1>5 DEF IInv

LEMMA EnqueueInv == ASSUME IInv, TypeOK', NEW m \in Messages, Enqueue(m) PROVE IInv'
<1>1. RowFor(m).message = m
  BY DEF IInv, Owns, Enqueue
<1>2. OneMission' /\ Settled'
  BY <1>1 DEF IInv, TypeOK, OneMission, Settled, Enqueue, RowFor
<1>3. Owns'
  BY DEF Owns, Enqueue, For, Free
<1>4. QED BY <1>2, <1>3 DEF IInv, Paid, Enqueue

LEMMA LivesInv == ASSUME IInv, TypeOK', NEW m \in Messages, Lives(m) PROVE IInv'
<1>1. PICK to : missions[m] # "none" /\ missions' = [missions EXCEPT ![m] = to]
                /\ (to = "completed" => ~Unmet(m))
  BY DEF Lives, Start, Retry, Complete, Fail, Cancel, Moves
<1>2. UNCHANGED <<perm, inbox, rows, replies, loop>>
  BY DEF Lives, Start, Retry, Complete, Fail, Cancel, Moves
<1>3. OneMission' /\ Settled'
  BY <1>1, <1>2 DEF IInv, TypeOK, OneMission, Settled, Unmet, RowFor
<1>4. QED BY <1>2, <1>3 DEF IInv, Owns, Paid, RowFor

LEMMA QueueInv ==
  ASSUME IInv, TypeOK', NEW q \in RequestIds, NEW p \in Peers, QueueReply(q, p) PROVE IInv'
<1>1. /\ replies \in Seq(Reply) /\ Len(replies') = Len(replies) + 1 /\ Len(replies) \in Nat
      /\ \A k \in 1 .. Len(replies) : replies'[k] = replies[k]
  BY DEF IInv, TypeOK, QueueReply
<1>2. Paid'
  BY <1>1 DEF IInv, Paid, QueueReply
<1>3. Owns'
  BY DEF Owns, QueueReply, For
<1>4. QED BY <1>2, <1>3 DEF IInv, OneMission, Settled, QueueReply, RowFor

LEMMA MarkInv == ASSUME IInv, TypeOK', MarkResponded PROVE IInv'
<1> DEFINE q == replies[loop.reply].request
<1>1. q \in RequestIds /\ loop.reply \in 1 .. Len(replies)
  BY Recorded DEF IInv
<1> DEFINE row == [rows[q] EXCEPT !.state = "responded", !.response = loop.reply]
<1>r. /\ row.message = rows[q].message /\ row.required = rows[q].required
      /\ row.response = loop.reply /\ (Unanswered(q) => rows[q].response = 0)
  <2>1. rows[q] \in Row
    BY <1>1 DEF IInv, TypeOK
  <2>2. QED BY <2>1 DEF Row, Unanswered
<1>u. \/ rows' = rows
      \/ rows' = [rows EXCEPT ![q] = row] /\ Unanswered(q)
  BY DEF MarkResponded
<1>2. \A r \in RequestIds : rows'[r].message = rows[r].message /\ rows'[r].required = rows[r].required
  <2> HIDE DEF row, q
  <2>1. QED BY <1>1, <1>r, <1>u DEF IInv, TypeOK
<1>3. \A r \in RequestIds :
        \/ rows'[r].response = rows[r].response
        \/ r = q /\ rows'[r].response = loop.reply /\ rows[r].response = 0
  <2> HIDE DEF row, q
  <2>1. QED BY <1>1, <1>r, <1>u DEF IInv, TypeOK
<1>4. Paid'
  BY <1>1, <1>3 DEF IInv, Paid, MarkResponded
<1>5. Len(replies) \in Nat /\ loop.reply # 0
  BY <1>1 DEF IInv, TypeOK
<1>6. OneMission' /\ Settled'
  <2>1. UNCHANGED missions
    BY DEF MarkResponded
  <2>2. \A r \in RequestIds : rows'[r].response = 0 => rows[r].response = 0
    BY <1>3, <1>5
  <2> HIDE DEF row, q
  <2>3. OneMission'
    BY <1>2, <1>3, <2>1, <2>2 DEF IInv, OneMission, RowFor
  <2>4. Settled'
    BY <1>2, <1>3, <2>1, <2>2 DEF IInv, Settled, RowFor
  <2>5. QED BY <2>3, <2>4
<1>7. Owns'
  BY DEF Owns, MarkResponded, For, Free
<1>8. QED BY <1>4, <1>6, <1>7 DEF IInv

LEMMA StepInv == IInv /\ [Next]_vars => IInv'
<1> SUFFICES ASSUME IInv, [Next]_vars PROVE IInv'
  OBVIOUS
<1>1. TypeOK'
  BY TypeStep, StutterType DEF IInv
<1>2. CASE \E m \in Messages : Handle(m)
  <2>1. PICK m \in Messages : Handle(m)
    BY <1>2
  <2>2. CASE Arrive(m) \/ Parse(m) \/ Refuse(m) \/ Note(m)
    BY <1>1, <2>2, QuietStep DEF Arrive, Parse, Refuse, Note
  <2>3. QED BY <1>1, <2>1, <2>2, AcceptInv, CreateInv, LinkInv, EnqueueInv DEF Handle
<1>3. CASE \E m \in Messages : Lives(m)
  BY <1>1, <1>3, LivesInv
<1>4. CASE \E q \in RequestIds, p \in Peers : QueueReply(q, p)
  BY <1>1, <1>4, QueueInv
<1>5. CASE MarkResponded
  BY <1>1, <1>5, MarkInv
<1>6. CASE \/ \E p \in Peers, flag \in Flags : SetPermissions(p, flag)
           \/ Crash
           \/ UNCHANGED vars
  BY <1>1, <1>6, QuietStep DEF SetPermissions, Crash, vars
<1>7. QED BY <1>2, <1>3, <1>4, <1>5, <1>6 DEF Next

LEMMA Invariance == Spec => []IInv
BY InitInv, StepInv, PTL DEF Spec

-------------------------------------------------------------------------------
(* Theorems.                                                               *)

\* Rows, missions, replies and the handler stay of their types.
THEOREM TypeCorrect == Spec => []TypeOK
<1>1. IInv => TypeOK
  BY DEF IInv
<1>2. QED BY <1>1, Invariance, PTL

\* One request id makes at most one mission, whichever commits of
\* _process_request a crash falls between and however often the id comes back.
THEOREM OneMissionHolds == Spec => []OneMission
<1>1. IInv => OneMission
  BY DEF IInv
<1>2. QED BY <1>1, Invariance, PTL

\* A mission that has to answer (response_obligation_unmet) completes only when
\* a reply to its request is in the outbox.
THEOREM CompletedMeansAnsweredHolds == Spec => []CompletedMeansAnswered
<1>1. IInv => CompletedMeansAnswered
  BY DEF IInv, CompletedMeansAnswered, Settled, Paid, RowFor
<1>2. QED BY <1>1, Invariance, PTL
===============================================================================
