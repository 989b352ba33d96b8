---------------------------- MODULE ArtifactTransfer ----------------------------
(***************************************************************************)
(* Transfers of artifacts between two nodes (aithernet/artifacts): the     *)
(* control messages between the node that asks and the node that grants,   *)
(* the download worker of the one that asks, and the ranges that the other *)
(* serves under its grant.                                                 *)
(*                                                                         *)
(* Control messages travel through outbox and inbox (module Delivery): one *)
(* is handled at most once, in any order, or lost: nothing makes a node    *)
(* handle a message that is on its way. Between two awaits the event loop  *)
(* runs nothing else, so a step of a download reaches from one answer of   *)
(* the peer to the next request; only a crash comes in between. Closing    *)
(* the connection to the peer is an await of its own.                      *)
(***************************************************************************)
EXTENDS Integers, FiniteSets

CONSTANTS
  NumTransfers, \* how many transfers are asked for; numbered in that order
  Artifacts,
  Of,           \* the artifact that each transfer asks for
  Size,         \* the chunks of an artifact
  Slots,        \* max_concurrent_transfers
  MaxAttempts,
  MaxTroubles,  \* bound: how many times something comes in between (see Trouble)
  Faults        \* which faults happen

Transfers == 1 .. NumTransfers

ASSUME TransferAssumption ==
  /\ NumTransfers \in Nat /\ Of \in [Transfers -> Artifacts]
  /\ Size \in Nat \ {0} /\ Slots \in Nat \ {0} /\ MaxAttempts \in Nat \ {0}
  /\ MaxTroubles \in Nat

VARIABLES
  inbound,    \* transfer -> state of its row on the node that asks
  outbound,   \* transfer -> state of its row on the node that grants
  permanent,  \* failed transfers whose error_type is one of PERMANENT_CODES
  attempts,   \* transfer -> attempt_count; more than MaxAttempts are not told apart
  backoff,    \* transfers whose next_attempt_at is in the future
  claimed,    \* transfers whose claim has not expired
  overdue,    \* transfers whose grant_expires_at has passed
  net,        \* <<type, transfer>> of control messages on their way
  step,       \* download -> what it does
  offset,     \* download -> the chunk that it is at
  file,       \* transfer -> the chunks in its partial file
  objects,    \* artifacts in the store of the node that asks
  records,    \* artifacts that its artifact rows refer to
  troubles    \* how many times something has come in between

rows    == <<inbound, permanent, attempts, backoff, claimed>>
tasks   == <<step, offset>>
disk    == <<file, objects, records>>
vars == <<rows, outbound, overdue, net, tasks, disk, troubles>>

\* The downloads of a transfer that run at a time: more than one when claims lapse.
Downloads == Transfers \X (1 .. Slots)
Inflight  == {k \in Downloads : step[k] # "none"}
Whole     == 0 .. Size - 1
Past(f)   == {n \in 0 .. Size : \A m \in f : m < n}
Length(f) == CHOOSE n \in Past(f) : \A m \in Past(f) : n <= m

\* A restart, a cancellation, a retry, a grant that expires, a claim that lapses
\* under a download.
Trouble == troubles < MaxTroubles /\ troubles' = troubles + 1

Init ==
  /\ inbound = [t \in Transfers |-> "none"] /\ outbound = [t \in Transfers |-> "none"]
  /\ permanent = {} /\ attempts = [t \in Transfers |-> 0] /\ backoff = {} /\ claimed = {}
  /\ overdue = {} /\ net = {}
  /\ step = [k \in Downloads |-> "none"] /\ offset = [k \in Downloads |-> 0]
  /\ file = [t \in Transfers |-> {}] /\ objects = {} /\ records = {}
  /\ troubles = 0

-------------------------------------------------------------------------------
\* Control messages.

RequestArtifact(t) ==
  /\ inbound[t] = "none" /\ \A s \in 1 .. t - 1 : inbound[s] # "none"
  /\ inbound' = [inbound EXCEPT ![t] = "requested"]
  /\ net' = net \cup {<<"request", t>>}
  /\ UNCHANGED <<permanent, attempts, backoff, claimed, outbound, overdue, tasks, disk, troubles>>

\* The node that is asked grants the transfer or, for want of permissions, of room
\* or of the artifact, rejects it.
OnRequest(t, granted) ==
  /\ <<"request", t>> \in net
  /\ outbound' = IF granted THEN [outbound EXCEPT ![t] = "authorized"] ELSE outbound
  /\ net' = (net \ {<<"request", t>>}) \cup {<<IF granted THEN "grant" ELSE "reject", t>>}
  /\ UNCHANGED <<rows, overdue, tasks, disk, troubles>>

OnGrant(t) ==
  /\ <<"grant", t>> \in net /\ net' = net \ {<<"grant", t>>}
  /\ IF inbound[t] \in {"requested", "authorized"}
     THEN inbound' = [inbound EXCEPT ![t] = "authorized"] /\ backoff' = backoff \ {t}
     ELSE UNCHANGED <<inbound, backoff>>
  /\ UNCHANGED <<permanent, attempts, claimed, outbound, overdue, tasks, disk, troubles>>

OnReject(t) ==
  /\ <<"reject", t>> \in net /\ net' = net \ {<<"reject", t>>}
  /\ inbound' = IF inbound[t] \in {"requested", "authorized"}
                THEN [inbound EXCEPT ![t] = "rejected"] ELSE inbound
  /\ UNCHANGED <<permanent, attempts, backoff, claimed, outbound, overdue, tasks, disk, troubles>>

OnComplete(t) ==
  /\ <<"complete", t>> \in net /\ net' = net \ {<<"complete", t>>}
  /\ outbound' = [outbound EXCEPT ![t] = "completed"]
  /\ UNCHANGED <<rows, overdue, tasks, disk, troubles>>

OnFailed(t) ==
  /\ <<"failed", t>> \in net /\ net' = net \ {<<"failed", t>>}
  /\ outbound' = IF outbound[t] = "completed" THEN outbound ELSE [outbound EXCEPT ![t] = "failed"]
  /\ UNCHANGED <<rows, overdue, tasks, disk, troubles>>

-------------------------------------------------------------------------------
\* Operators and time.

Final == {"completed", "cancelled", "rejected", "expired"}

CancelInbound(t) ==
  /\ "cancel" \in Faults /\ inbound[t] \notin Final \cup {"none"}
  /\ inbound' = [inbound EXCEPT ![t] = "cancelled"]
  /\ claimed' = claimed \ {t}
  /\ Trouble
  /\ UNCHANGED <<permanent, attempts, backoff, outbound, overdue, net, tasks, disk>>

CancelOutbound(t) ==
  /\ "cancel" \in Faults /\ outbound[t] \notin Final \cup {"none"}
  /\ outbound' = [outbound EXCEPT ![t] = "cancelled"]
  /\ Trouble
  /\ UNCHANGED <<rows, overdue, net, tasks, disk>>

RetryRejected(t) ==  \* mutant of RetryTransfer
  /\ inbound[t] \in {"failed", "rejected"} /\ t \notin permanent /\ Trouble
  /\ inbound' = [inbound EXCEPT ![t] = "authorized"] /\ backoff' = backoff \ {t}
  /\ UNCHANGED <<permanent, attempts, claimed, outbound, overdue, net, tasks, disk>>
RetryTransfer(t) ==
  /\ inbound[t] = "failed" /\ t \notin permanent
  /\ Trouble
  /\ inbound' = [inbound EXCEPT ![t] = "authorized"]
  /\ backoff' = backoff \ {t}
  /\ UNCHANGED <<permanent, attempts, claimed, outbound, overdue, net, tasks, disk>>

GcPinned ==  \* mutant of Gc
  objects' = {} /\ UNCHANGED <<rows, outbound, overdue, net, tasks, file, records, troubles>>
Gc ==
  /\ objects' = objects \cap records
  /\ UNCHANGED <<rows, outbound, overdue, net, tasks, file, records, troubles>>

GrantExpires(t) ==
  /\ "expiry" \in Faults /\ outbound[t] # "none" /\ t \notin overdue
  /\ overdue' = overdue \cup {t}
  /\ Trouble
  /\ UNCHANGED <<rows, outbound, net, tasks, disk>>

BackoffEnds(t) ==
  /\ t \in backoff /\ backoff' = backoff \ {t}
  /\ UNCHANGED <<inbound, permanent, attempts, claimed, outbound, overdue, net, tasks, disk, troubles>>

\* A claim lasts two minutes and is never renewed; a download that was claimed
\* starts at once, so it is one that waits for its peer that takes so long.
Running(t) == \E k \in Inflight : k[1] = t
ClaimLapses(t) ==
  /\ t \in claimed /\ claimed' = claimed \ {t}
  /\ \A k \in Inflight : k[1] = t => step[k] # "claimed"
  /\ IF Running(t) THEN Trouble ELSE UNCHANGED troubles
  /\ UNCHANGED <<inbound, permanent, attempts, backoff, outbound, overdue, net, tasks, disk>>

-------------------------------------------------------------------------------
\* The download worker.

\* A poll claims the oldest transfers that are due, as many as there is room for.
Claimable ==
  {t \in Transfers \ (backoff \cup claimed) : inbound[t] \in {"authorized", "transferring", "verifying"}}
Chosen ==
  {t \in Claimable : Cardinality({s \in Claimable : s < t}) < Slots - Cardinality(Inflight)}
NextDownload(t) == CHOOSE k \in Downloads : k[1] = t /\ step[k] = "none"
Poll ==
  /\ Chosen # {} /\ claimed' = claimed \cup Chosen
  /\ step' = [k \in Downloads |-> IF k[1] \in Chosen /\ k = NextDownload(k[1]) THEN "claimed" ELSE step[k]]
  /\ UNCHANGED <<inbound, permanent, attempts, backoff, outbound, overdue, net, offset, disk, troubles>>

\* However a download ends, it releases the claim on its transfer, its own or not.
Ends(k) ==
  /\ step' = [step EXCEPT ![k] = "none"] /\ offset' = [offset EXCEPT ![k] = 0]
  /\ claimed' = claimed \ {k[1]}

GivesUpNever(t, perm) == perm  \* mutant of GivesUp
GivesUp(t, perm) == perm \/ attempts[t] = MaxAttempts
Fail(k, perm) ==
  LET t == k[1] IN
  /\ inbound' = [inbound EXCEPT ![t] = IF GivesUp(t, perm) THEN "failed" ELSE "authorized"]
  /\ permanent' = IF perm THEN permanent \cup {t} ELSE permanent \ {t}
  /\ backoff' = IF GivesUp(t, perm) THEN backoff ELSE backoff \cup {t}
  /\ net' = IF GivesUp(t, perm) THEN net \cup {<<"failed", t>>} ELSE net
  /\ Ends(k)
  /\ UNCHANGED <<attempts, outbound, overdue, objects, records, troubles>>

Fails(k, perm) ==
  /\ IF inbound[k[1]] \in {"completed", "cancelled"}
     THEN Ends(k) /\ UNCHANGED <<inbound, permanent, attempts, backoff, outbound, overdue, net, objects, records, troubles>>
     ELSE Fail(k, perm)
  /\ UNCHANGED file

\* A download starts where the partial file ends. A row in another state, that of
\* a download that died while it verified for one, is left as it is.
Startable(t) == inbound[t] \in {"authorized", "transferring"}
CountAttempt(t) == attempts' = [attempts EXCEPT ![t] = IF @ < MaxAttempts THEN @ + 1 ELSE @]

StartsNot(k) ==
  /\ step[k] = "claimed" /\ ~ Startable(k[1])
  /\ Ends(k)
  /\ UNCHANGED <<inbound, permanent, attempts, backoff, outbound, overdue, net, disk, troubles>>

StartsLate(k) == step[k] = "claimed" /\ Startable(k[1]) /\ k[1] \in overdue /\ Fails(k, TRUE)

Starts(k) ==
  LET t == k[1] IN
  /\ step[k] = "claimed" /\ Startable(t) /\ t \notin overdue
  /\ Length(file[t]) < Size
  /\ CountAttempt(t)
  /\ inbound' = [inbound EXCEPT ![t] = "transferring"]
  /\ step' = [step EXCEPT ![k] = "asks"] /\ offset' = [offset EXCEPT ![k] = Length(file[t])]
  /\ UNCHANGED <<permanent, backoff, claimed, outbound, overdue, net, disk, troubles>>

StartsAtEnd(k) ==
  LET t == k[1] IN
  /\ step[k] = "claimed" /\ Startable(t) /\ t \notin overdue
  /\ Length(file[t]) >= Size
  /\ CountAttempt(t)
  /\ inbound' = [inbound EXCEPT ![t] = "transferring"]
  /\ step' = [step EXCEPT ![k] = "closes"]
  /\ UNCHANGED <<permanent, backoff, claimed, outbound, overdue, net, offset, disk, troubles>>

\* The peer serves a range under its grant, or refuses it.
Usable(t) == outbound[t] \notin {"cancelled", "rejected", "expired", "failed"} /\ t \notin overdue
Serve(k) ==
  LET t == k[1] IN
  /\ step[k] = "asks"
  /\ step' = [step EXCEPT ![k] = IF Usable(t) THEN "bytes" ELSE "refused"]
  /\ outbound' = IF Usable(t) /\ outbound[t] = "authorized"
                 THEN [outbound EXCEPT ![t] = "transferring"] ELSE outbound
  /\ UNCHANGED <<rows, overdue, net, offset, disk, troubles>>

Refused(k) == step[k] = "refused" /\ Fails(k, TRUE)

\* The connection fails, or the answer does not come in time.
PullFails(k) == "pull" \in Faults /\ step[k] \in {"asks", "bytes", "refused"} /\ Fails(k, FALSE)

\* A chunk is written, unless the file has become shorter than its offset.
Gap(k) == step[k] = "bytes" /\ offset[k] > Length(file[k[1]]) /\ Fails(k, FALSE)
Written(k) == file[k[1]] \cup {offset[k]}
WritesAhead(k) == step[k] = "bytes"  \* mutant of Writes
Writes(k) == step[k] = "bytes" /\ offset[k] <= Length(file[k[1]])

More(k) ==
  LET t == k[1] IN
  /\ Writes(k) /\ offset[k] + 1 < Size
  /\ file' = [file EXCEPT ![t] = Written(k)]
  /\ IF inbound[t] \in {"cancelled", "expired", "rejected"} THEN Ends(k)
     ELSE /\ step' = [step EXCEPT ![k] = "asks"] /\ offset' = [offset EXCEPT ![k] = @ + 1]
          /\ UNCHANGED claimed
  /\ UNCHANGED <<inbound, permanent, attempts, backoff, outbound, overdue, net, objects, records, troubles>>

Last(k) ==
  /\ Writes(k) /\ offset[k] + 1 >= Size
  /\ file' = [file EXCEPT ![k[1]] = Written(k)]
  /\ step' = [step EXCEPT ![k] = "closes"]
  /\ UNCHANGED <<rows, outbound, overdue, net, offset, objects, records, troubles>>

\* When the connection is closed the row says verifying, whatever it said before.
\* A whole file is moved to the store and recorded and the row completed; one that
\* another download has taken away fails; a partial one is quarantined and fails for good.
Imports(k) ==
  LET t == k[1] IN
  /\ step[k] = "closes" /\ file[t] = Whole
  /\ objects' = objects \cup {Of[t]} /\ records' = records \cup {Of[t]}
  /\ file' = [file EXCEPT ![t] = {}]
  /\ inbound' = [inbound EXCEPT ![t] = "completed"]
  /\ net' = net \cup {<<"complete", t>>}
  /\ Ends(k)
  /\ UNCHANGED <<permanent, attempts, backoff, outbound, overdue, troubles>>

Unverified(k) ==
  LET t == k[1] IN
  /\ step[k] = "closes" /\ file[t] # Whole
  /\ file' = [file EXCEPT ![t] = {}]
  /\ Fail(k, file[t] # {})

-------------------------------------------------------------------------------
\* Restarts: the downloads die, and recover() expires and re-arms transfers.

Recovered(t, state) ==
  IF state \in {"authorized", "transferring"} /\ t \in overdue THEN "expired"
  ELSE IF state = "transferring" THEN "authorized" ELSE state
Rearmed(st) == {t \in Transfers : st[t] = "transferring" /\ t \notin overdue}

Recovers(st, held) ==
  /\ Trouble
  /\ inbound' = [t \in Transfers |-> Recovered(t, st[t])]
  /\ claimed' = held \ Rearmed(st) /\ backoff' = backoff \ Rearmed(st)
  /\ step' = [k \in Downloads |-> "none"] /\ offset' = [k \in Downloads |-> 0]
  /\ UNCHANGED <<permanent, attempts, outbound, overdue, net>>

Crash == "crash" \in Faults /\ Recovers(inbound, claimed) /\ UNCHANGED disk

\* A shutdown cancels the downloads, and they release their claims.
Shutdown ==
  "stop" \in Faults /\ Recovers(inbound, {t \in claimed : ~ Running(t)}) /\ UNCHANGED disk

\* A crash between the commits of an import: after the row says verifying, after
\* the file is in the store, and after the row is completed.
CrashAtEnd(k, done) ==
  LET t == k[1] IN
  /\ "crash" \in Faults /\ step[k] = "closes" /\ file[t] = Whole
  /\ Recovers([inbound EXCEPT ![t] = IF done = "recorded" THEN "completed" ELSE "verifying"], claimed)
  /\ file' = [file EXCEPT ![t] = IF done = "verifying" THEN Whole ELSE {}]
  /\ objects' = IF done = "verifying" THEN objects ELSE objects \cup {Of[t]}
  /\ records' = IF done = "recorded" THEN records \cup {Of[t]} ELSE records

PeerRestarts ==
  /\ outbound' = [t \in Transfers |->
       IF outbound[t] \in {"authorized", "transferring"} /\ t \in overdue THEN "expired" ELSE outbound[t]]
  /\ UNCHANGED <<rows, overdue, net, tasks, disk, troubles>>

-------------------------------------------------------------------------------
Download(k) ==
  \/ StartsNot(k) \/ StartsLate(k) \/ Starts(k) \/ StartsAtEnd(k)
  \/ Serve(k) \/ Refused(k) \/ PullFails(k) \/ Gap(k) \/ More(k) \/ Last(k)
  \/ Imports(k) \/ Unverified(k)

Handle(t) ==
  \/ \E granted \in BOOLEAN : OnRequest(t, granted)
  \/ OnGrant(t) \/ OnReject(t) \/ OnComplete(t) \/ OnFailed(t)

Operate(t) == RequestArtifact(t) \/ CancelInbound(t) \/ CancelOutbound(t) \/ RetryTransfer(t)
Time(t) == GrantExpires(t) \/ BackoffEnds(t) \/ ClaimLapses(t)

Restart ==
  \/ Crash \/ Shutdown \/ PeerRestarts
  \/ \E k \in Downloads, done \in {"verifying", "stored", "recorded"} : CrashAtEnd(k, done)

Next ==
  \/ \E t \in Transfers : Operate(t) \/ Handle(t) \/ Time(t)
  \/ \E k \in Downloads : Download(k)
  \/ Poll \/ Gc \/ Restart

Spec == Init /\ [][Next]_vars

\* The worker polls every second, answers or timeouts come, and time passes.
FairSpec ==
  /\ Spec /\ WF_vars(Poll)
  /\ \A k \in Downloads : WF_vars(Download(k))
  /\ \A t \in Transfers : WF_vars(BackoffEnds(t)) /\ WF_vars(ClaimLapses(t) /\ ~ Running(t))

-------------------------------------------------------------------------------
InboundStates  == {"none", "requested", "authorized", "transferring", "verifying", "failed"} \cup Final
OutboundStates == {"none", "authorized", "transferring", "completed", "failed", "cancelled", "expired"}
Types == {"request", "grant", "reject", "complete", "failed"}

\* Every row, file and message is one the code can write; a download that reads or
\* writes a range stands inside the artifact, and a transfer is under way on the
\* node that asks only when the other has granted it.
TypeOK ==
  /\ inbound \in [Transfers -> InboundStates] /\ outbound \in [Transfers -> OutboundStates]
  /\ permanent \subseteq Transfers /\ attempts \in [Transfers -> 0 .. MaxAttempts]
  /\ backoff \subseteq Transfers /\ claimed \subseteq Transfers /\ overdue \subseteq Transfers
  /\ net \subseteq Types \X Transfers
  /\ step \in [Downloads -> {"none", "claimed", "asks", "bytes", "refused", "closes"}]
  /\ offset \in [Downloads -> Whole]
  /\ file \in [Transfers -> SUBSET Whole] /\ objects \subseteq Artifacts /\ records \subseteq Artifacts
  /\ troubles \in 0 .. MaxTroubles
  /\ \A t \in Transfers :
       inbound[t] \in {"authorized", "transferring", "verifying", "failed", "completed"}
         => outbound[t] # "none"

\* A receipt is honest: when a row on either node says completed, or the message
\* that says so is on its way, the artifact is in the store and recorded, whatever
\* was downloaded twice, cancelled, collected or lost in a crash meanwhile.
ReceiptHonest ==
  \A t \in Transfers :
    inbound[t] = "completed" \/ outbound[t] = "completed" \/ <<"complete", t>> \in net
      => Of[t] \in objects \cap records

\* Overlapping downloads and restarts leave no hole in a partial file, so that a
\* download which reaches its end has the whole of it.
PartialIntact == \A t \in Transfers : \A n \in file[t] : \A m \in Whole : m < n => m \in file[t]

\* A transfer that may be downloaded is, or it ends in another way; one whose
\* download died while it verified is left behind.
TransferSettles ==
  \A t \in Transfers :
    inbound[t] \in {"authorized", "transferring"} ~> inbound[t] \notin {"authorized", "transferring"}

\* worker.py: "Cancelled transfers never resume; completed objects are never re-downloaded."
NeverResumes ==
  [][\A t \in Transfers : inbound[t] \in {"cancelled", "completed"} => inbound'[t] = inbound[t]]_vars
================================================================================
