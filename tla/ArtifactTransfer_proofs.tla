------------------------- MODULE ArtifactTransfer_proofs -------------------------
(***************************************************************************)
(* Proofs about ArtifactTransfer for any transfers, artifacts, sizes and   *)
(* faults: its types, that a receipt is honest, and that a partial file    *)
(* has no hole.                                                            *)
(***************************************************************************)
EXTENDS ArtifactTransfer, WellFoundedInduction, TLAPS

-------------------------------------------------------------------------------
(* Downloads and files.                                                    *)

\* A download is one of a transfer's.
LEMMA KeyFact ==
  ASSUME NEW k \in Downloads
  PROVE  k[1] \in Transfers
BY DEF Downloads

\* A set of natural numbers that is not empty has a least member.
LEMMA Least ==
  ASSUME NEW T \in SUBSET Nat, T # {}
  PROVE  \E x \in T : \A y \in T : x <= y
<1> DEFINE R == {ss \in Nat \X Nat : ss[1] < ss[2]}
<1>1. IsWellFoundedOn(R, Nat)
  BY NatLessThanWellFounded DEF OpToRel
<1>2. \A x, y \in Nat : <<y, x>> \notin R => x <= y
  OBVIOUS
<1> HIDE DEF R
<1>3. PICK x \in T : \A y \in T : <<y, x>> \notin R
  BY <1>1, WFMin, Zenon
<1>4. QED BY <1>2, <1>3

\* The length of a partial file is the least number past its chunks (partial_size).
LEMMA LengthFact ==
  ASSUME NEW f \in SUBSET Whole
  PROVE  /\ Length(f) \in 0 .. Size
         /\ \A m \in f : m < Length(f)
         /\ \A n \in 0 .. Size : (\A m \in f : m < n) => Length(f) <= n
<1>1. Size \in Nat /\ Size \in 0 .. Size
  BY TransferAssumption
<1>2. Size \in Past(f) /\ Past(f) \subseteq 0 .. Size
  BY <1>1 DEF Past, Whole
<1>3. Past(f) \subseteq Nat
  BY <1>2
<1>4. \E n \in Past(f) : \A m \in Past(f) : n <= m
  BY <1>2, <1>3, Least
<1>5. Length(f) \in Past(f) /\ \A m \in Past(f) : Length(f) <= m
  BY <1>4 DEF Length
<1>6. QED BY <1>2, <1>5 DEF Past

-------------------------------------------------------------------------------
(* Types.                                                                  *)

RowTypes ==
  /\ inbound \in [Transfers -> InboundStates] /\ outbound \in [Transfers -> OutboundStates]
SetTypes ==
  /\ permanent \subseteq Transfers /\ attempts \in [Transfers -> 0 .. MaxAttempts]
  /\ backoff \subseteq Transfers /\ claimed \subseteq Transfers /\ overdue \subseteq Transfers
  /\ net \subseteq Types \X Transfers /\ objects \subseteq Artifacts /\ records \subseteq Artifacts
  /\ troubles \in 0 .. MaxTroubles
TaskTypes ==
  /\ step \in [Downloads -> {"none", "claimed", "asks", "bytes", "refused", "closes"}]
  /\ offset \in [Downloads -> Whole]
FileTypes == file \in [Transfers -> SUBSET Whole]

\* The states of a row from which it can be downloaded, now or later.
Under == {"authorized", "transferring", "verifying", "failed", "completed"}

\* What is under way was granted: a row, a grant on its way and a download.
Granted ==
  /\ \A t \in Transfers : inbound[t] \in Under => outbound[t] # "none"
  /\ \A t \in Transfers : <<"grant", t>> \in net => outbound[t] # "none"
  /\ \A k \in Downloads : step[k] # "none" => outbound[k[1]] # "none"

TInv == RowTypes /\ SetTypes /\ TaskTypes /\ FileTypes /\ Granted

\* The invariant gives the module's own types.
LEMMA TInvTypeOK == TInv => TypeOK
BY DEF TInv, RowTypes, SetTypes, TaskTypes, FileTypes, Granted, TypeOK, Under

\* It holds before the first transfer is asked for.
LEMMA InitTInv == Init => TInv
<1> SUFFICES ASSUME Init PROVE TInv
  OBVIOUS
<1>1. 0 \in Whole /\ 0 \in 0 .. MaxAttempts /\ 0 \in 0 .. MaxTroubles
  BY TransferAssumption DEF Whole
<1>2. QED
  BY <1>1, KeyFact DEF Init, TInv, RowTypes, SetTypes, TaskTypes, FileTypes, Granted, Under,
     InboundStates, OutboundStates

\* The types and grants after RequestArtifact.
LEMMA RequestArtifactTypes ==
  ASSUME TInv, NEW t \in Transfers, RequestArtifact(t)
  PROVE  TInv'
<1> USE KeyFact, TransferAssumption
<1>1. RowTypes'
  BY DEF TInv, RowTypes, InboundStates, OutboundStates, Final, RequestArtifact
<1>2. SetTypes'
  BY DEF TInv, SetTypes, Types, disk, RequestArtifact
<1>3. TaskTypes'
  BY DEF TInv, TaskTypes, tasks, Whole, RequestArtifact
<1>4. FileTypes'
  BY DEF TInv, FileTypes, disk, RequestArtifact
<1>5. Granted'
  BY DEF TInv, RowTypes, TaskTypes, SetTypes, Granted, Under, Final, tasks, RequestArtifact
<1>6. QED BY <1>1, <1>2, <1>3, <1>4, <1>5 DEF TInv

\* The types and grants after OnGrant.
LEMMA OnGrantTypes ==
  ASSUME TInv, NEW t \in Transfers, OnGrant(t)
  PROVE  TInv'
<1> USE KeyFact, TransferAssumption
<1>1. RowTypes'
  BY DEF TInv, RowTypes, InboundStates, OutboundStates, Final, OnGrant
<1>2. SetTypes'
  BY DEF TInv, SetTypes, Types, disk, OnGrant
<1>3. TaskTypes'
  BY DEF TInv, TaskTypes, tasks, Whole, OnGrant
<1>4. FileTypes'
  BY DEF TInv, FileTypes, disk, OnGrant
<1>5. Granted'
  BY DEF TInv, RowTypes, TaskTypes, SetTypes, Granted, Under, Final, tasks, OnGrant
<1>6. QED BY <1>1, <1>2, <1>3, <1>4, <1>5 DEF TInv

\* The types and grants after OnReject.
LEMMA OnRejectTypes ==
  ASSUME TInv, NEW t \in Transfers, OnReject(t)
  PROVE  TInv'
<1> USE KeyFact, TransferAssumption
<1>1. RowTypes'
  BY DEF TInv, RowTypes, InboundStates, OutboundStates, Final, OnReject
<1>2. SetTypes'
  BY DEF TInv, SetTypes, Types, disk, OnReject
<1>3. TaskTypes'
  BY DEF TInv, TaskTypes, tasks, Whole, OnReject
<1>4. FileTypes'
  BY DEF TInv, FileTypes, disk, OnReject
<1>5. Granted'
  BY DEF TInv, RowTypes, TaskTypes, SetTypes, Granted, Under, Final, tasks, OnReject
<1>6. QED BY <1>1, <1>2, <1>3, <1>4, <1>5 DEF TInv

\* The types and grants after OnComplete.
LEMMA OnCompleteTypes ==
  ASSUME TInv, NEW t \in Transfers, OnComplete(t)
  PROVE  TInv'
<1> USE KeyFact, TransferAssumption
<1>1. RowTypes'
  BY DEF TInv, RowTypes, InboundStates, OutboundStates, Final, rows, OnComplete
<1>2. SetTypes'
  BY DEF TInv, SetTypes, Types, rows, disk, OnComplete
<1>3. TaskTypes'
  BY DEF TInv, TaskTypes, tasks, Whole, OnComplete
<1>4. FileTypes'
  BY DEF TInv, FileTypes, disk, OnComplete
<1>5. Granted'
  BY DEF TInv, RowTypes, TaskTypes, SetTypes, Granted, Under, Final, rows, tasks, OnComplete
<1>6. QED BY <1>1, <1>2, <1>3, <1>4, <1>5 DEF TInv

\* The types and grants after OnFailed.
LEMMA OnFailedTypes ==
  ASSUME TInv, NEW t \in Transfers, OnFailed(t)
  PROVE  TInv'
<1> USE KeyFact, TransferAssumption
<1>1. RowTypes'
  BY DEF TInv, RowTypes, InboundStates, OutboundStates, Final, rows, OnFailed
<1>2. SetTypes'
  BY DEF TInv, SetTypes, Types, rows, disk, OnFailed
<1>3. TaskTypes'
  BY DEF TInv, TaskTypes, tasks, Whole, OnFailed
<1>4. FileTypes'
  BY DEF TInv, FileTypes, disk, OnFailed
<1>5. Granted'
  BY DEF TInv, RowTypes, TaskTypes, SetTypes, Granted, Under, Final, rows, tasks, OnFailed
<1>6. QED BY <1>1, <1>2, <1>3, <1>4, <1>5 DEF TInv

\* The types and grants after CancelInbound.
LEMMA CancelInboundTypes ==
  ASSUME TInv, NEW t \in Transfers, CancelInbound(t)
  PROVE  TInv'
<1> USE KeyFact, TransferAssumption
<1>1. RowTypes'
  BY DEF TInv, RowTypes, InboundStates, OutboundStates, Final, CancelInbound
<1>2. SetTypes'
  BY DEF TInv, SetTypes, Types, disk, Trouble, CancelInbound
<1>3. TaskTypes'
  BY DEF TInv, TaskTypes, tasks, Whole, CancelInbound
<1>4. FileTypes'
  BY DEF TInv, FileTypes, disk, CancelInbound
<1>5. Granted'
  BY DEF TInv, RowTypes, TaskTypes, SetTypes, Granted, Under, Final, tasks, CancelInbound
<1>6. QED BY <1>1, <1>2, <1>3, <1>4, <1>5 DEF TInv

\* The types and grants after CancelOutbound.
LEMMA CancelOutboundTypes ==
  ASSUME TInv, NEW t \in Transfers, CancelOutbound(t)
  PROVE  TInv'
<1> USE KeyFact, TransferAssumption
<1>1. RowTypes'
  BY DEF TInv, RowTypes, InboundStates, OutboundStates, Final, rows, CancelOutbound
<1>2. SetTypes'
  BY DEF TInv, SetTypes, Types, rows, disk, Trouble, CancelOutbound
<1>3. TaskTypes'
  BY DEF TInv, TaskTypes, tasks, Whole, CancelOutbound
<1>4. FileTypes'
  BY DEF TInv, FileTypes, disk, CancelOutbound
<1>5. Granted'
  BY DEF TInv, RowTypes, TaskTypes, SetTypes, Granted, Under, Final, rows, tasks, CancelOutbound
<1>6. QED BY <1>1, <1>2, <1>3, <1>4, <1>5 DEF TInv

\* The types and grants after RetryTransfer.
LEMMA RetryTransferTypes ==
  ASSUME TInv, NEW t \in Transfers, RetryTransfer(t)
  PROVE  TInv'
<1> USE KeyFact, TransferAssumption
<1>1. RowTypes'
  BY DEF TInv, RowTypes, InboundStates, OutboundStates, Final, RetryTransfer
<1>2. SetTypes'
  BY DEF TInv, SetTypes, Types, disk, Trouble, RetryTransfer
<1>3. TaskTypes'
  BY DEF TInv, TaskTypes, tasks, Whole, RetryTransfer
<1>4. FileTypes'
  BY DEF TInv, FileTypes, disk, RetryTransfer
<1>5. Granted'
  BY DEF TInv, RowTypes, TaskTypes, SetTypes, Granted, Under, Final, tasks, RetryTransfer
<1>6. QED BY <1>1, <1>2, <1>3, <1>4, <1>5 DEF TInv

\* The types and grants after GrantExpires.
LEMMA GrantExpiresTypes ==
  ASSUME TInv, NEW t \in Transfers, GrantExpires(t)
  PROVE  TInv'
<1> USE KeyFact, TransferAssumption
<1>1. RowTypes'
  BY DEF TInv, RowTypes, InboundStates, OutboundStates, Final, rows, GrantExpires
<1>2. SetTypes'
  BY DEF TInv, SetTypes, Types, rows, disk, Trouble, GrantExpires
<1>3. TaskTypes'
  BY DEF TInv, TaskTypes, tasks, Whole, GrantExpires
<1>4. FileTypes'
  BY DEF TInv, FileTypes, disk, GrantExpires
<1>5. Granted'
  BY DEF TInv, RowTypes, TaskTypes, SetTypes, Granted, Under, Final, rows, tasks, GrantExpires
<1>6. QED BY <1>1, <1>2, <1>3, <1>4, <1>5 DEF TInv

\* The types and grants after BackoffEnds.
LEMMA BackoffEndsTypes ==
  ASSUME TInv, NEW t \in Transfers, BackoffEnds(t)
  PROVE  TInv'
<1> USE KeyFact, TransferAssumption
<1>1. RowTypes'
  BY DEF TInv, RowTypes, InboundStates, OutboundStates, Final, BackoffEnds
<1>2. SetTypes'
  BY DEF TInv, SetTypes, Types, disk, BackoffEnds
<1>3. TaskTypes'
  BY DEF TInv, TaskTypes, tasks, Whole, BackoffEnds
<1>4. FileTypes'
  BY DEF TInv, FileTypes, disk, BackoffEnds
<1>5. Granted'
  BY DEF TInv, RowTypes, TaskTypes, SetTypes, Granted, Under, Final, tasks, BackoffEnds
<1>6. QED BY <1>1, <1>2, <1>3, <1>4, <1>5 DEF TInv

\* The types and grants after ClaimLapses.
LEMMA ClaimLapsesTypes ==
  ASSUME TInv, NEW t \in Transfers, ClaimLapses(t)
  PROVE  TInv'
<1> USE KeyFact, TransferAssumption
<1>1. RowTypes'
  BY DEF TInv, RowTypes, InboundStates, OutboundStates, Final, ClaimLapses
<1>2. SetTypes'
  BY DEF TInv, SetTypes, Types, disk, Trouble, ClaimLapses
<1>3. TaskTypes'
  BY DEF TInv, TaskTypes, tasks, Whole, ClaimLapses
<1>4. FileTypes'
  BY DEF TInv, FileTypes, disk, ClaimLapses
<1>5. Granted'
  BY DEF TInv, RowTypes, TaskTypes, SetTypes, Granted, Under, Final, tasks, ClaimLapses
<1>6. QED BY <1>1, <1>2, <1>3, <1>4, <1>5 DEF TInv

\* The types and grants after OnRequest.
LEMMA OnRequestTypes ==
  ASSUME TInv, NEW t \in Transfers, NEW granted \in BOOLEAN, OnRequest(t, granted)
  PROVE  TInv'
<1> USE KeyFact, TransferAssumption
<1>1. RowTypes'
  BY DEF TInv, RowTypes, InboundStates, OutboundStates, Final, rows, OnRequest
<1>2. SetTypes'
  BY DEF TInv, SetTypes, Types, rows, disk, OnRequest
<1>3. TaskTypes'
  BY DEF TInv, TaskTypes, tasks, Whole, OnRequest
<1>4. FileTypes'
  BY DEF TInv, FileTypes, disk, OnRequest
<1>5. Granted'
  BY DEF TInv, RowTypes, TaskTypes, SetTypes, Granted, Under, Final, rows, tasks, OnRequest
<1>6. QED BY <1>1, <1>2, <1>3, <1>4, <1>5 DEF TInv

\* The types and grants after Gc.
LEMMA GcTypes ==
  ASSUME TInv, Gc
  PROVE  TInv'
<1> USE KeyFact, TransferAssumption
<1>1. RowTypes'
  BY DEF TInv, RowTypes, InboundStates, OutboundStates, Final, rows, Gc
<1>2. SetTypes'
  BY DEF TInv, SetTypes, Types, rows, Gc
<1>3. TaskTypes'
  BY DEF TInv, TaskTypes, tasks, Whole, Gc
<1>4. FileTypes'
  BY DEF TInv, FileTypes, Gc
<1>5. Granted'
  BY DEF TInv, RowTypes, TaskTypes, SetTypes, Granted, Under, Final, rows, tasks, Gc
<1>6. QED BY <1>1, <1>2, <1>3, <1>4, <1>5 DEF TInv

\* The types and grants after PeerRestarts.
LEMMA PeerRestartsTypes ==
  ASSUME TInv, PeerRestarts
  PROVE  TInv'
<1> USE KeyFact, TransferAssumption
<1>1. RowTypes'
  BY DEF TInv, RowTypes, InboundStates, OutboundStates, Final, rows, PeerRestarts
<1>2. SetTypes'
  BY DEF TInv, SetTypes, Types, rows, disk, PeerRestarts
<1>3. TaskTypes'
  BY DEF TInv, TaskTypes, tasks, Whole, PeerRestarts
<1>4. FileTypes'
  BY DEF TInv, FileTypes, disk, PeerRestarts
<1>5. Granted'
  BY DEF TInv, RowTypes, TaskTypes, SetTypes, Granted, Under, Final, rows, tasks, PeerRestarts
<1>6. QED BY <1>1, <1>2, <1>3, <1>4, <1>5 DEF TInv

\* The types and grants after Poll.
LEMMA PollTypes ==
  ASSUME TInv, Poll
  PROVE  TInv'
<1> USE KeyFact, TransferAssumption
<1>1. RowTypes'
  BY DEF TInv, RowTypes, InboundStates, OutboundStates, Final, Poll, Chosen, Claimable
<1>2. SetTypes'
  BY DEF TInv, SetTypes, Types, disk, Poll, Chosen, Claimable
<1>3. TaskTypes'
  BY DEF TInv, TaskTypes, Whole, Poll, Chosen, Claimable
<1>4. FileTypes'
  BY DEF TInv, FileTypes, disk, Poll, Chosen, Claimable
<1>5. Granted'
  BY DEF TInv, RowTypes, TaskTypes, SetTypes, Granted, Under, Final, Poll, Chosen, Claimable
<1>6. QED BY <1>1, <1>2, <1>3, <1>4, <1>5 DEF TInv

\* The types and grants after Fails.
LEMMA FailsTypes ==
  ASSUME TInv, NEW k \in Downloads, NEW perm \in BOOLEAN, Fails(k, perm), step[k] # "none"
  PROVE  TInv'
<1> USE KeyFact, TransferAssumption
<1>1. RowTypes'
  BY DEF TInv, RowTypes, InboundStates, OutboundStates, Final, Fails, Fail, Ends
<1>2. SetTypes'
  BY DEF TInv, SetTypes, Types, Fails, Fail, Ends
<1>3. TaskTypes'
  BY DEF TInv, TaskTypes, Whole, Fails, Fail, Ends
<1>4. FileTypes'
  BY DEF TInv, FileTypes, Fails, Fail, Ends
<1>5. Granted'
  BY DEF TInv, RowTypes, TaskTypes, SetTypes, Granted, Under, Final, Fails, Fail, Ends
<1>6. QED BY <1>1, <1>2, <1>3, <1>4, <1>5 DEF TInv

\* The types and grants after Imports.
LEMMA ImportsTypes ==
  ASSUME TInv, NEW k \in Downloads, Imports(k)
  PROVE  TInv'
<1> USE KeyFact, TransferAssumption
<1>1. RowTypes'
  BY DEF TInv, RowTypes, InboundStates, OutboundStates, Final, Imports, Ends
<1>2. SetTypes'
  BY DEF TInv, SetTypes, Types, Imports, Ends
<1>3. TaskTypes'
  BY DEF TInv, TaskTypes, Whole, Imports, Ends
<1>4. FileTypes'
  BY DEF TInv, FileTypes, Imports, Ends
<1>5. Granted'
  BY DEF TInv, RowTypes, TaskTypes, SetTypes, Granted, Under, Final, Imports, Ends
<1>6. QED BY <1>1, <1>2, <1>3, <1>4, <1>5 DEF TInv

\* The types and grants after Unverified.
LEMMA UnverifiedTypes ==
  ASSUME TInv, NEW k \in Downloads, Unverified(k)
  PROVE  TInv'
<1> USE KeyFact, TransferAssumption
<1>1. RowTypes'
  BY DEF TInv, RowTypes, InboundStates, OutboundStates, Final, Unverified, Fail, Ends
<1>2. SetTypes'
  BY DEF TInv, SetTypes, Types, Unverified, Fail, Ends
<1>3. TaskTypes'
  BY DEF TInv, TaskTypes, Whole, Unverified, Fail, Ends
<1>4. FileTypes'
  BY DEF TInv, FileTypes, Unverified, Fail, Ends
<1>5. Granted'
  BY DEF TInv, RowTypes, TaskTypes, SetTypes, Granted, Under, Final, Unverified, Fail, Ends
<1>6. QED BY <1>1, <1>2, <1>3, <1>4, <1>5 DEF TInv

\* The types and grants after Last.
LEMMA LastTypes ==
  ASSUME TInv, NEW k \in Downloads, Last(k)
  PROVE  TInv'
<1> USE KeyFact, TransferAssumption
<1>1. RowTypes'
  BY DEF TInv, RowTypes, InboundStates, OutboundStates, Final, rows, Last, Writes, Written
<1>2. SetTypes'
  BY DEF TInv, SetTypes, Types, rows, Last, Writes, Written
<1>3. TaskTypes'
  BY DEF TInv, TaskTypes, Whole, Last, Writes, Written
<1>4. FileTypes'
  BY DEF TInv, FileTypes, TaskTypes, Last, Writes, Written
<1>5. Granted'
  BY DEF TInv, RowTypes, TaskTypes, SetTypes, Granted, Under, Final, rows, Last, Writes, Written
<1>6. QED BY <1>1, <1>2, <1>3, <1>4, <1>5 DEF TInv

\* The types and grants after StartsAtEnd.
LEMMA StartsAtEndTypes ==
  ASSUME TInv, NEW k \in Downloads, StartsAtEnd(k)
  PROVE  TInv'
<1> USE KeyFact, TransferAssumption
<1>1. RowTypes'
  BY DEF TInv, RowTypes, InboundStates, OutboundStates, Final, StartsAtEnd, CountAttempt, Startable
<1>2. SetTypes'
  BY DEF TInv, SetTypes, Types, disk, StartsAtEnd, CountAttempt, Startable
<1>3. TaskTypes'
  BY DEF TInv, TaskTypes, Whole, StartsAtEnd, CountAttempt, Startable
<1>4. FileTypes'
  BY DEF TInv, FileTypes, disk, StartsAtEnd, CountAttempt, Startable
<1>5. Granted'
  BY DEF TInv, RowTypes, TaskTypes, SetTypes, Granted, Under, Final, StartsAtEnd, CountAttempt, Startable
<1>6. QED BY <1>1, <1>2, <1>3, <1>4, <1>5 DEF TInv

\* The types and grants after StartsNot.
LEMMA StartsNotTypes ==
  ASSUME TInv, NEW k \in Downloads, StartsNot(k)
  PROVE  TInv'
<1> USE KeyFact, TransferAssumption
<1>1. RowTypes'
  BY DEF TInv, RowTypes, InboundStates, OutboundStates, Final, StartsNot, Ends
<1>2. SetTypes'
  BY DEF TInv, SetTypes, Types, disk, StartsNot, Ends
<1>3. TaskTypes'
  BY DEF TInv, TaskTypes, Whole, StartsNot, Ends
<1>4. FileTypes'
  BY DEF TInv, FileTypes, disk, StartsNot, Ends
<1>5. Granted'
  BY DEF TInv, RowTypes, TaskTypes, SetTypes, Granted, Under, Final, StartsNot, Ends
<1>6. QED BY <1>1, <1>2, <1>3, <1>4, <1>5 DEF TInv

\* The types and grants after Starts.
LEMMA StartsTypes ==
  ASSUME TInv, NEW k \in Downloads, Starts(k)
  PROVE  TInv'
<1> USE KeyFact, TransferAssumption
<1>1. RowTypes'
  BY DEF TInv, RowTypes, InboundStates, OutboundStates, Final, Starts, CountAttempt, Startable
<1>2. SetTypes'
  BY DEF TInv, SetTypes, Types, disk, Starts, CountAttempt, Startable
<1>0. Length(file[k[1]]) \in Whole
  BY LengthFact DEF TInv, FileTypes, Starts, Whole
<1>3. TaskTypes'
  BY <1>0 DEF TInv, TaskTypes, Starts, CountAttempt, Startable
<1>4. FileTypes'
  BY DEF TInv, FileTypes, disk, Starts, CountAttempt, Startable
<1>5. Granted'
  BY DEF TInv, RowTypes, TaskTypes, SetTypes, Granted, Under, Final, Starts, CountAttempt, Startable
<1>6. QED BY <1>1, <1>2, <1>3, <1>4, <1>5 DEF TInv

\* The types and grants after Serve.
LEMMA ServeTypes ==
  ASSUME TInv, NEW k \in Downloads, Serve(k)
  PROVE  TInv'
<1> USE KeyFact, TransferAssumption
<1>1. RowTypes'
  BY DEF TInv, RowTypes, InboundStates, OutboundStates, Final, rows, Serve
<1>2. SetTypes'
  BY DEF TInv, SetTypes, Types, rows, disk, Serve
<1>3. TaskTypes'
  BY DEF TInv, TaskTypes, Whole, Serve
<1>4. FileTypes'
  BY DEF TInv, FileTypes, disk, Serve
<1>5. Granted'
  BY DEF TInv, RowTypes, TaskTypes, SetTypes, Granted, Under, Final, rows, Serve
<1>6. QED BY <1>1, <1>2, <1>3, <1>4, <1>5 DEF TInv

\* The types and grants after More.
LEMMA MoreTypes ==
  ASSUME TInv, NEW k \in Downloads, More(k)
  PROVE  TInv'
<1> USE KeyFact, TransferAssumption
<1>1. RowTypes'
  BY DEF TInv, RowTypes, InboundStates, OutboundStates, Final, More, Writes, Written, Ends
<1>2. SetTypes'
  BY DEF TInv, SetTypes, Types, More, Writes, Written, Ends
<1>3. TaskTypes'
  BY DEF TInv, TaskTypes, Whole, More, Writes, Written, Ends
<1>4. FileTypes'
  BY DEF TInv, FileTypes, TaskTypes, More, Writes, Written, Ends
<1>5. Granted'
  BY DEF TInv, RowTypes, TaskTypes, SetTypes, Granted, Under, Final, More, Writes, Written, Ends
<1>6. QED BY <1>1, <1>2, <1>3, <1>4, <1>5 DEF TInv

\* The types and grants after Recovers.
LEMMA RecoversTypes ==
  ASSUME TInv, NEW st \in [Transfers -> InboundStates], NEW held \in SUBSET Transfers, Recovers(st, held),
         \A t \in Transfers : st[t] \in Under => outbound[t] # "none",
         file' \in [Transfers -> SUBSET Whole], objects' \subseteq Artifacts, records' \subseteq Artifacts
  PROVE  TInv'
<1> USE KeyFact, TransferAssumption
<1>1. RowTypes'
  BY DEF TInv, RowTypes, InboundStates, OutboundStates, Final, Recovers, Recovered, Rearmed
<1>2. SetTypes'
  BY DEF TInv, SetTypes, Types, Trouble, Recovers, Recovered, Rearmed
<1>3. TaskTypes'
  BY DEF TInv, TaskTypes, Whole, Recovers, Recovered, Rearmed
<1>4. FileTypes'
  BY DEF TInv, FileTypes, Recovers, Recovered, Rearmed
<1>5. Granted'
  BY DEF TInv, RowTypes, TaskTypes, SetTypes, Granted, Under, Final, Recovers, Recovered, Rearmed
<1>6. QED BY <1>1, <1>2, <1>3, <1>4, <1>5 DEF TInv

\* Whatever a download does.
LEMMA DownloadTypes ==
  ASSUME TInv, NEW k \in Downloads, Download(k)
  PROVE  TInv'
<1>0. k[1] \in Transfers /\ TRUE \in BOOLEAN /\ FALSE \in BOOLEAN
  BY KeyFact
<1>1. CASE StartsLate(k)
  BY <1>1, FailsTypes DEF StartsLate
<1>2. CASE Refused(k)
  BY <1>2, FailsTypes DEF Refused
<1>3. CASE PullFails(k)
  BY <1>3, FailsTypes DEF PullFails
<1>4. CASE Gap(k)
  BY <1>4, FailsTypes DEF Gap
<1>5. QED
  BY <1>1, <1>2, <1>3, <1>4, StartsNotTypes, StartsTypes, StartsAtEndTypes, ServeTypes, MoreTypes,
     LastTypes, ImportsTypes, UnverifiedTypes DEF Download

\* The state of a row whose download dies after some commit of its import (CrashAtEnd).
Dead(done) == IF done = "recorded" THEN "completed" ELSE "verifying"

\* What a crash while the last chunk is verified leaves (CrashAtEnd).
LEMMA CrashAtEndFacts ==
  ASSUME TInv, NEW k \in Downloads, NEW done \in {"verifying", "stored", "recorded"},
         CrashAtEnd(k, done)
  PROVE  LET st == [inbound EXCEPT ![k[1]] = Dead(done)]
         IN  /\ Recovers(st, claimed) /\ st \in [Transfers -> InboundStates]
             /\ \A t \in Transfers : st[t] \in Under => outbound[t] # "none"
<1>1. k[1] \in Transfers /\ outbound[k[1]] # "none"
  BY KeyFact DEF TInv, Granted, CrashAtEnd
<1>2. Dead(done) \in InboundStates
  BY DEF Dead, InboundStates, Final
<1>3. QED BY <1>1, <1>2 DEF CrashAtEnd, Dead, TInv, RowTypes, Granted

\* Whatever restarts.
LEMMA RestartTypes ==
  ASSUME TInv, Restart
  PROVE  TInv'
<1>1. CASE Crash \/ Shutdown
  <2>1. /\ inbound \in [Transfers -> InboundStates] /\ claimed \in SUBSET Transfers
        /\ {t \in claimed : ~ Running(t)} \in SUBSET Transfers
        /\ \A t \in Transfers : inbound[t] \in Under => outbound[t] # "none"
    BY DEF TInv, RowTypes, SetTypes, Granted
  <2>2. /\ file' \in [Transfers -> SUBSET Whole]
        /\ objects' \subseteq Artifacts /\ records' \subseteq Artifacts
    BY <1>1 DEF TInv, FileTypes, SetTypes, Crash, Shutdown, disk
  <2>3. Recovers(inbound, claimed) \/ Recovers(inbound, {t \in claimed : ~ Running(t)})
    BY <1>1 DEF Crash, Shutdown
  <2>4. QED BY <2>1, <2>2, <2>3, RecoversTypes
<1>2. ASSUME NEW k \in Downloads, NEW done \in {"verifying", "stored", "recorded"},
             CrashAtEnd(k, done)
      PROVE  TInv'
  <2> DEFINE st == [inbound EXCEPT ![k[1]] = Dead(done)]
  <2>1. /\ Recovers(st, claimed) /\ st \in [Transfers -> InboundStates]
        /\ \A t \in Transfers : st[t] \in Under => outbound[t] # "none"
    BY <1>2, CrashAtEndFacts
  <2>2. claimed \in SUBSET Transfers
    BY DEF TInv, SetTypes
  <2>3. file' \in [Transfers -> SUBSET Whole]
    BY <1>2 DEF TInv, FileTypes, CrashAtEnd, Whole
  <2>4. objects' \subseteq Artifacts /\ records' \subseteq Artifacts
    BY <1>2, KeyFact, TransferAssumption DEF TInv, SetTypes, CrashAtEnd
  <2> HIDE DEF st
  <2>5. QED BY <2>1, <2>2, <2>3, <2>4, RecoversTypes
<1>3. QED BY <1>1, <1>2, PeerRestartsTypes DEF Restart

\* Every step.
LEMMA StepTypes ==
  ASSUME TInv, [Next]_vars
  PROVE  TInv'
<1>1. ASSUME NEW t \in Transfers, Operate(t)
      PROVE  TInv'
  BY <1>1, RequestArtifactTypes, CancelInboundTypes, CancelOutboundTypes, RetryTransferTypes DEF Operate
<1>2. ASSUME NEW t \in Transfers, Handle(t)
      PROVE  TInv'
  BY <1>2, OnRequestTypes, OnGrantTypes, OnRejectTypes, OnCompleteTypes, OnFailedTypes DEF Handle
<1>3. ASSUME NEW t \in Transfers, Time(t)
      PROVE  TInv'
  BY <1>3, GrantExpiresTypes, BackoffEndsTypes, ClaimLapsesTypes DEF Time
<1>4. CASE UNCHANGED vars
  BY <1>4 DEF vars, rows, tasks, disk, TInv, RowTypes, SetTypes, TaskTypes, FileTypes, Granted
<1>5. QED BY <1>1, <1>2, <1>3, <1>4, DownloadTypes, PollTypes, GcTypes, RestartTypes DEF Next

\* Every row, file and message is one the code can write, and what is under way
\* was granted (ArtifactTransferRepository, ArtifactDownloadWorker).
THEOREM TypeCorrect == Spec => []TypeOK
<1>1. QED BY InitTInv, StepTypes, TInvTypeOK, PTL DEF Spec

-------------------------------------------------------------------------------
(* Receipts.                                                               *)

\* Nothing is forgotten that the store has on record, and what is completed anew
\* is there.
ReceiptsKept ==
  /\ objects \cap records \subseteq objects' \cap records'
  /\ \A t \in Transfers :
       \/ Of[t] \in objects' \cap records'
       \/ /\ inbound'[t] = "completed" => inbound[t] = "completed"
          /\ outbound'[t] = "completed" => outbound[t] = "completed" \/ <<"complete", t>> \in net
          /\ <<"complete", t>> \in net' => <<"complete", t>> \in net

\* Then a receipt stays honest.
LEMMA KeptHonest ==
  ASSUME ReceiptHonest, ReceiptsKept
  PROVE  ReceiptHonest'
BY DEF ReceiptHonest, ReceiptsKept

\* A download that fails completes nothing; one that imports stores first (_import_and_complete).
LEMMA DownloadKeeps ==
  ASSUME TInv, NEW k \in Downloads, Download(k)
  PROVE  ReceiptsKept
<1> USE KeyFact DEF TInv, RowTypes, ReceiptsKept
<1>1. ASSUME NEW perm, Fails(k, perm)
      PROVE  ReceiptsKept
  BY <1>1 DEF Fails, Fail
<1>2. CASE Imports(k)
  BY <1>2 DEF Imports
<1>3. CASE Unverified(k)
  BY <1>3 DEF Unverified, Fail
<1>4. CASE Starts(k)
  BY <1>4 DEF Starts, disk
<1>5. CASE Serve(k)
  BY <1>5 DEF Serve, rows, disk
<1>6. CASE More(k)
  BY <1>6 DEF More
<1>7. CASE StartsNot(k)
  BY <1>7 DEF StartsNot, disk
<1>8. CASE Last(k) \/ StartsAtEnd(k)
  BY <1>8 DEF Last, StartsAtEnd, rows, disk
<1>9. CASE StartsLate(k) \/ Refused(k) \/ PullFails(k) \/ Gap(k)
  BY <1>1, <1>9 DEF StartsLate, Refused, PullFails, Gap
<1>10. QED BY <1>2, <1>3, <1>4, <1>5, <1>6, <1>7, <1>8, <1>9 DEF Download

\* A crash leaves a row completed only when it has recorded the artifact.
LEMMA RestartKeeps ==
  ASSUME TInv, Restart
  PROVE  ReceiptsKept
<1> USE DEF TInv, RowTypes, ReceiptsKept
<1>1. CASE Crash \/ Shutdown
  BY <1>1 DEF Crash, Shutdown, Recovers, Recovered, disk
<1>2. CASE PeerRestarts
  BY <1>2 DEF PeerRestarts, rows, disk
<1>3. ASSUME NEW k \in Downloads, NEW done \in {"verifying", "stored", "recorded"},
             CrashAtEnd(k, done)
      PROVE  ReceiptsKept
  <2>1. /\ objects \subseteq objects' /\ records \subseteq records'
        /\ done = "recorded" => Of[k[1]] \in objects' \cap records'
    BY <1>3 DEF CrashAtEnd
  <2>2. \A t \in Transfers :
          inbound'[t] = "completed" => inbound[t] = "completed" \/ (t = k[1] /\ done = "recorded")
    BY <1>3, KeyFact DEF CrashAtEnd, Recovers, Recovered
  <2>3. UNCHANGED <<outbound, net>>
    BY <1>3 DEF CrashAtEnd, Recovers
  <2>4. QED BY <2>1, <2>2, <2>3
<1>4. QED BY <1>1, <1>2, <1>3 DEF Restart

\* Every step, with the collector that spares what is on record (gc).
LEMMA ReceiptStep ==
  ASSUME TInv, ReceiptHonest, [Next]_vars
  PROVE  ReceiptHonest'
<1> USE DEF TInv, RowTypes, ReceiptsKept, rows, disk
<1>1. ASSUME NEW t \in Transfers, Operate(t)
      PROVE  ReceiptsKept
  BY <1>1 DEF Operate, RequestArtifact, CancelInbound, CancelOutbound, RetryTransfer
<1>2. ASSUME NEW t \in Transfers, Handle(t)
      PROVE  ReceiptsKept
  <2>1. CASE \E granted \in BOOLEAN : OnRequest(t, granted)
    BY <1>2, <2>1 DEF OnRequest
  <2>2. CASE OnGrant(t) \/ OnReject(t)
    BY <1>2, <2>2 DEF OnGrant, OnReject
  <2>3. CASE OnComplete(t) \/ OnFailed(t)
    BY <1>2, <2>3 DEF OnComplete, OnFailed
  <2>4. QED BY <1>2, <2>1, <2>2, <2>3 DEF Handle
<1>3. ASSUME NEW t \in Transfers, Time(t)
      PROVE  ReceiptsKept
  BY <1>3 DEF Time, GrantExpires, BackoffEnds, ClaimLapses
<1>4. Poll => ReceiptsKept
  BY DEF Poll
<1>5. Gc => ReceiptsKept
  BY DEF Gc
<1>6. UNCHANGED vars => ReceiptsKept
  BY DEF vars
<1>7. QED
  BY <1>1, <1>2, <1>3, <1>4, <1>5, <1>6, DownloadKeeps, RestartKeeps, KeptHonest DEF Next

\* A receipt is honest: whoever says completed, the artifact is in the store and on
\* record (_import_and_complete, on_complete, gc, recover).
THEOREM ReceiptHonestHolds == Spec => []ReceiptHonest
<1>1. Init => ReceiptHonest
  BY DEF Init, ReceiptHonest
<1>2. QED BY <1>1, InitTInv, StepTypes, ReceiptStep, PTL DEF Spec

-------------------------------------------------------------------------------
(* Partial files.                                                          *)

\* A chunk that is not past the end of a file without holes leaves none (append_chunk).
LEMMA WrittenIntact ==
  ASSUME NEW f \in SUBSET Whole, NEW n \in Whole, n <= Length(f),
         \A i \in f : \A m \in Whole : m < i => m \in f
  PROVE  \A i \in f \cup {n} : \A m \in Whole : m < i => m \in f \cup {n}
<1>1. ASSUME NEW m \in Whole, m < n, m \notin f
      PROVE  FALSE
  <2>1. Whole \subseteq Int /\ m \in 0 .. Size /\ Length(f) \in Int
    BY TransferAssumption, LengthFact DEF Whole
  <2>2. \A i \in f : i < m
    BY <1>1, <2>1
  <2>3. Length(f) <= m
    BY <2>1, <2>2, LengthFact
  <2>4. QED BY <1>1, <2>1, <2>3
<1>2. QED BY <1>1

\* A step leaves a file alone, empties it, completes it, or writes such a chunk.
FileStep(t) ==
  \/ file'[t] = file[t] \/ file'[t] = {} \/ file'[t] = Whole
  \/ \E n \in Whole : n <= Length(file[t]) /\ file'[t] = file[t] \cup {n}

LEMMA DownloadFiles ==
  ASSUME TInv, NEW k \in Downloads, Download(k), NEW t \in Transfers
  PROVE  FileStep(t)
<1> USE KeyFact DEF TInv, FileTypes, FileStep
<1>1. ASSUME NEW perm, Fails(k, perm)
      PROVE  FileStep(t)
  BY <1>1 DEF Fails
<1>2. CASE StartsLate(k) \/ Refused(k) \/ PullFails(k) \/ Gap(k)
  BY <1>1, <1>2 DEF StartsLate, Refused, PullFails, Gap
<1>3. CASE StartsNot(k) \/ Starts(k) \/ StartsAtEnd(k) \/ Serve(k)
  BY <1>3 DEF StartsNot, Starts, StartsAtEnd, Serve, disk
<1>4. CASE Imports(k) \/ Unverified(k)
  BY <1>4 DEF Imports, Unverified
<1>5. CASE More(k) \/ Last(k)
  <2>1. offset[k] \in Whole /\ offset[k] <= Length(file[k[1]])
    BY <1>5 DEF TaskTypes, More, Last, Writes
  <2>2. file' = [file EXCEPT ![k[1]] = @ \cup {offset[k]}]
    BY <1>5 DEF More, Last, Written
  <2>3. QED BY <2>1, <2>2
<1>6. QED BY <1>2, <1>3, <1>4, <1>5 DEF Download

\* Every step, file by file.
LEMMA FileSteps ==
  ASSUME TInv, [Next]_vars, NEW t \in Transfers
  PROVE  FileStep(t)
<1>1. CASE UNCHANGED file
  BY <1>1 DEF FileStep
<1>2. ASSUME NEW s \in Transfers, Operate(s) \/ Handle(s) \/ Time(s)
      PROVE  UNCHANGED file
  <2>1. CASE Operate(s)
    BY <2>1 DEF Operate, RequestArtifact, CancelInbound, CancelOutbound, RetryTransfer, disk
  <2>2. CASE Handle(s)
    BY <2>2 DEF Handle, OnRequest, OnGrant, OnReject, OnComplete, OnFailed, disk
  <2>3. CASE Time(s)
    BY <2>3 DEF Time, GrantExpires, BackoffEnds, ClaimLapses, disk
  <2>4. QED BY <1>2, <2>1, <2>2, <2>3
<1>3. CASE Poll \/ Gc \/ Crash \/ Shutdown \/ PeerRestarts \/ UNCHANGED vars
  BY <1>1, <1>3 DEF Poll, Gc, Crash, Shutdown, PeerRestarts, vars, disk
<1>4. ASSUME NEW k \in Downloads, NEW done \in {"verifying", "stored", "recorded"},
             CrashAtEnd(k, done)
      PROVE  FileStep(t)
  BY <1>4 DEF CrashAtEnd, FileStep, TInv, FileTypes
<1>5. QED BY <1>1, <1>2, <1>3, <1>4, DownloadFiles DEF Next, Restart

\* Hence no step makes a hole.
LEMMA PartialStep ==
  ASSUME TInv, PartialIntact, [Next]_vars
  PROVE  PartialIntact'
<1> SUFFICES ASSUME NEW t \in Transfers
             PROVE  \A i \in file'[t] : \A m \in Whole : m < i => m \in file'[t]
  BY DEF PartialIntact
<1>1. file[t] \in SUBSET Whole /\ \A i \in file[t] : \A m \in Whole : m < i => m \in file[t]
  BY DEF TInv, FileTypes, PartialIntact
<1>2. FileStep(t)
  BY FileSteps
<1>3. QED BY <1>1, <1>2, WrittenIntact DEF FileStep

\* Overlapping downloads and restarts leave no hole in a partial file
\* (append_chunk, ArtifactDownloadWorker._download).
THEOREM PartialIntactHolds == Spec => []PartialIntact
<1>1. Init => PartialIntact
  BY DEF Init, PartialIntact
<1>2. QED BY <1>1, InitTInv, StepTypes, PartialStep, PTL DEF Spec

\* A partial file that reaches the end is the whole artifact.
LEMMA WholeAtEnd ==
  ASSUME TInv, PartialIntact, NEW k \in Downloads, Last(k) \/ StartsAtEnd(k)
  PROVE  file'[k[1]] = Whole
<1>1. file[k[1]] \in SUBSET Whole /\ offset[k] \in Whole
      /\ \A i \in file[k[1]] : \A m \in Whole : m < i => m \in file[k[1]]
  BY KeyFact DEF TInv, FileTypes, TaskTypes, PartialIntact
<1>2. Size \in Int /\ Size - 1 \in Whole /\ \A m \in Whole : m \in Int /\ (m = Size - 1 \/ m < Size - 1)
  BY TransferAssumption DEF Whole
<1>3. CASE Last(k)
  <2>0. offset[k] + 1 >= Size /\ offset[k] <= Length(file[k[1]])
    BY <1>3 DEF Last, Writes
  <2>1. offset[k] = Size - 1 /\ offset[k] <= Length(file[k[1]])
    <3> DEFINE o == offset[k]
    <3>1. o \in Int /\ (o = Size - 1 \/ o < Size - 1) /\ o + 1 >= Size /\ Size \in Int
      BY <1>1, <1>2, <2>0
    <3> HIDE DEF o
    <3>2. o = Size - 1
      BY <3>1
    <3>3. QED BY <2>0, <3>2 DEF o
  <2>2. \A i \in Written(k) : \A m \in Whole : m < i => m \in Written(k)
    BY <1>1, <2>1, WrittenIntact DEF Written
  <2>3. Size - 1 \in Written(k) /\ Written(k) \subseteq Whole
    BY <1>1, <2>1 DEF Written
  <2>4. Written(k) = Whole
    <3>1. \A m \in Whole : m \in Written(k)
      BY <1>2, <2>2, <2>3
    <3>2. QED BY <2>3, <3>1
  <2>5. QED BY <1>3, <2>4, KeyFact DEF Last, TInv, FileTypes
<1>4. CASE StartsAtEnd(k)
  <2>1. Length(file[k[1]]) >= Size
    BY <1>4 DEF StartsAtEnd
  <2>2. Size - 1 \in file[k[1]]
    <3>1. ASSUME Size - 1 \notin file[k[1]]
          PROVE  FALSE
      <4>1. \A m \in file[k[1]] : m < Size - 1
        <5>1. \A m \in file[k[1]] : m # Size - 1 /\ m \in Whole
          BY <1>1, <3>1, Zenon
        <5>2. QED BY <1>2, <5>1, Zenon
      <4>2. Length(file[k[1]]) <= Size - 1
        <5>1. Size - 1 \in 0 .. Size
          BY TransferAssumption
        <5>2. QED BY <1>1, <4>1, <5>1, LengthFact
      <4>3. Length(file[k[1]]) \in Int
        BY <1>1, LengthFact
      <4>4. QED BY <1>2, <2>1, <4>2, <4>3
    <3>2. QED BY <3>1
  <2>3. file[k[1]] = Whole
    <3>1. \A m \in Whole : m \in file[k[1]]
      BY <1>1, <1>2, <2>2
    <3>2. QED BY <1>1, <3>1
  <2>4. QED BY <1>4, <2>3 DEF StartsAtEnd, disk
<1>5. QED BY <1>3, <1>4

\* A download that reaches its end has the whole artifact in its file, whatever was
\* downloaded twice, lost or interrupted before: nothing but another download that
\* imports the file first keeps it from completing (ArtifactDownloadWorker._download).
THEOREM EndMeansWhole ==
  Spec => [][\A k \in Downloads : Last(k) \/ StartsAtEnd(k) => file'[k[1]] = Whole]_vars
<1>1. Spec => [](TInv /\ PartialIntact)
  <2>1. Init => PartialIntact
    BY DEF Init, PartialIntact
  <2>2. QED BY <2>1, InitTInv, StepTypes, PartialStep, PTL DEF Spec
<1>2. TInv /\ PartialIntact => [\A k \in Downloads : Last(k) \/ StartsAtEnd(k) => file'[k[1]] = Whole]_vars
  BY WholeAtEnd
<1>3. QED BY <1>1, <1>2, PTL
===============================================================================
