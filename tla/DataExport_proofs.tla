--------------------------- MODULE DataExport_proofs ---------------------------
(***************************************************************************)
(* Proofs about DataExport for any records, operators' threads, bounds and *)
(* faults: its types, that a receipt means the service has the data, that  *)
(* a batch and its records settle together, and that a dataset holds only  *)
(* what the service took.                                                  *)
(***************************************************************************)
EXTENDS DataExport, TLAPS

-------------------------------------------------------------------------------
(* Types.                                                                  *)

\* A batch is tried more often than max_attempts only by restarts that found its
\* claim expired (recover_expired_claims does not look at attempt_count).
AttemptsBounded ==
  \A b \in Ids :
    /\ batch[b].attempts <= MaxAttempts + stops
    /\ batch[b].status \in Claimable \/ mode = "down" => batch[b].attempts < MaxAttempts + stops

\* Batches are numbered in the order of creation; a stop that has begun counts
\* when it ends.
Unused == \A b \in Ids : b > sealed => batch[b].status = "absent"
StopsLeft == mode = "stopping" => stops < MaxStops
Resting == mode = "down" => \A b \in Ids : task[b] = "none"

TInv == TypeOK /\ AttemptsBounded /\ Unused /\ StopsLeft /\ Resting

\* A change of the status of some records leaves records (SetStatus).
LEMMA SetStatusType ==
  ASSUME rec \in [Records -> Record], NEW S,
         NEW status \in {"cancelled", "quarantined", "deleted", "receipt_verified"} \cup Queued
  PROVE  /\ SetStatus(S, status) \in [Records -> Record]
         /\ \A r \in Records : SetStatus(S, status)[r] =
              IF r \in S THEN [rec[r] EXCEPT !.status = status] ELSE rec[r]
<1>1. \A r \in Records : [rec[r] EXCEPT !.status = status] \in Record
  BY DEF Record
<1>2. QED BY <1>1 DEF SetStatus

\* A finalised batch is a batch without a claim (release_and_update).
LEMMA SettledType ==
  ASSUME TypeOK, NEW b \in Ids, task[b] # "none",
         NEW status \in Claimable \cup {"receipt_verified", "dead_letter"}
  PROVE  /\ Settled(b, status) = [batch EXCEPT ![b] = [@ EXCEPT !.status = status, !.claim = "none"]]
         /\ [batch[b] EXCEPT !.status = status, !.claim = "none"] \in Batch
         /\ Settled(b, status) \in [Ids -> Batch]
<1>1. batch[b] \in Batch /\ batch[b].claim # "none"
  BY DEF TypeOK
<1>2. [batch[b] EXCEPT !.status = status, !.claim = "none"] \in Batch
  BY <1>1 DEF Batch
<1>3. Settled(b, status) = [batch EXCEPT ![b] = [@ EXCEPT !.status = status, !.claim = "none"]]
  BY <1>1 DEF Settled
<1>4. QED BY <1>2, <1>3 DEF TypeOK

\* Recovery takes the batches whose claim is not live from "delivering".
LEMMA RecoveredType ==
  ASSUME TypeOK
  PROVE  /\ Recovered \in [Ids -> Batch]
         /\ \A b \in Ids :
              \/ Recovered[b] = batch[b]
              \/ /\ batch[b].status = "delivering" /\ Recovered[b].status = "retry_wait"
                 /\ Recovered[b].claim = "none" /\ Recovered[b].attempts = batch[b].attempts
<1> DEFINE row(b) == [batch[b] EXCEPT !.status = "retry_wait", !.claim = "none"]
<1>1. ASSUME NEW b \in Ids
      PROVE /\ row(b) \in Batch /\ row(b).status = "retry_wait" /\ row(b).claim = "none"
            /\ row(b).attempts = batch[b].attempts
  <2>1. batch[b] \in Batch
    BY DEF TypeOK
  <2>2. QED BY <2>1 DEF Batch, Claimable
<1> HIDE DEF row
<1>2. Recovered = [b \in Ids |-> IF Recoverable(b) THEN row(b) ELSE batch[b]]
  BY DEF Recovered, row
<1>3. \A b \in Ids : Recoverable(b) => batch[b].status = "delivering"
  BY DEF Recoverable
<1>4. QED BY <1>1, <1>2, <1>3 DEF TypeOK

\* Every step keeps the types and the bound on attempts (all of DataExport).
LEMMA TypeStep == TInv /\ [Next]_vars => TInv'
<1> SUFFICES ASSUME TInv, [Next]_vars PROVE TInv'
  OBVIOUS
<1> USE ExportAssumption DEF TInv
<1>n. /\ MaxAttempts + MaxStops \in Nat /\ sealed \in Int /\ built \in Int /\ stops \in Int
      /\ \A b \in Ids : batch[b] \in Batch /\ batch[b].attempts \in Int /\ b \in Int
  BY DEF TypeOK, Batch, Ids
<1>i. Idle \in Call
  BY DEF Idle, Call
<1>1. CASE UNCHANGED vars
  BY <1>1 DEF vars, node, TypeOK, AttemptsBounded, Unused, StopsLeft, Resting
<1>2. CASE Consent
  <2>1. CASE AcceptProfile
    BY <2>1 DEF AcceptProfile, TypeOK, AttemptsBounded, Unused, StopsLeft, Resting
  <2>2. ASSUME NEW c \in Categories, NEW export \in BOOLEAN, GrantConsent(c, export) PROVE TInv'
    <3>1. [state |-> "active", export |-> export] \in Grant
      BY DEF Grant
    <3>2. grants' \in [Categories -> Seq(Grant)]
      BY <2>2, <3>1 DEF GrantConsent, TypeOK
    <3>3. QED BY <2>2, <3>2 DEF GrantConsent, TypeOK, AttemptsBounded, Unused, StopsLeft, Resting
  <2>3. ASSUME NEW c \in Categories, NEW i \in DOMAIN grants[c], NEW s \in {"withdrawn", "expired"},
               grants' = [grants EXCEPT ![c][i].state = s]
        PROVE  grants' \in [Categories -> Seq(Grant)]
    <3>1. grants[c] \in Seq(Grant)
      BY DEF TypeOK
    <3>2. grants[c][i] \in Grant
      BY <3>1
    <3>3. [grants[c][i] EXCEPT !.state = s] \in Grant
      BY <3>2 DEF Grant
    <3>4. [grants[c] EXCEPT ![i] = [grants[c][i] EXCEPT !.state = s]] \in Seq(Grant)
      BY <3>1, <3>3
    <3>5. grants' = [grants EXCEPT ![c] = [grants[c] EXCEPT ![i] = [grants[c][i] EXCEPT !.state = s]]]
      BY <2>3
    <3>6. QED BY <3>4, <3>5 DEF TypeOK
  <2>4. ASSUME NEW c \in Categories, NEW i \in DOMAIN grants[c],
               NEW to \in {"quarantined", "cancelled"}, WithdrawConsent(c, i, to)
        PROVE  TInv'
    <3>1. rec' \in [Records -> Record]
      BY <2>4, SetStatusType DEF WithdrawConsent, TypeOK
    <3>2. grants' \in [Categories -> Seq(Grant)]
      BY <2>3, <2>4 DEF WithdrawConsent
    <3>3. QED BY <2>4, <3>1, <3>2 DEF WithdrawConsent, TypeOK, AttemptsBounded, Unused, StopsLeft, Resting
  <2>5. ASSUME NEW c \in Categories, NEW i \in DOMAIN grants[c], GrantExpires(c, i) PROVE TInv'
    <3>1. grants' \in [Categories -> Seq(Grant)]
      BY <2>3, <2>5 DEF GrantExpires
    <3>2. QED BY <2>5, <3>1 DEF GrantExpires, TypeOK, AttemptsBounded, Unused, StopsLeft, Resting
  <2>6. QED BY <1>2, <2>1, <2>2, <2>4, <2>5 DEF Consent
<1>3. CASE Operate
  <2>1. ASSUME NEW r \in Records, Collect(r) \/ Approve(r) \/ Reject(r) PROVE TInv'
    <3>1. InitialStatus(CategoryOf(r)) \in Queued
      BY DEF InitialStatus, Queued
    <3>2. rec' \in [Records -> Record]
      BY <2>1, <3>1, SetStatusType DEF Collect, Approve, Reject, TypeOK, Queued
    <3>3. QED BY <2>1, <3>2 DEF Collect, Approve, Reject, TypeOK, AttemptsBounded, Unused, StopsLeft, Resting
  <2>2. ASSUME NEW S \in Deletable, Delete(S) PROVE TInv'
    <3>1. \A r \in Records : [rec[r] EXCEPT !.status = "deleted", !.deleted = TRUE] \in Record
      <4>1. \A r \in Records : rec[r] \in Record
        BY DEF TypeOK
      <4>2. QED BY <4>1 DEF Record
    <3>2. rec' \in [Records -> Record]
      BY <2>2, <3>1 DEF Delete, TypeOK
    <3>3. version' \in [Versions -> Version]
      BY <2>2 DEF Delete, TypeOK, Version
    <3>4. QED BY <2>2, <3>2, <3>3 DEF Delete, TypeOK, AttemptsBounded, Unused, StopsLeft, Resting
  <2>3. ASSUME NEW c \in Callers, NEW S \in SUBSET Records, SealRead(c, S) PROVE TInv'
    <3>1. [Idle EXCEPT !.op = "seal", !.records = S] \in Call
      BY <1>i DEF Call
    <3>2. QED BY <2>3, <3>1 DEF SealRead, TypeOK, AttemptsBounded, Unused, StopsLeft, Resting
  <2>4. ASSUME NEW c \in Callers, NEW S \in SUBSET Training, VersionRead(c, S) PROVE TInv'
    <3>1. \E members \in SUBSET Records :
            call' = [call EXCEPT ![c] = [op |-> "version", records |-> members, at |-> built + 1]]
      BY <2>4 DEF VersionRead
    <3>2. built + 1 \in 0 .. MaxVersions
      BY <2>4 DEF VersionRead, TypeOK
    <3>3. call' \in [Callers -> Call]
      BY <3>1, <3>2 DEF TypeOK, Call
    <3>4. QED BY <2>4, <3>3 DEF VersionRead, TypeOK, AttemptsBounded, Unused, StopsLeft, Resting
  <2>5. ASSUME NEW c \in Callers, SealCommit(c) PROVE TInv'
    <3>1. Idle \in Call /\ call[c] \in Call /\ call[c].records \in SUBSET Records
      BY <1>i DEF Call, TypeOK
    <3>2. call' \in [Callers -> Call]
      BY <2>5, <3>1 DEF SealCommit, TypeOK
    <3>3. CASE UNCHANGED <<rec, batch, sealed>>
      BY <2>5, <3>2, <3>3 DEF SealCommit, TypeOK, AttemptsBounded, Unused, StopsLeft, Resting
    <3>4. CASE /\ sealed < MaxBatches /\ sealed' = sealed + 1
               /\ batch' = [batch EXCEPT ![sealed'] =
                    [status |-> "pending", records |-> call[c].records, attempts |-> 0, claim |-> "none"]]
               /\ rec' = [r \in Records |-> IF r \in call[c].records
                    THEN [rec[r] EXCEPT !.status = "batched", !.batch = sealed'] ELSE rec[r]]
      <4> DEFINE row == [status |-> "pending", records |-> call[c].records, attempts |-> 0,
                         claim |-> "none"]
      <4>0. sealed < MaxBatches /\ sealed' = sealed + 1
        BY <3>4, Zenon
      <4>1. sealed' \in Ids /\ sealed' \in 0 .. MaxBatches /\ batch[sealed'].status = "absent"
        <5>1. sealed' \in 0 .. MaxBatches /\ sealed' \in Ids
          BY <1>n, <4>0 DEF Ids, TypeOK
        <5>2. sealed' > sealed
          BY <1>n, <4>0
        <5>3. QED BY <5>1, <5>2 DEF Unused
      <4>2. row \in Batch
        BY <1>n, <3>1 DEF Batch, Claimable
      <4>3. batch' \in [Ids -> Batch]
        <5>1. batch' = [batch EXCEPT ![sealed'] = row]
          BY <3>4
        <5> HIDE DEF row
        <5>2. QED BY <4>1, <4>2, <5>1 DEF TypeOK
      <4>4. \A r \in Records : [rec[r] EXCEPT !.status = "batched", !.batch = sealed'] \in Record
        <5>1. ASSUME NEW r \in Records
              PROVE  [rec[r] EXCEPT !.status = "batched", !.batch = sealed'] \in Record
          <6>1. rec[r] \in Record
            BY DEF TypeOK
          <6>2. QED BY <4>1, <6>1 DEF Record, Queued
        <5>2. QED BY <5>1
      <4>5. rec' \in [Records -> Record]
        BY <3>4, <4>4 DEF TypeOK
      <4>6. /\ batch'[sealed'] = row /\ task[sealed'] = "none"
            /\ row.status = "pending" /\ row.claim = "none" /\ row.attempts = 0
            /\ \A b \in Ids : b # sealed' => batch'[b] = batch[b]
        BY <3>4, <4>1 DEF TypeOK
      <4> HIDE DEF row
      <4>7. TypeOK'
        <5>1. \A b \in Ids :
                /\ task'[b] # "none" => batch'[b].status = "delivering"
                /\ (batch'[b].status = "delivering") <=> (batch'[b].claim # "none")
          <6> SUFFICES ASSUME NEW b \in Ids
                       PROVE  /\ task'[b] # "none" => batch'[b].status = "delivering"
                              /\ (batch'[b].status = "delivering") <=> (batch'[b].claim # "none")
            OBVIOUS
          <6>1. CASE b = sealed'
            BY <2>5, <4>6, <6>1 DEF SealCommit
          <6>2. CASE b # sealed'
            BY <2>5, <4>6, <6>2 DEF SealCommit, TypeOK
          <6>3. QED BY <6>1, <6>2
        <5>2. /\ profile' = profile /\ enabled' = enabled /\ mode' = mode /\ grants' = grants
              /\ version' = version /\ built' = built /\ stops' = stops /\ stray' = stray
              /\ remote' = remote /\ task' = task
          BY <2>5 DEF SealCommit
        <5>3. sealed' \in 0 .. MaxBatches
          BY <4>1
        <5>4. QED BY <3>2, <4>3, <4>5, <5>1, <5>2, <5>3 DEF TypeOK
      <4>8. AttemptsBounded'
        <5>1. ASSUME NEW b \in Ids, b = sealed' PROVE batch'[b].attempts < MaxAttempts + stops
          BY <1>n, <4>6, <5>1 DEF TypeOK
        <5>2. ASSUME NEW b \in Ids, b # sealed' PROVE batch'[b] = batch[b]
          BY <4>6, <5>2
        <5>3. stops' = stops /\ mode' = mode
          BY <2>5 DEF SealCommit
        <5>4. ASSUME NEW b \in Ids
              PROVE  /\ batch'[b].attempts <= MaxAttempts + stops'
                     /\ batch'[b].status \in Claimable \/ mode' = "down"
                          => batch'[b].attempts < MaxAttempts + stops'
          <6>1. CASE b = sealed'
            BY <1>n, <4>6, <5>1, <5>3, <6>1
          <6>2. CASE b # sealed'
            BY <5>2, <5>3, <6>2 DEF AttemptsBounded
          <6>3. QED BY <6>1, <6>2
        <5>5. QED BY <5>4 DEF AttemptsBounded
      <4>9. Unused' /\ StopsLeft' /\ Resting'
        <5>1. ASSUME NEW b \in Ids, b > sealed' PROVE b > sealed /\ b # sealed'
          BY <1>n, <4>0, <5>1
        <5>2. Unused'
          BY <4>6, <5>1 DEF Unused
        <5>3. UNCHANGED <<mode, stops, task>>
          BY <2>5 DEF SealCommit
        <5>4. QED BY <5>2, <5>3 DEF StopsLeft, Resting
      <4>10. QED BY <4>7, <4>8, <4>9
    <3>5. QED BY <2>5, <3>3, <3>4 DEF SealCommit
  <2>6. ASSUME NEW c \in Callers, VersionCommit(c) PROVE TInv'
    <3>1. Idle \in Call /\ call[c] \in Call /\ call[c].records \in SUBSET Records
      BY <1>i DEF Call, TypeOK
    <3>2. call' \in [Callers -> Call]
      BY <2>6, <3>1 DEF VersionCommit, TypeOK
    <3>3. CASE UNCHANGED <<built, version>>
      BY <2>6, <3>2, <3>3 DEF VersionCommit, TypeOK, AttemptsBounded, Unused, StopsLeft, Resting
    <3>4. CASE /\ call[c].at = built + 1 /\ built' = built + 1
               /\ version' = [version EXCEPT ![built'] = [members |-> call[c].records, excluded |-> {}]]
      <4>1. call[c].at \in 0 .. MaxVersions
        BY <3>1 DEF Call
      <4>2. built' \in 0 .. MaxVersions
        BY <1>n, <3>4, <4>1 DEF TypeOK
      <4>3. [members |-> call[c].records, excluded |-> {}] \in Version
        BY <3>1 DEF Version
      <4>4. version' \in [Versions -> Version]
        BY <3>4, <4>3 DEF TypeOK
      <4>5. QED BY <2>6, <3>2, <4>2, <4>4 DEF VersionCommit, TypeOK, AttemptsBounded, Unused, StopsLeft, Resting
    <3>5. QED BY <2>6, <3>3, <3>4 DEF VersionCommit
  <2>7. ASSUME NEW b \in Ids, Redrive(b) PROVE TInv'
    <3>0. 0 \in 0 .. (MaxAttempts + MaxStops)
      BY <1>n
    <3>1. [batch[b] EXCEPT !.status = "pending", !.attempts = 0] \in Batch
      <4>1. batch[b] \in Batch
        BY DEF TypeOK
      <4>2. QED BY <3>0, <4>1 DEF Batch, Claimable
    <3>2. batch' \in [Ids -> Batch]
      BY <2>7, <3>1 DEF Redrive, TypeOK
    <3>3. /\ batch[b].status = "dead_letter" /\ batch'[b].status = "pending"
          /\ batch'[b].attempts = 0 /\ batch'[b].claim = batch[b].claim
          /\ \A k \in Ids : k # b => batch'[k] = batch[k]
      <4>1. batch[b] \in Batch
        BY DEF TypeOK
      <4>2. QED BY <2>7, <4>1 DEF Redrive, TypeOK, Batch
    <3>4. TypeOK'
      BY <2>7, <3>2, <3>3 DEF Redrive, TypeOK
    <3>5. UNCHANGED <<mode, stops, sealed, task>> /\ mode = "up"
      BY <2>7 DEF Redrive
    <3>6. Unused'
      BY <3>3, <3>5 DEF Unused
    <3>7. AttemptsBounded'
      <4>1. stops \in Nat /\ MaxAttempts \in Nat /\ 0 < MaxAttempts + stops
        BY <1>n DEF TypeOK
      <4>2. QED BY <3>3, <3>5, <4>1 DEF AttemptsBounded
    <3>8. QED BY <3>4, <3>5, <3>6, <3>7 DEF StopsLeft, Resting
  <2>8. ASSUME NEW on \in BOOLEAN, SetDestinationEnabled(on) PROVE TInv'
    BY <2>8 DEF SetDestinationEnabled, TypeOK, AttemptsBounded, Unused, StopsLeft, Resting
  <2>9. QED BY <1>3, <2>1, <2>2, <2>3, <2>4, <2>5, <2>6, <2>7, <2>8 DEF Operate
<1>4. ASSUME NEW b \in Ids, Deliver(b) PROVE TInv'
  <2>b. batch[b] \in Batch /\ batch[b].attempts \in Nat /\ stops \in Nat
    BY DEF TypeOK, Batch
  <2>1. CASE Claim(b)
    <3>1. batch[b].attempts + 1 \in 0 .. (MaxAttempts + MaxStops)
      BY <2>1, <2>b DEF Claim, Due, AttemptsBounded, TypeOK
    <3>2. [batch[b] EXCEPT !.status = "delivering", !.claim = "live", !.attempts = @ + 1] \in Batch
      BY <2>b, <3>1 DEF Batch
    <3>3. batch' \in [Ids -> Batch]
      BY <2>1, <3>2 DEF Claim, TypeOK
    <3>4. QED BY <2>1, <2>b, <3>3 DEF Claim, Due, TypeOK, AttemptsBounded, Unused, StopsLeft, Resting, Claimable, Batch
  <2>2. CASE Post(b)
    BY <2>2 DEF Post, TypeOK, AttemptsBounded, Unused, StopsLeft, Resting
  <2>3. CASE Answered(b)
    BY <2>3 DEF Answered, Ingested, TypeOK, AttemptsBounded, Unused, StopsLeft, Resting
  <2>4. CASE FinalizeSuccess(b)
    <3>1. rec' \in [Records -> Record]
      BY <2>4, SetStatusType DEF FinalizeSuccess, TypeOK
    <3>2. task[b] # "none"
      BY <2>4 DEF FinalizeSuccess
    <3>3. /\ batch' = [batch EXCEPT ![b] = [@ EXCEPT !.status = "receipt_verified", !.claim = "none"]]
          /\ batch' \in [Ids -> Batch]
      BY <2>4, <3>2, SettledType DEF FinalizeSuccess
    <3>4. /\ batch'[b].status = "receipt_verified" /\ batch'[b].claim = "none"
          /\ batch'[b].attempts = batch[b].attempts /\ batch[b].status = "delivering"
          /\ \A k \in Ids : k # b => batch'[k] = batch[k]
      BY <2>b, <3>2, <3>3 DEF Batch, TypeOK
    <3>5. TypeOK'
      BY <2>4, <3>1, <3>3, <3>4 DEF FinalizeSuccess, TypeOK
    <3>6. (AttemptsBounded /\ Unused /\ StopsLeft /\ Resting)'
      BY <2>4, <2>b, <3>4 DEF FinalizeSuccess, AttemptsBounded, Unused, StopsLeft, Resting, Claimable
    <3>7. QED BY <3>5, <3>6
  <2>5. CASE FinalizeFailure(b)
    <3>1. task[b] # "none" /\ AfterFailure(b) \in Claimable \cup {"receipt_verified", "dead_letter"}
      BY <2>5 DEF FinalizeFailure, AfterFailure, Claimable
    <3>2. /\ batch' = [batch EXCEPT ![b] = [@ EXCEPT !.status = AfterFailure(b), !.claim = "none"]]
          /\ batch' \in [Ids -> Batch]
      BY <2>5, <3>1, SettledType DEF FinalizeFailure
    <3>3. /\ batch'[b].status = AfterFailure(b) /\ batch'[b].claim = "none"
          /\ batch'[b].attempts = batch[b].attempts /\ batch[b].status = "delivering"
          /\ \A k \in Ids : k # b => batch'[k] = batch[k]
      BY <2>b, <3>1, <3>2 DEF Batch, TypeOK
    <3>4. TypeOK'
      BY <2>5, <3>1, <3>2, <3>3 DEF FinalizeFailure, TypeOK, Claimable
    <3>5. (AttemptsBounded /\ Unused /\ StopsLeft /\ Resting)'
      BY <1>n, <2>5, <2>b, <3>3
      DEF FinalizeFailure, AfterFailure, AttemptsBounded, Unused, StopsLeft, Resting, Claimable
    <3>6. QED BY <3>4, <3>5
  <2>6. QED BY <1>4, <2>1, <2>2, <2>3, <2>4, <2>5 DEF Deliver
<1>5. CASE Befall
  <2>1. ASSUME NEW b \in Ids, Refused(b) PROVE TInv'
    BY <2>1 DEF Refused, TypeOK, AttemptsBounded, Unused, StopsLeft, Resting
  <2>2. ASSUME NEW b \in Ids, ArrivesLate(b) PROVE TInv'
    BY <2>2 DEF ArrivesLate, Ingested, node, TypeOK, AttemptsBounded, Unused, StopsLeft, Resting
  <2>3. ASSUME NEW b \in Ids, TaskDies(b) PROVE TInv'
    BY <2>3 DEF TaskDies, TypeOK, AttemptsBounded, Unused, StopsLeft, Resting
  <2>4. ASSUME NEW b \in Ids, LeaseExpires(b) PROVE TInv'
    <3>1. [batch[b] EXCEPT !.claim = "expired"] \in Batch
      <4>1. batch[b] \in Batch
        BY DEF TypeOK
      <4>2. QED BY <4>1 DEF Batch
    <3>2. batch' \in [Ids -> Batch]
      BY <2>4, <3>1 DEF LeaseExpires, TypeOK
    <3>3. /\ batch'[b].status = batch[b].status /\ batch'[b].attempts = batch[b].attempts
          /\ batch[b].claim = "live" /\ batch'[b].claim = "expired"
          /\ \A k \in Ids : k # b => batch'[k] = batch[k]
      BY <1>n, <2>4 DEF LeaseExpires, TypeOK, Batch
    <3>4. TypeOK'
      BY <2>4, <3>2, <3>3 DEF LeaseExpires, TypeOK
    <3>5. (AttemptsBounded /\ Unused /\ StopsLeft /\ Resting)'
      BY <2>4, <3>3 DEF LeaseExpires, AttemptsBounded, Unused, StopsLeft, Resting
    <3>6. QED BY <3>4, <3>5
  <2>5. CASE Stop
    BY <2>5 DEF Stop, TypeOK, AttemptsBounded, Unused, StopsLeft, Resting
  <2>6. CASE Crash
    BY <2>6 DEF Crash, Gone, TypeOK, AttemptsBounded, Unused, StopsLeft, Resting, Idle, Call, Batch
  <2>7. QED BY <1>5, <2>1, <2>2, <2>3, <2>4, <2>5, <2>6 DEF Befall
<1>6. CASE StopEnds
  <2>1. /\ stops' = stops + 1 /\ stops' \in 0 .. MaxStops /\ mode' = "down"
        /\ \A b \in Ids : task'[b] = "none"
    BY <1>n, <1>6 DEF StopEnds, Gone, TypeOK, StopsLeft
  <2>2. \A b \in Ids :
          /\ batch'[b].attempts = batch[b].attempts /\ batch'[b].attempts \in Int
          /\ (batch'[b].status = "delivering") <=> (batch'[b].claim # "none")
          /\ batch[b].status = "absent" => batch'[b].status = "absent"
    BY <1>n, <1>6, RecoveredType DEF StopEnds, TypeOK, Batch
  <2>3. TypeOK'
    BY <1>6, <2>1, <2>2, RecoveredType DEF StopEnds, Gone, TypeOK
  <2>4. (AttemptsBounded /\ Unused /\ StopsLeft /\ Resting)'
    BY <1>n, <1>6, <2>1, <2>2 DEF StopEnds, AttemptsBounded, Unused, StopsLeft, Resting
  <2>5. QED BY <2>3, <2>4
<1>7. CASE Start
  <2>1. \A b \in Ids :
          /\ batch'[b].attempts = batch[b].attempts
          /\ (batch'[b].status = "delivering") <=> (batch'[b].claim # "none")
          /\ task[b] # "none" => batch'[b].status = "delivering"
          /\ batch[b].status = "absent" => batch'[b].status = "absent"
    <3>1. \A b \in Ids : task[b] = "none"
      BY <1>7 DEF Start, Resting
    <3>2. batch' = Recovered
      BY <1>7 DEF Start
    <3>3. QED BY <3>1, <3>2, RecoveredType DEF TypeOK
  <2>2. TypeOK'
    BY <1>7, <2>1, RecoveredType DEF Start, TypeOK
  <2>3. (AttemptsBounded /\ Unused /\ StopsLeft /\ Resting)'
    BY <1>n, <1>7, <2>1 DEF Start, AttemptsBounded, Unused, StopsLeft, Resting
  <2>4. QED BY <2>2, <2>3
<1>8. QED BY <1>1, <1>2, <1>3, <1>4, <1>5, <1>6, <1>7 DEF Next

LEMMA TypeInit == Init => TInv
<1> SUFFICES ASSUME Init PROVE TInv
  OBVIOUS
<1> USE ExportAssumption DEF Init
<1>1. /\ <<>> \in Seq(Grant) /\ Idle \in Call /\ 0 \in 0 .. (MaxAttempts + MaxStops)
      /\ [status |-> "absent", batch |-> 0, deleted |-> FALSE] \in Record
      /\ [members |-> {}, excluded |-> {}] \in Version
  BY DEF Idle, Call, Record, Version
<1>2. [status |-> "absent", records |-> {}, attempts |-> 0, claim |-> "none"] \in Batch
  BY <1>1 DEF Batch
<1>3. /\ rec \in [Records -> Record] /\ batch \in [Ids -> Batch]
      /\ version \in [Versions -> Version] /\ call \in [Callers -> Call]
      /\ grants \in [Categories -> Seq(Grant)] /\ remote \in SUBSET Ids /\ stray \in SUBSET Ids
      /\ task \in [Ids -> {"none", "claimed", "posted", "accepted", "failed"}]
      /\ \A b \in Ids : task[b] = "none"
      /\ \A b \in Ids : batch[b].status = "absent" /\ batch[b].claim = "none" /\ batch[b].attempts = 0
  BY <1>1, <1>2
<1>b. /\ profile \in BOOLEAN /\ enabled \in BOOLEAN /\ mode \in {"up", "stopping", "down"}
      /\ sealed \in 0 .. MaxBatches /\ built \in 0 .. MaxVersions /\ stops \in 0 .. MaxStops
  <2>1. profile \in BOOLEAN /\ enabled \in BOOLEAN /\ mode \in {"up", "stopping", "down"}
    BY Zenon
  <2>2. sealed \in 0 .. MaxBatches /\ built \in 0 .. MaxVersions /\ stops \in 0 .. MaxStops
    OBVIOUS
  <2>3. QED BY <2>1, <2>2, Zenon
<1>t. TypeOK
  BY <1>3, <1>b, Zenon DEF TypeOK
<1>4. QED BY <1>3, <1>t DEF TInv, AttemptsBounded, Unused, StopsLeft, Resting, Claimable

LEMMA TypeInvariant == Spec => []TInv
BY TypeInit, TypeStep, PTL DEF Spec

\* TypeOK, and with it that claims and tasks agree (claim, release_and_update).
THEOREM TypeCorrect == Spec => []TypeOK
BY TypeInvariant, PTL DEF TInv

-------------------------------------------------------------------------------
(* Receipts and settled batches.                                           *)

\* A task that has its answer has it because the service took the batch.
Acknowledged == \A b \in Ids : task[b] = "accepted" => b \in remote

SInv == TInv /\ ReceiptMeansStored /\ SettledTogether /\ Acknowledged

Verified(b) == batch[b].status = "receipt_verified"

\* A step that verifies and reopens no batch, and that gives up a record of a
\* verified batch only by deleting it, keeps receipts honest and batches settled.
LEMMA Keeps ==
  ASSUME SInv, TInv', remote \subseteq remote',
         \A b \in Ids : task'[b] = "accepted" => task[b] = "accepted" \/ b \in remote',
         \A b \in Ids : Verified(b)' = Verified(b),
         \A r \in Records :
           \/ rec'[r].status = rec[r].status /\ rec'[r].batch = rec[r].batch
           \/ /\ rec'[r].status # "receipt_verified" /\ rec'[r].batch = rec[r].batch
              /\ rec'[r].status = "deleted" \/ rec[r].status \notin {"receipt_verified", "deleted"}
           \/ /\ rec'[r].status # "receipt_verified" /\ rec'[r].batch \in Ids
              /\ batch[rec'[r].batch].status # "receipt_verified"
  PROVE  SInv'
<1>r. \A r \in Records : rec[r].batch \in 0 .. MaxBatches /\ rec'[r].batch \in 0 .. MaxBatches
  BY DEF SInv, TInv, TypeOK, Record
<1>i. \A k \in 0 .. MaxBatches : k # 0 => k \in Ids
  BY DEF Ids
<1>1. Acknowledged'
  BY DEF SInv, Acknowledged
<1>2. ASSUME NEW b \in Ids, Verified(b)' PROVE b \in remote'
  BY <1>2 DEF SInv, ReceiptMeansStored, Verified
<1>3. ASSUME NEW r \in Records, rec'[r].status = "receipt_verified"
      PROVE  rec'[r].batch # 0 /\ batch'[rec'[r].batch].status = "receipt_verified"
  <2>1. rec[r].status = "receipt_verified" /\ rec[r].batch = rec'[r].batch
    BY <1>3
  <2>2. rec[r].batch # 0 /\ Verified(rec[r].batch)
    BY <2>1 DEF SInv, ReceiptMeansStored, Verified
  <2>3. rec[r].batch \in Ids
    BY <1>r, <1>i, <2>2
  <2>4. batch'[rec[r].batch].status = "receipt_verified"
    BY <2>2, <2>3 DEF Verified
  <2>5. QED BY <2>1, <2>2, <2>4 DEF Verified
<1>4. ASSUME NEW b \in Ids, Verified(b)', NEW r \in Records, rec'[r].batch = b
      PROVE  rec'[r].status \in {"receipt_verified", "deleted"}
  <2>1. Verified(b)
    BY <1>4
  <2>2. rec[r].batch = b => rec[r].status \in {"receipt_verified", "deleted"}
    BY <2>1 DEF SInv, SettledTogether, InBatch, Verified
  <2>3. QED BY <1>4, <2>1, <2>2 DEF Verified
<1>5. ReceiptMeansStored'
  BY <1>2, <1>3 DEF ReceiptMeansStored, Verified
<1>6. SettledTogether'
  BY <1>4 DEF SettledTogether, InBatch, Verified
<1>7. QED BY <1>1, <1>5, <1>6 DEF SInv

\* Only a task that was answered verifies its batch, with its records (_finalize_success).
LEMMA FinalizeStep ==
  ASSUME SInv, TInv', NEW b \in Ids, FinalizeSuccess(b)
  PROVE  SInv'
<1>1. b \in remote /\ task[b] # "none" /\ TypeOK /\ rec \in [Records -> Record]
  BY DEF FinalizeSuccess, SInv, Acknowledged, TInv, TypeOK
<1>2. /\ batch' = [batch EXCEPT ![b] = [@ EXCEPT !.status = "receipt_verified", !.claim = "none"]]
      /\ batch[b] \in Batch
  BY <1>1, SettledType DEF FinalizeSuccess, TypeOK
<1>3. Verified(b)' /\ \A k \in Ids : k # b => Verified(k)' = Verified(k)
  BY <1>1, <1>2 DEF Verified, TypeOK, Batch
<1>4. \A r \in Records : /\ r \in InBatch(b) => rec'[r].status = "receipt_verified"
                         /\ r \notin InBatch(b) => rec'[r] = rec[r]
                         /\ rec'[r].batch = rec[r].batch
  <2>1. \A r \in Records : rec[r] \in Record /\ rec'[r] =
          IF r \in InBatch(b) THEN [rec[r] EXCEPT !.status = "receipt_verified"] ELSE rec[r]
    BY <1>1, SetStatusType DEF FinalizeSuccess
  <2>2. QED BY <2>1 DEF Record
<1>i. \A r \in Records : rec[r].batch \in 0 .. MaxBatches /\ (rec[r].batch # 0 => rec[r].batch \in Ids)
  BY <1>1 DEF Record, Ids
<1>5. remote' = remote /\ \A k \in Ids : task'[k] = "accepted" => task[k] = "accepted"
  BY <1>1 DEF FinalizeSuccess, TypeOK
<1>6. ReceiptMeansStored'
  <2>1. ASSUME NEW k \in Ids, Verified(k)' PROVE k \in remote'
    BY <1>1, <1>3, <1>5, <2>1 DEF SInv, ReceiptMeansStored, Verified
  <2>2. ASSUME NEW r \in Records, rec'[r].status = "receipt_verified"
        PROVE  rec'[r].batch # 0 /\ batch'[rec'[r].batch].status = "receipt_verified"
    <3>1. CASE r \in InBatch(b)
      <4>1. rec[r].batch = b /\ b # 0
        BY <3>1, ExportAssumption DEF InBatch, Ids
      <4>2. QED BY <1>3, <1>4, <4>1 DEF Verified
    <3>2. CASE r \notin InBatch(b)
      <4>1. rec[r].batch # 0 /\ rec[r].batch # b /\ Verified(rec[r].batch)
        BY <1>4, <2>2, <3>2 DEF SInv, ReceiptMeansStored, InBatch, Verified
      <4>2. batch'[rec[r].batch].status = "receipt_verified"
        BY <1>3, <1>i, <4>1 DEF Verified
      <4>3. QED BY <1>4, <4>1, <4>2 DEF Verified
    <3>3. QED BY <3>1, <3>2
  <2>3. QED BY <2>1, <2>2 DEF ReceiptMeansStored, Verified
<1>7. SettledTogether'
  <2>1. ASSUME NEW k \in Ids, Verified(k)', NEW r \in Records, rec'[r].batch = k
        PROVE  rec'[r].status \in {"receipt_verified", "deleted"}
    <3>1. CASE k = b
      BY <1>4, <2>1, <3>1 DEF InBatch
    <3>2. CASE k # b
      BY <1>3, <1>4, <2>1, <3>2 DEF SInv, SettledTogether, InBatch, Verified
    <3>3. QED BY <3>1, <3>2
  <2>2. QED BY <2>1 DEF SettledTogether, InBatch, Verified
<1>8. QED BY <1>5, <1>6, <1>7 DEF SInv, Acknowledged

\* Every step keeps receipts honest and batches settled (all of DataExport).
LEMMA SafeStep == SInv /\ [Next]_vars => SInv'
<1> SUFFICES ASSUME SInv, [Next]_vars PROVE SInv'
  OBVIOUS
<1>t. TInv /\ TInv'
  BY TypeStep DEF SInv
<1>y. /\ rec \in [Records -> Record] /\ batch \in [Ids -> Batch]
      /\ \A r \in Records : rec[r] \in Record
      /\ \A b \in Ids : batch[b] \in Batch
  BY <1>t DEF TInv, TypeOK
\* Most steps change neither records nor the status of a batch.
<1>q. ASSUME UNCHANGED <<rec, batch>>, remote \subseteq remote',
             \A b \in Ids : task'[b] = "accepted" => task[b] = "accepted" \/ b \in remote'
      PROVE  SInv'
  <2>1. /\ \A b \in Ids : Verified(b)' = Verified(b)
        /\ \A r \in Records : rec'[r].status = rec[r].status /\ rec'[r].batch = rec[r].batch
    BY <1>q DEF Verified
  <2>2. QED BY <1>q, <1>t, <2>1, Keeps
\* Others change one batch that is not verified, and do not verify it.
<1>b. ASSUME UNCHANGED <<rec, remote>>, NEW b \in Ids, ~Verified(b), batch'[b].status # "receipt_verified",
             \A k \in Ids : k # b => batch'[k] = batch[k],
             \A k \in Ids : task'[k] = "accepted" => task[k] = "accepted"
      PROVE  SInv'
  <2>1. /\ \A k \in Ids : Verified(k)' = Verified(k)
        /\ \A r \in Records : rec'[r].status = rec[r].status /\ rec'[r].batch = rec[r].batch
    BY <1>b DEF Verified
  <2>2. QED BY <1>b, <1>t, <2>1, Keeps
\* Others move records that are not settled.
<1>s. ASSUME NEW S, NEW to \in {"cancelled", "quarantined"} \cup Queued,
             rec' = SetStatus(S, to), UNCHANGED <<batch, remote, task>>,
             \A r \in Records \cap S : rec[r].status \notin {"receipt_verified", "deleted"}
      PROVE  SInv'
  <2>1. \A r \in Records : rec'[r] = IF r \in S THEN [rec[r] EXCEPT !.status = to] ELSE rec[r]
    BY <1>s, <1>y, SetStatusType
  <2>2. \A b \in Ids : Verified(b)' = Verified(b)
    BY <1>s DEF Verified
  <2>3. to # "receipt_verified"
    BY DEF Queued
  <2>4. \A r \in Records :
           \/ rec'[r].status = rec[r].status /\ rec'[r].batch = rec[r].batch
           \/ /\ rec'[r].status # "receipt_verified" /\ rec'[r].batch = rec[r].batch
              /\ rec[r].status \notin {"receipt_verified", "deleted"}
    BY <1>s, <1>y, <2>1, <2>3 DEF Record
  <2>5. QED BY <1>s, <1>t, <2>2, <2>4, Keeps
<1>1. CASE UNCHANGED vars
  BY <1>1, <1>q DEF vars, node
<1>2. CASE Consent
  <2>1. CASE AcceptProfile
    BY <1>q, <2>1 DEF AcceptProfile
  <2>2. ASSUME NEW c \in Categories, NEW export \in BOOLEAN, GrantConsent(c, export) PROVE SInv'
    BY <1>q, <2>2 DEF GrantConsent
  <2>3. ASSUME NEW c \in Categories, NEW i \in DOMAIN grants[c],
               NEW to \in {"quarantined", "cancelled"}, WithdrawConsent(c, i, to)
        PROVE  SInv'
    <3>1. \A r \in Records \cap Reconciled(c) : rec[r].status \notin {"receipt_verified", "deleted"}
      BY DEF Reconciled, Queued
    <3>2. rec' = SetStatus(Reconciled(c), to) /\ UNCHANGED <<batch, remote, task>>
      BY <2>3 DEF WithdrawConsent
    <3>3. QED BY <1>s, <3>1, <3>2
  <2>4. ASSUME NEW c \in Categories, NEW i \in DOMAIN grants[c], GrantExpires(c, i) PROVE SInv'
    BY <1>q, <2>4 DEF GrantExpires
  <2>5. QED BY <1>2, <2>1, <2>2, <2>3, <2>4 DEF Consent
<1>3. CASE Operate
  <2>1. ASSUME NEW r \in Records, Collect(r) \/ Approve(r) \/ Reject(r) PROVE SInv'
    <3>1. InitialStatus(CategoryOf(r)) \in Queued /\ "approved" \in Queued
      BY DEF InitialStatus, Queued
    <3>2. \E to \in {"cancelled"} \cup Queued : rec' = SetStatus({r}, to)
      BY <2>1, <3>1 DEF Collect, Approve, Reject
    <3>3. rec[r].status \notin {"receipt_verified", "deleted"} /\ UNCHANGED <<batch, remote, task>>
      BY <2>1 DEF Collect, Approve, Reject, Approvable
    <3>4. QED BY <1>s, <3>2, <3>3
  <2>2. ASSUME NEW S \in Deletable, Delete(S) PROVE SInv'
    <3>1. \A r \in Records : /\ r \in S => rec'[r].status = "deleted" /\ rec'[r].batch = rec[r].batch
                             /\ r \notin S => rec'[r] = rec[r]
      BY <1>y, <2>2 DEF Delete, Record
    <3>2. \A b \in Ids : Verified(b)' = Verified(b)
      BY <2>2 DEF Delete, Verified
    <3>3. UNCHANGED <<remote, task>>
      BY <2>2 DEF Delete
    <3>4. QED BY <1>t, <3>1, <3>2, <3>3, Keeps
  <2>3. ASSUME NEW c \in Callers, NEW S \in SUBSET Records, SealRead(c, S) PROVE SInv'
    BY <1>q, <2>3 DEF SealRead
  <2>4. ASSUME NEW c \in Callers, NEW S \in SUBSET Training, VersionRead(c, S) PROVE SInv'
    BY <1>q, <2>4 DEF VersionRead
  <2>5. ASSUME NEW c \in Callers, SealCommit(c) PROVE SInv'
    <3>1. UNCHANGED <<remote, task>>
      BY <2>5 DEF SealCommit
    <3>2. CASE UNCHANGED <<rec, batch>>
      BY <1>q, <3>1, <3>2
    <3>3. ASSUME sealed < MaxBatches, sealed' = sealed + 1,
                 batch' = [batch EXCEPT ![sealed'] =
                   [status |-> "pending", records |-> call[c].records, attempts |-> 0, claim |-> "none"]],
                 rec' = [r \in Records |-> IF r \in call[c].records
                   THEN [rec[r] EXCEPT !.status = "batched", !.batch = sealed'] ELSE rec[r]]
          PROVE  SInv'
      <4>1. sealed' \in Ids /\ sealed' > sealed
        <5>1. sealed \in 0 .. MaxBatches /\ MaxBatches \in Nat
          BY <1>t, ExportAssumption DEF TInv, TypeOK
        <5>2. sealed' = sealed + 1 /\ sealed < MaxBatches
          BY <3>3, Zenon
        <5>3. QED BY <5>1, <5>2 DEF Ids
      <4>2. batch[sealed'].status = "absent"
        BY <1>t, <4>1 DEF TInv, Unused
      <4>3. batch'[sealed'].status = "pending" /\ \A b \in Ids : b # sealed' => batch'[b] = batch[b]
        BY <1>y, <3>3, <4>1
      <4>4. \A b \in Ids : Verified(b)' = Verified(b)
        BY <4>2, <4>3 DEF Verified
      <4>5. \A r \in Records :
              \/ rec'[r] = rec[r]
              \/ rec'[r].status # "receipt_verified" /\ rec'[r].batch = sealed'
        BY <1>y, <3>3 DEF Record
      <4>6. QED BY <1>t, <3>1, <4>1, <4>2, <4>4, <4>5, Keeps
    <3>4. QED BY <2>5, <3>2, <3>3 DEF SealCommit
  <2>6. ASSUME NEW c \in Callers, VersionCommit(c) PROVE SInv'
    BY <1>q, <2>6 DEF VersionCommit
  <2>7. ASSUME NEW b \in Ids, Redrive(b) PROVE SInv'
    <3>1. batch[b].status = "dead_letter" /\ batch'[b].status = "pending"
          /\ \A k \in Ids : k # b => batch'[k] = batch[k]
      BY <1>y, <2>7 DEF Redrive, Batch
    <3>2. UNCHANGED <<rec, remote, task>>
      BY <2>7 DEF Redrive
    <3>3. QED BY <1>b, <3>1, <3>2 DEF Verified
  <2>8. ASSUME NEW on \in BOOLEAN, SetDestinationEnabled(on) PROVE SInv'
    BY <1>q, <2>8 DEF SetDestinationEnabled
  <2>9. QED BY <1>3, <2>1, <2>2, <2>3, <2>4, <2>5, <2>6, <2>7, <2>8 DEF Operate
<1>4. ASSUME NEW b \in Ids, Deliver(b) PROVE SInv'
  <2>k. \A k \in Ids : task[k] \in {"none", "claimed", "posted", "accepted", "failed"}
        /\ task \in [Ids -> {"none", "claimed", "posted", "accepted", "failed"}]
    BY <1>t DEF TInv, TypeOK
  <2>1. CASE Claim(b)
    <3>1. batch[b].status \in Claimable /\ batch'[b].status = "delivering"
          /\ \A k \in Ids : k # b => batch'[k] = batch[k]
      BY <1>y, <2>1 DEF Claim, Due, Batch
    <3>2. UNCHANGED <<rec, remote>> /\ \A k \in Ids : task'[k] = "accepted" => task[k] = "accepted"
      BY <2>1, <2>k DEF Claim
    <3>3. QED BY <1>b, <3>1, <3>2 DEF Verified, Claimable
  <2>2. CASE Post(b)
    BY <1>q, <2>2, <2>k DEF Post
  <2>3. CASE Answered(b)
    BY <1>q, <2>3, <2>k DEF Answered, Ingested
  <2>4. CASE FinalizeSuccess(b)
    BY <1>t, <2>4, FinalizeStep
  <2>5. CASE FinalizeFailure(b)
    <3>1. task[b] # "none" /\ AfterFailure(b) \in Claimable \cup {"receipt_verified", "dead_letter"}
          /\ AfterFailure(b) # "receipt_verified" /\ TypeOK /\ batch[b].status = "delivering"
      BY <1>t, <2>5 DEF FinalizeFailure, AfterFailure, Claimable, TInv, TypeOK
    <3>2. batch' = [batch EXCEPT ![b] = [@ EXCEPT !.status = AfterFailure(b), !.claim = "none"]]
      BY <2>5, <3>1, SettledType DEF FinalizeFailure
    <3>3. batch'[b].status = AfterFailure(b) /\ \A k \in Ids : k # b => batch'[k] = batch[k]
      BY <1>y, <3>2 DEF Batch
    <3>4. UNCHANGED <<rec, remote>> /\ \A k \in Ids : task'[k] = "accepted" => task[k] = "accepted"
      BY <2>5, <2>k DEF FinalizeFailure
    <3>5. QED BY <1>b, <3>1, <3>3, <3>4 DEF Verified
  <2>6. QED BY <1>4, <2>1, <2>2, <2>3, <2>4, <2>5 DEF Deliver
\* A restart takes only batches that are being delivered.
<1>r. ASSUME batch' = Recovered, UNCHANGED <<rec, remote>>,
             \A k \in Ids : task'[k] = "accepted" => task[k] = "accepted"
      PROVE  SInv'
  <2>1. \A b \in Ids : Verified(b)' = Verified(b)
    BY <1>r, <1>t, RecoveredType DEF TInv, Verified
  <2>2. \A r \in Records : rec'[r].status = rec[r].status /\ rec'[r].batch = rec[r].batch
    BY <1>r
  <2>3. QED BY <1>r, <1>t, <2>1, <2>2, Keeps
<1>5. CASE Befall
  <2>k. task \in [Ids -> {"none", "claimed", "posted", "accepted", "failed"}]
    BY <1>t DEF TInv, TypeOK
  <2>1. ASSUME NEW b \in Ids, Refused(b) PROVE SInv'
    BY <1>q, <2>1, <2>k DEF Refused
  <2>2. ASSUME NEW b \in Ids, ArrivesLate(b) PROVE SInv'
    BY <1>q, <2>2 DEF ArrivesLate, Ingested, node
  <2>3. ASSUME NEW b \in Ids, TaskDies(b) PROVE SInv'
    BY <1>q, <2>3, <2>k DEF TaskDies
  <2>4. ASSUME NEW b \in Ids, LeaseExpires(b) PROVE SInv'
    <3>1. batch'[b].status = batch[b].status /\ \A k \in Ids : k # b => batch'[k] = batch[k]
      BY <1>y, <2>4 DEF LeaseExpires, Batch
    <3>2. batch[b].status = "delivering"
      BY <1>t, <2>4 DEF LeaseExpires, TInv, TypeOK
    <3>3. UNCHANGED <<rec, remote, task>>
      BY <2>4 DEF LeaseExpires
    <3>4. QED BY <1>b, <3>1, <3>2, <3>3 DEF Verified
  <2>5. CASE Stop
    BY <1>q, <2>5 DEF Stop
  <2>6. CASE Crash
    BY <1>q, <2>6 DEF Crash, Gone
  <2>7. QED BY <1>5, <2>1, <2>2, <2>3, <2>4, <2>5, <2>6 DEF Befall
<1>6. CASE StopEnds
  BY <1>r, <1>6 DEF StopEnds, Gone
<1>7. CASE Start
  BY <1>r, <1>7 DEF Start
<1>8. QED BY <1>1, <1>2, <1>3, <1>4, <1>5, <1>6, <1>7 DEF Next

LEMMA SafeInit == Init => SInv
<1> SUFFICES ASSUME Init PROVE SInv
  OBVIOUS
<1>1. TInv
  BY TypeInit
<1>2. /\ \A b \in Ids : batch[b].status = "absent" /\ task[b] = "none"
      /\ \A r \in Records : rec[r].status = "absent"
  BY DEF Init
<1>3. QED BY <1>1, <1>2 DEF SInv, ReceiptMeansStored, SettledTogether, Acknowledged

LEMMA SafeInvariant == Spec => []SInv
BY SafeInit, SafeStep, PTL DEF Spec

\* A verified receipt is about data that the service took, whatever answers were
\* lost, late or repeated and whenever the node stopped (deliver_batch).
THEOREM ReceiptMeansStoredHolds == Spec => []ReceiptMeansStored
BY SafeInvariant, PTL DEF SInv

\* The records of a verified batch are verified or deleted (_finalize_success).
THEOREM SettledTogetherHolds == Spec => []SettledTogether
BY SafeInvariant, PTL DEF SInv

-------------------------------------------------------------------------------
(* Dataset versions.                                                       *)

Consented == grants["training"] # <<>> /\ profile
Sent(r)   == \E b \in Ids : r \in batch[b].records /\ b \in remote
Known(r)  == rec[r].status # "absent"

\* Consent to training is given under an accepted policy, and comes before the
\* first record of the category; grants end, but their rows and the policy stay.
ConsentFirst ==
  \A r \in Training : /\ grants["training"] # <<>> => profile
                      /\ Known(r) => Consented
\* A record's row names a batch that holds it; a batch's records are settled when
\* it is sealed.
Enclosed ==
  /\ \A r \in Records : rec[r].batch # 0 => Known(r) /\ r \in batch[rec[r].batch].records
  /\ \A b \in Ids : b > sealed => batch[b].records = {}
\* What a thread read before it builds a version is still true when it does: a
\* record that was taken by the service stays taken, whatever befalls its row.
ReadStands ==
  \A c \in Callers : \A r \in call[c].records :
    Known(r) /\ (call[c].op = "version" => r \in Training /\ Sent(r))
Members == \A v \in 1 .. built : \A r \in version[v].members : r \in Training /\ Known(r) /\ Sent(r)

DInv == SInv /\ ConsentFirst /\ Enclosed /\ ReadStands /\ Members

\* A step that makes only known records known, that keeps what the service and
\* the sealed batches hold, and that puts into calls and versions only what was
\* eligible, keeps versions made of delivered records.
LEMMA StaysDelivered ==
  ASSUME DInv, SInv',
         \A r \in Training : /\ grants'["training"] # <<>> => profile'
                             /\ Consented => Consented'
                             /\ Known(r)' => Known(r) \/ Consented',
         \A r \in Records :
           /\ Known(r) => Known(r)'
           /\ \/ rec'[r].batch = rec[r].batch
              \/ Known(r)' /\ r \in batch'[rec'[r].batch].records,
         \A b \in Ids : /\ batch[b].records \subseteq batch'[b].records
                        /\ b > sealed' => batch'[b].records = {},
         remote \subseteq remote',
         \A c \in Callers : \A r \in call'[c].records :
           \/ call'[c] = call[c]
           \/ Known(r)' /\ (call'[c].op = "version" => r \in Training /\ Sent(r)),
         \A v \in 1 .. built' : \A r \in version'[v].members :
           \/ v \in 1 .. built /\ r \in version[v].members
           \/ \E c \in Callers : call[c].op = "version" /\ r \in call[c].records
  PROVE  DInv'
<1>y. /\ rec \in [Records -> Record] /\ rec' \in [Records -> Record] /\ Training \subseteq Records
      /\ call \in [Callers -> Call] /\ call' \in [Callers -> Call]
  BY ExportAssumption DEF DInv, SInv, TInv, TypeOK
<1>s. \A r \in Records : Sent(r) => Sent(r)'
  BY DEF Sent
<1>1. ConsentFirst'
  BY <1>y DEF DInv, ConsentFirst
<1>2. Enclosed'
  <2>1. ASSUME NEW r \in Records, rec'[r].batch # 0
        PROVE  Known(r)' /\ r \in batch'[rec'[r].batch].records
    <3>1. CASE rec'[r].batch = rec[r].batch
      <4>1. Known(r) /\ r \in batch[rec[r].batch].records
        BY <2>1, <3>1 DEF DInv, Enclosed
      <4>2. rec[r].batch \in Ids
        BY <1>y, <2>1, <3>1 DEF Record, Ids
      <4>3. QED BY <3>1, <4>1, <4>2
    <3>2. QED BY <3>1
  <2>2. QED BY <2>1 DEF Enclosed, Known
<1>3. ReadStands'
  <2>1. ASSUME NEW c \in Callers, NEW r \in call'[c].records
        PROVE  Known(r)' /\ (call'[c].op = "version" => r \in Training /\ Sent(r)')
    <3>1. r \in Records
      BY <1>y DEF Call
    <3>2. CASE call'[c] = call[c]
      <4>1. Known(r) /\ (call[c].op = "version" => r \in Training /\ Sent(r))
        BY <3>2 DEF DInv, ReadStands
      <4>2. QED BY <1>s, <3>1, <3>2, <4>1
    <3>3. CASE Known(r)' /\ (call'[c].op = "version" => r \in Training /\ Sent(r))
      BY <1>s, <3>1, <3>3
    <3>4. QED BY <3>2, <3>3
  <2>2. QED BY <2>1 DEF ReadStands, Known, Sent
<1>4. Members'
  <2>1. ASSUME NEW v \in 1 .. built', NEW r \in version'[v].members
        PROVE  r \in Training /\ Known(r)' /\ Sent(r)'
    <3>1. r \in Training /\ Known(r) /\ Sent(r)
      BY DEF DInv, ReadStands, Members
    <3>2. QED BY <1>s, <1>y, <3>1
  <2>2. QED BY <2>1 DEF Members, Known, Sent
<1>5. QED BY <1>1, <1>2, <1>3, <1>4 DEF DInv

\* Every step keeps versions made of delivered records (all of DataExport).
LEMMA DeliveredStep == DInv /\ [Next]_vars => DInv'
<1> SUFFICES ASSUME DInv, [Next]_vars PROVE DInv'
  OBVIOUS
<1>t. SInv /\ SInv' /\ TypeOK /\ TypeOK'
  BY SafeStep DEF DInv, SInv, TInv
<1>y. /\ rec \in [Records -> Record] /\ batch \in [Ids -> Batch] /\ call \in [Callers -> Call]
      /\ version \in [Versions -> Version] /\ grants \in [Categories -> Seq(Grant)]
      /\ \A r \in Records : rec[r] \in Record
      /\ \A b \in Ids : batch[b] \in Batch
      /\ Training \subseteq Records
      /\ \A r \in Training : "training" \in Categories
  BY <1>t, ExportAssumption DEF TypeOK, Categories, CategoryOf
<1>m. ASSUME NEW S, NEW to \in {"cancelled", "quarantined", "deleted", "receipt_verified"} \cup Queued,
             rec' = SetStatus(S, to)
      PROVE  \A r \in Records : rec'[r] = IF r \in S THEN [rec[r] EXCEPT !.status = to] ELSE rec[r]
  <2>1. rec \in [Records -> Record]
    BY <1>y
  <2>2. QED BY <1>m, <2>1, SetStatusType
<1>e. \A b \in Ids : b > sealed => batch[b].records = {}
  BY DEF DInv, Enclosed
<1>p. \A r \in Training : grants["training"] # <<>> => profile
  BY DEF DInv, ConsentFirst
\* Most steps leave consent, records, calls and versions alone, and the contents
\* of batches.
<1>q. ASSUME UNCHANGED <<profile, grants, rec, sealed, version, built>>,
             call' = call \/ call' = [c \in Callers |-> Idle],
             \A b \in Ids : batch'[b].records = batch[b].records, remote \subseteq remote'
      PROVE  DInv'
  <2>1. \A r \in Training : Consented => Consented'
    BY <1>q DEF Consented
  <2>2. \A r \in Records : Known(r)' = Known(r)
    BY <1>q DEF Known
  <2>3. \A c \in Callers : \A r \in call'[c].records : call'[c] = call[c]
    BY <1>q DEF Idle
  <2>4. QED BY <1>e, <1>p, <1>q, <1>t, <1>y, <2>1, <2>2, <2>3, StaysDelivered
\* Others change the status of records that exist, and give up no consent.
<1>s. ASSUME UNCHANGED <<profile, batch, sealed, built, call, remote>>,
             \A r \in Training : (grants'["training"] # <<>>) = (grants["training"] # <<>>),
             \A r \in Records : /\ rec'[r].batch = rec[r].batch
                                /\ Known(r) => Known(r)'
                                /\ Known(r)' /\ r \in Training => Known(r) \/ Consented,
             \A v \in Versions : version'[v].members = version[v].members
      PROVE  DInv'
  <2>1. \A r \in Training : Consented => Consented'
    BY <1>s DEF Consented
  <2>2. \A v \in 1 .. built' : v \in Versions
    BY <1>t, ExportAssumption DEF TypeOK, Versions
  <2>3. QED BY <1>e, <1>p, <1>s, <1>t, <1>y, <2>1, <2>2, StaysDelivered
<1>1. CASE UNCHANGED vars
  BY <1>1, <1>q DEF vars, node
<1>2. CASE Consent
  <2>1. ASSUME UNCHANGED <<rec, batch, sealed, version, built, call, remote>>, profile => profile',
               \A r \in Training : /\ grants'["training"] # <<>> => profile'
                                   /\ grants["training"] # <<>> => grants'["training"] # <<>>
        PROVE  DInv'
    <3>1. \A r \in Training : Consented => Consented'
      BY <2>1 DEF Consented
    <3>2. \A r \in Records : Known(r)' = Known(r)
      BY <2>1 DEF Known
    <3>3. QED BY <1>e, <1>t, <1>y, <2>1, <3>1, <3>2, StaysDelivered
  <2>2. CASE AcceptProfile
    BY <1>p, <2>1, <2>2 DEF AcceptProfile
  <2>3. ASSUME NEW c \in Categories, NEW export \in BOOLEAN, GrantConsent(c, export) PROVE DInv'
    <3>1. \A s \in Seq(Grant) : \A g : Append(s, g) # <<>>
      OBVIOUS
    <3>2. \A r \in Training : /\ grants'["training"] # <<>> => profile'
                              /\ grants["training"] # <<>> => grants'["training"] # <<>>
      BY <1>p, <1>y, <2>3, <3>1 DEF GrantConsent
    <3>3. QED BY <2>1, <2>3, <3>2 DEF GrantConsent
  <2>4. ASSUME NEW c \in Categories, NEW i \in DOMAIN grants[c], NEW s \in {"withdrawn", "expired"},
               grants' = [grants EXCEPT ![c][i].state = s]
        PROVE  \A r \in Training : (grants'["training"] # <<>>) = (grants["training"] # <<>>)
    <3>1. grants[c] # <<>> /\ grants[c] \in Seq(Grant)
      BY <1>y
    <3>2. \A g : [grants[c] EXCEPT ![i] = g] # <<>>
      <4>1. \A g : i \in DOMAIN [grants[c] EXCEPT ![i] = g]
        OBVIOUS
      <4>2. QED BY <4>1
    <3>3. grants' = [grants EXCEPT ![c] = [grants[c] EXCEPT ![i] = [grants[c][i] EXCEPT !.state = s]]]
      BY <2>4
    <3>4. grants'[c] # <<>> /\ \A k \in Categories : k # c => grants'[k] = grants[k]
      BY <1>y, <3>2, <3>3
    <3>5. QED BY <1>y, <3>1, <3>4
  <2>5. ASSUME NEW c \in Categories, NEW i \in DOMAIN grants[c],
               NEW to \in {"quarantined", "cancelled"}, WithdrawConsent(c, i, to)
        PROVE  DInv'
    <3>1. \A r \in Records : rec'[r] = IF r \in Reconciled(c) THEN [rec[r] EXCEPT !.status = to] ELSE rec[r]
      BY <1>m, <2>5 DEF WithdrawConsent
    <3>2. \A r \in Records : rec'[r].batch = rec[r].batch /\ Known(r)' = Known(r)
      BY <1>y, <3>1 DEF Reconciled, Known, Queued, Record
    <3>3. \A r \in Training : (grants'["training"] # <<>>) = (grants["training"] # <<>>)
      BY <2>4, <2>5 DEF WithdrawConsent
    <3>4. \A r \in Records : Known(r) /\ r \in Training => Consented
      BY DEF DInv, ConsentFirst
    <3>5. QED BY <1>s, <2>5, <3>2, <3>3 DEF WithdrawConsent
  <2>6. ASSUME NEW c \in Categories, NEW i \in DOMAIN grants[c], GrantExpires(c, i) PROVE DInv'
    <3>1. \A r \in Training : (grants'["training"] # <<>>) = (grants["training"] # <<>>)
      BY <2>4, <2>6 DEF GrantExpires
    <3>2. QED BY <1>p, <2>1, <2>6, <3>1 DEF GrantExpires
  <2>7. QED BY <1>2, <2>2, <2>3, <2>5, <2>6 DEF Consent
<1>3. CASE Operate
  <2>1. ASSUME NEW r \in Records, NEW to \in Queued \cup {"cancelled"}, rec' = SetStatus({r}, to),
               UNCHANGED <<profile, grants, batch, sealed, version, built, call, remote>>,
               Known(r) \/ (r \in Training => Consented)
        PROVE  DInv'
    <3>1. \A k \in Records : rec'[k] = IF k \in {r} THEN [rec[k] EXCEPT !.status = to] ELSE rec[k]
      BY <1>m, <2>1
    <3>2. rec'[r].batch = rec[r].batch /\ Known(r)' /\ \A k \in Records : k # r => rec'[k] = rec[k]
      BY <1>y, <3>1 DEF Known, Queued, Record
    <3>3. \A k \in Records : k # r => Known(k)' = Known(k)
      BY <3>2 DEF Known
    <3>4. QED BY <1>s, <2>1, <3>2, <3>3
  <2>2. ASSUME NEW r \in Records, Collect(r) PROVE DInv'
    <3>1. InitialStatus(CategoryOf(r)) \in Queued
      BY DEF InitialStatus, Queued
    <3>2. r \in Training => Consented
      BY <1>p, <2>2 DEF Collect, MayCollect, CategoryOf, Effective, Consented
    <3>3. QED BY <2>1, <2>2, <3>1, <3>2 DEF Collect
  <2>3. ASSUME NEW r \in Records, Approve(r) \/ Reject(r) PROVE DInv'
    <3>1. Known(r)
      BY <2>3 DEF Approve, Reject, Approvable, Known
    <3>2. "approved" \in Queued
      BY DEF Queued
    <3>3. QED BY <2>1, <2>3, <3>1, <3>2 DEF Approve, Reject
  <2>4. ASSUME NEW S \in Deletable, Delete(S) PROVE DInv'
    <3>1. \A r \in S : Known(r)
      <4>1. ASSUME NEW b \in 1 .. sealed, NEW r \in InBatch(b) PROVE Known(r)
        <5>1. r \in Records /\ rec[r].batch # 0
          BY <1>t DEF InBatch, TypeOK
        <5>2. QED BY <5>1 DEF DInv, Enclosed
      <4>2. QED BY <4>1 DEF Deletable, Known
    <3>2. \A r \in Records : /\ r \in S => rec'[r].status = "deleted" /\ rec'[r].batch = rec[r].batch
                             /\ r \notin S => rec'[r] = rec[r]
      BY <1>y, <2>4 DEF Delete, Record
    <3>3. \A r \in Records : rec'[r].batch = rec[r].batch /\ Known(r)' = Known(r)
      BY <3>1, <3>2 DEF Known
    <3>4. \A v \in Versions : version'[v].members = version[v].members
      BY <1>y, <2>4 DEF Delete, Version
    <3>5. QED BY <1>s, <2>4, <3>3, <3>4 DEF Delete
  <2>5. ASSUME NEW c \in Callers, NEW S \in SUBSET Records, SealRead(c, S) PROVE DInv'
    <3>1. /\ \A k \in Callers : k # c => call'[k] = call[k]
          /\ call'[c].records = S /\ call'[c].op = "seal"
      BY <1>y, <2>5 DEF SealRead, Idle, Call
    <3>2. \A r \in Records : Known(r)' = Known(r)
      BY <2>5 DEF SealRead, Known
    <3>3. \A r \in S : Known(r)'
      BY <2>5, <3>2 DEF SealRead, Sealable, Known
    <3>4. \A k \in Callers : \A r \in call'[k].records :
            \/ call'[k] = call[k]
            \/ Known(r)' /\ (call'[k].op = "version" => r \in Training /\ Sent(r))
      BY <3>1, <3>3
    <3>5. UNCHANGED <<profile, grants, rec, batch, sealed, version, built, remote>>
      BY <2>5 DEF SealRead
    <3>6. \A r \in Training : Consented => Consented'
      BY <3>5 DEF Consented
    <3>7. QED BY <1>e, <1>p, <1>t, <1>y, <3>2, <3>4, <3>5, <3>6, StaysDelivered
  <2>6. ASSUME NEW c \in Callers, NEW S \in SUBSET Training, VersionRead(c, S) PROVE DInv'
    <3> DEFINE members == {r \in Training : Eligible(r)} \ S
    <3>1. \A k \in Callers : call'[k] = IF k = c THEN [op |-> "version", records |-> members, at |-> built + 1]
                                        ELSE call[k]
      BY <1>y, <2>6 DEF VersionRead
    <3>2. \A r \in Records : Known(r)' = Known(r)
      BY <2>6 DEF VersionRead, Known
    <3>3. ASSUME NEW r \in members PROVE r \in Training /\ Known(r) /\ Sent(r)
      <4>1. r \in Training /\ rec[r].status = "receipt_verified" /\ r \in Records
        BY <1>y DEF Eligible
      <4>2. rec[r].batch # 0 /\ batch[rec[r].batch].status = "receipt_verified"
        BY <1>t, <4>1 DEF SInv, ReceiptMeansStored
      <4>3. rec[r].batch \in Ids
        BY <1>y, <4>1, <4>2, ExportAssumption DEF Record, Ids
      <4>4. rec[r].batch \in remote
        BY <1>t, <4>2, <4>3 DEF SInv, ReceiptMeansStored
      <4>5. Known(r) /\ r \in batch[rec[r].batch].records
        BY <4>1, <4>2 DEF DInv, Enclosed
      <4>6. QED BY <4>1, <4>3, <4>4, <4>5 DEF Sent
    <3> HIDE DEF members
    <3>4. \A k \in Callers : \A r \in call'[k].records :
            \/ call'[k] = call[k]
            \/ Known(r)' /\ (call'[k].op = "version" => r \in Training /\ Sent(r))
      BY <1>y, <3>1, <3>2, <3>3
    <3>5. UNCHANGED <<profile, grants, rec, batch, sealed, version, built, remote>>
      BY <2>6 DEF VersionRead
    <3>6. \A r \in Training : Consented => Consented'
      BY <3>5 DEF Consented
    <3>7. QED BY <1>e, <1>p, <1>t, <1>y, <3>2, <3>4, <3>5, <3>6, StaysDelivered
  <2>i. ASSUME NEW c \in Callers, call' = [call EXCEPT ![c] = Idle]
        PROVE  \A k \in Callers : \A r \in call'[k].records : call'[k] = call[k]
    BY <1>y, <2>i DEF Idle
  <2>7. ASSUME NEW c \in Callers, SealCommit(c) PROVE DInv'
    <3>1. /\ UNCHANGED <<profile, grants, version, built, remote>>
          /\ call' = [call EXCEPT ![c] = Idle]
      BY <2>7 DEF SealCommit
    <3>2. \A r \in Training : Consented => Consented'
      BY <3>1 DEF Consented
    <3>3. \A k \in Callers : \A r \in call'[k].records : call'[k] = call[k]
      BY <2>i, <3>1
    <3>4. CASE UNCHANGED <<rec, batch, sealed>>
      <4>1. \A r \in Records : Known(r)' = Known(r)
        BY <3>4 DEF Known
      <4>2. QED BY <1>e, <1>p, <1>t, <1>y, <3>1, <3>2, <3>3, <3>4, <4>1, StaysDelivered
    <3>5. ASSUME sealed < MaxBatches, sealed' = sealed + 1,
                 batch' = [batch EXCEPT ![sealed'] =
                   [status |-> "pending", records |-> call[c].records, attempts |-> 0, claim |-> "none"]],
                 rec' = [r \in Records |-> IF r \in call[c].records
                   THEN [rec[r] EXCEPT !.status = "batched", !.batch = sealed'] ELSE rec[r]]
          PROVE  DInv'
      <4>1. sealed' \in Ids /\ sealed' > sealed
        <5>1. sealed \in 0 .. MaxBatches /\ MaxBatches \in Nat
          BY <1>t, ExportAssumption DEF TypeOK
        <5>2. sealed' = sealed + 1 /\ sealed < MaxBatches
          BY <3>5, Zenon
        <5>3. QED BY <5>1, <5>2 DEF Ids
      <4>2. batch'[sealed'].records = call[c].records /\ \A b \in Ids : b # sealed' => batch'[b] = batch[b]
        BY <1>y, <3>5, <4>1
      <4>3. \A b \in Ids : /\ batch[b].records \subseteq batch'[b].records
                           /\ b > sealed' => batch'[b].records = {}
        <5>1. sealed \in Int /\ sealed' \in Int /\ \A b \in Ids : b \in Int
          BY <1>t DEF TypeOK, Ids
        <5>2. batch[sealed'].records = {}
          BY <1>e, <4>1
        <5>3. \A b \in Ids : b > sealed' => b # sealed' /\ b > sealed
          BY <4>1, <5>1
        <5>4. QED BY <1>e, <4>2, <5>2, <5>3
      <4>4. \A r \in Records : /\ r \in call[c].records => rec'[r].status = "batched" /\ rec'[r].batch = sealed'
                               /\ r \notin call[c].records => rec'[r] = rec[r]
        BY <1>y, <3>5 DEF Record
      <4>5. \A r \in Records : /\ r \in call[c].records => Known(r) /\ Known(r)'
                               /\ r \notin call[c].records => Known(r)' = Known(r)
        BY <4>4 DEF DInv, ReadStands, Known
      <4>6. QED BY <1>p, <1>t, <1>y, <3>1, <3>2, <3>3, <4>2, <4>3, <4>4, <4>5, StaysDelivered
    <3>6. QED BY <2>7, <3>4, <3>5 DEF SealCommit
  <2>8. ASSUME NEW c \in Callers, VersionCommit(c) PROVE DInv'
    <3>1. /\ UNCHANGED <<profile, grants, rec, batch, sealed, remote>>
          /\ call' = [call EXCEPT ![c] = Idle] /\ call[c].op = "version"
      BY <2>8 DEF VersionCommit
    <3>2. /\ \A r \in Training : Consented => Consented'
          /\ \A r \in Records : Known(r)' = Known(r)
      BY <3>1 DEF Consented, Known
    <3>3. \A k \in Callers : \A r \in call'[k].records : call'[k] = call[k]
      BY <2>i, <3>1
    <3>4. \A v \in 1 .. built' : \A r \in version'[v].members :
            \/ v \in 1 .. built /\ r \in version[v].members
            \/ r \in call[c].records
      <4>1. CASE UNCHANGED <<built, version>>
        BY <4>1
      <4>2. CASE /\ built' = built + 1
                 /\ version' = [version EXCEPT ![built'] = [members |-> call[c].records, excluded |-> {}]]
        <5>1. built' \in Versions /\ built \in Int /\ \A v \in 1 .. built' : v \in Versions /\ v \in Int
          BY <1>t, <4>2, ExportAssumption DEF TypeOK, Versions
        <5>2. version'[built'].members = call[c].records /\ \A v \in Versions : v # built' => version'[v] = version[v]
          BY <1>y, <4>2, <5>1
        <5>3. \A v \in 1 .. built' : v = built' \/ v \in 1 .. built
          BY <4>2, <5>1
        <5>4. QED BY <5>1, <5>2, <5>3
      <4>3. QED BY <2>8, <4>1, <4>2 DEF VersionCommit
    <3>5. QED BY <1>e, <1>p, <1>t, <1>y, <3>1, <3>2, <3>3, <3>4, StaysDelivered
  <2>9. ASSUME NEW b \in Ids, Redrive(b) PROVE DInv'
    <3>1. \A k \in Ids : batch'[k].records = batch[k].records
      BY <1>y, <2>9 DEF Redrive, Batch
    <3>2. QED BY <1>q, <2>9, <3>1 DEF Redrive
  <2>10. ASSUME NEW on \in BOOLEAN, SetDestinationEnabled(on) PROVE DInv'
    BY <1>q, <2>10 DEF SetDestinationEnabled
  <2>11. QED BY <1>3, <2>2, <2>3, <2>4, <2>5, <2>6, <2>7, <2>8, <2>9, <2>10 DEF Operate
\* Finalising a batch changes no contents.
<1>f. ASSUME NEW b \in Ids, task[b] # "none", NEW s \in Claimable \cup {"receipt_verified", "dead_letter"},
             batch' = Settled(b, s)
      PROVE  \A k \in Ids : batch'[k].records = batch[k].records
  <2>1. batch' = [batch EXCEPT ![b] = [@ EXCEPT !.status = s, !.claim = "none"]]
    BY <1>f, <1>t, SettledType
  <2>2. QED BY <1>y, <2>1 DEF Batch
<1>r. \A k \in Ids : Recovered[k].records = batch[k].records
  BY <1>y DEF Recovered, Batch
<1>4. ASSUME NEW b \in Ids, Deliver(b) PROVE DInv'
  <2>1. CASE Claim(b)
    <3>1. \A k \in Ids : batch'[k].records = batch[k].records
      BY <1>y, <2>1 DEF Claim, Batch
    <3>2. QED BY <1>q, <2>1, <3>1 DEF Claim
  <2>2. CASE Post(b)
    BY <1>q, <2>2 DEF Post
  <2>3. CASE Answered(b)
    BY <1>q, <2>3 DEF Answered, Ingested
  <2>4. CASE FinalizeSuccess(b)
    <3>1. \A k \in Ids : batch'[k].records = batch[k].records
      BY <1>f, <2>4 DEF FinalizeSuccess
    <3>2. \A r \in Records : rec'[r] = IF r \in InBatch(b) THEN [rec[r] EXCEPT !.status = "receipt_verified"]
                                       ELSE rec[r]
      BY <1>m, <2>4 DEF FinalizeSuccess
    <3>3. \A r \in InBatch(b) : Known(r)
      <4>1. b # 0
        BY ExportAssumption DEF Ids
      <4>2. QED BY <4>1 DEF InBatch, DInv, Enclosed
    <3>4. \A r \in Records : rec'[r].batch = rec[r].batch /\ Known(r)' = Known(r)
      BY <1>y, <3>2, <3>3 DEF Known, Record
    <3>5. UNCHANGED <<profile, grants, sealed, version, built, call, remote>>
      BY <2>4 DEF FinalizeSuccess
    <3>6. \A r \in Training : Consented => Consented'
      BY <3>5 DEF Consented
    <3>7. QED BY <1>e, <1>p, <1>t, <1>y, <3>1, <3>4, <3>5, <3>6, StaysDelivered
  <2>5. CASE FinalizeFailure(b)
    <3>1. AfterFailure(b) \in Claimable \cup {"receipt_verified", "dead_letter"}
      BY DEF AfterFailure, Claimable
    <3>2. \A k \in Ids : batch'[k].records = batch[k].records
      BY <1>f, <2>5, <3>1 DEF FinalizeFailure
    <3>3. QED BY <1>q, <2>5, <3>2 DEF FinalizeFailure
  <2>6. QED BY <1>4, <2>1, <2>2, <2>3, <2>4, <2>5 DEF Deliver
<1>5. CASE Befall
  <2>1. ASSUME NEW b \in Ids, Refused(b) \/ TaskDies(b) PROVE DInv'
    BY <1>q, <2>1 DEF Refused, TaskDies
  <2>2. ASSUME NEW b \in Ids, ArrivesLate(b) PROVE DInv'
    BY <1>q, <2>2 DEF ArrivesLate, Ingested, node
  <2>3. ASSUME NEW b \in Ids, LeaseExpires(b) PROVE DInv'
    <3>1. \A k \in Ids : batch'[k].records = batch[k].records
      BY <1>y, <2>3 DEF LeaseExpires, Batch
    <3>2. QED BY <1>q, <2>3, <3>1 DEF LeaseExpires
  <2>4. CASE Stop
    BY <1>q, <2>4 DEF Stop
  <2>5. CASE Crash
    BY <1>q, <2>5 DEF Crash, Gone
  <2>6. QED BY <1>5, <2>1, <2>2, <2>3, <2>4, <2>5 DEF Befall
<1>6. CASE StopEnds
  BY <1>q, <1>r, <1>6 DEF StopEnds, Gone
<1>7. CASE Start
  BY <1>q, <1>r, <1>7 DEF Start
<1>8. QED BY <1>1, <1>2, <1>3, <1>4, <1>5, <1>6, <1>7 DEF Next

LEMMA DeliveredInit == Init => DInv
<1> SUFFICES ASSUME Init PROVE DInv
  OBVIOUS
<1>1. SInv
  BY SafeInit
<1>2. /\ \A r \in Records : rec[r].status = "absent" /\ rec[r].batch = 0
      /\ \A b \in Ids : batch[b].records = {}
      /\ \A c \in Callers : call[c].records = {}
      /\ Training \subseteq Records /\ built = 0
  BY ExportAssumption DEF Init, Idle
<1>3. \A r \in Training : grants["training"] = <<>>
  BY ExportAssumption DEF Init, Categories, CategoryOf
<1>4. QED BY <1>1, <1>2, <1>3 DEF DInv, ConsentFirst, Enclosed, ReadStands, Members, Known

\* A dataset version is made of records of consented training data that the
\* ingestion service has taken, although a thread reads the records before it
\* writes the version, while others delete, withdraw and seal (build_dataset_version).
THEOREM DatasetDeliveredHolds == Spec => []DatasetDelivered
<1>1. DInv => DatasetDelivered
  BY DEF DInv, Members, ConsentFirst, Consented, Sent, DatasetDelivered
<1>2. QED BY <1>1, DeliveredInit, DeliveredStep, PTL DEF Spec
===============================================================================
