------------------------------ MODULE DataExport ------------------------------
(***************************************************************************)
(* The data platform of a node (data/service.py, data/worker.py) and the   *)
(* ingestion service it exports to (services/ingestion/service.py):        *)
(* consent, records, sealed batches, their delivery, and datasets.         *)
(*                                                                         *)
(* API handlers run on threads. One that seals a batch or builds a dataset *)
(* version reads the records first and writes them last; the others are    *)
(* short and one step here. The worker delivers one batch at a time, in    *)
(* several transactions with the upload in between.                        *)
(***************************************************************************)
EXTENDS Integers, Sequences, FiniteSets

CONSTANTS
  Records,      \* candidate records
  Training,     \* those of the category that needs consent to be collected
  Callers,      \* threads of operators that seal batches or build versions
  MaxBatches,   \* bound: export batches, numbered in the order of creation
  MaxGrants,    \* bound: consent grants of a category
  MaxVersions,  \* bound: versions of the dataset
  MaxAttempts,  \* max_attempts of a batch
  MaxStops,     \* bound: how often the node stops
  Inspect,      \* inspect_before_export: records wait for approval
  Faults        \* what may befall: see FaultKinds

FaultKinds == {"crash", "stop", "task", "loss", "refuse", "disable"}

ASSUME ExportAssumption ==
  /\ Training \subseteq Records
  /\ MaxBatches \in Nat /\ MaxGrants \in Nat /\ MaxVersions \in Nat
  /\ MaxAttempts \in Nat \ {0} /\ MaxStops \in Nat
  /\ Inspect \in BOOLEAN /\ Faults \subseteq FaultKinds

VARIABLES
  profile,   \* a participation policy is accepted
  grants,    \* consent grants of each category, oldest first
  rec,       \* data_export_records rows
  batch,     \* data_export_batches rows
  sealed,    \* how many there are
  version,   \* versions of the dataset
  built,     \* how many there are
  call,      \* what each caller's thread has read
  task,      \* the worker's delivery task of each batch
  enabled,   \* the destination is enabled
  mode,      \* the node's process
  stops,     \* how often it has stopped
  stray,     \* batches with a given-up upload that may still arrive
  remote     \* batches that the ingestion service holds

node == <<profile, grants, rec, batch, sealed, version, built, call, task, enabled, mode, stops>>
vars == <<node, stray, remote>>

-------------------------------------------------------------------------------
Ids        == 1 .. MaxBatches
Versions   == 1 .. MaxVersions
CategoryOf(r) == IF r \in Training THEN "training" ELSE "operational"
Categories == {CategoryOf(r) : r \in Records}

Queued == {"collected", "held", "approved", "batched"}
Record == [status : Queued \cup {"absent", "cancelled", "quarantined", "deleted", "receipt_verified"},
           batch : 0 .. MaxBatches, deleted : BOOLEAN]
Claimable == {"pending", "retry_wait"}
Batch == [status : Claimable \cup {"absent", "delivering", "receipt_verified", "dead_letter"},
          records : SUBSET Records, attempts : 0 .. (MaxAttempts + MaxStops),
          claim : {"none", "live", "expired"}]
Version == [members : SUBSET Records, excluded : SUBSET Records]
Call == [op : {"none", "seal", "version"}, records : SUBSET Records, at : 0 .. MaxVersions]
Idle == [op |-> "none", records |-> {}, at |-> 0]
Grant == [state : {"active", "withdrawn", "expired"}, export : BOOLEAN]

\* _grant_is_effective of the newest grant of a category.
Effective(c) == grants[c] # <<>> /\ grants[c][Len(grants[c])].state = "active"
MayCollect(c) == c = "training" => Effective(c)
MayExport(c)  == Effective(c) /\ grants[c][Len(grants[c])].export

\* The policy engine: local only, held for approval, or approved at once.
InitialStatus(c) == IF ~MayExport(c) THEN "collected"
                    ELSE IF Inspect \/ c = "training" THEN "held" ELSE "approved"

InBatch(b) == {r \in Records : rec[r].batch = b}
SetStatus(S, status) == [r \in Records |-> IF r \in S THEN [rec[r] EXCEPT !.status = status] ELSE rec[r]]

-------------------------------------------------------------------------------
(* Consent.                                                                *)

AcceptProfile == mode = "up" /\ profile' = TRUE
  /\ UNCHANGED <<grants, rec, batch, sealed, version, built, call, task, enabled, mode, stops, stray, remote>>

GrantConsent(c, export) ==
  /\ mode = "up" /\ Len(grants[c]) < MaxGrants
  /\ c = "training" => profile
  /\ grants' = [grants EXCEPT ![c] = Append(@, [state |-> "active", export |-> export])]
  /\ UNCHANGED <<profile, rec, batch, sealed, version, built, call, task, enabled, mode, stops, stray, remote>>

\* The records of the category that are still queued are quarantined, or cancelled.
Reconciled(c) == {r \in Records : CategoryOf(r) = c /\ rec[r].status \in Queued}
WithdrawConsent(c, i, to) ==
  /\ mode = "up"
  /\ grants' = [grants EXCEPT ![c][i].state = "withdrawn"]
  /\ rec' = SetStatus(Reconciled(c), to)
  /\ UNCHANGED <<profile, batch, sealed, version, built, call, task, enabled, mode, stops, stray, remote>>

\* Time passes expires_at of a grant.
GrantExpires(c, i) ==
  /\ grants[c][i].state = "active"
  /\ grants' = [grants EXCEPT ![c][i].state = "expired"]
  /\ UNCHANGED <<profile, rec, batch, sealed, version, built, call, task, enabled, mode, stops, stray, remote>>

-------------------------------------------------------------------------------
(* Records.                                                                *)

Collect(r) ==
  /\ mode = "up" /\ rec[r].status = "absent" /\ MayCollect(CategoryOf(r))
  /\ rec' = SetStatus({r}, InitialStatus(CategoryOf(r)))
  /\ UNCHANGED <<profile, grants, batch, sealed, version, built, call, task, enabled, mode, stops, stray, remote>>

ApprovableWidely == {"held", "collected", "batched", "receipt_verified"}  \* mutant of Approvable
Approvable == {"held", "collected"}
Approve(r) ==
  /\ mode = "up" /\ rec[r].status \in Approvable
  /\ rec' = SetStatus({r}, "approved")
  /\ UNCHANGED <<profile, grants, batch, sealed, version, built, call, task, enabled, mode, stops, stray, remote>>

Reject(r) ==
  /\ mode = "up" /\ rec[r].status \in Approvable \cup {"approved"}
  /\ rec' = SetStatus({r}, "cancelled")
  /\ UNCHANGED <<profile, grants, batch, sealed, version, built, call, task, enabled, mode, stops, stray, remote>>

\* delete_record, and a deletion request for a record, a batch or a category:
\* the content goes, the row stays, dataset members are excluded.
Deletable == {{r} : r \in {x \in Records : rec[x].status # "absent"}}
             \cup {InBatch(b) : b \in 1 .. sealed}
             \cup {{r \in Records : CategoryOf(r) = c /\ rec[r].status # "absent"} : c \in Categories}
Delete(S) ==
  /\ mode = "up" /\ S # {}
  /\ rec' = [r \in Records |-> IF r \in S THEN [rec[r] EXCEPT !.status = "deleted", !.deleted = TRUE]
                               ELSE rec[r]]
  /\ version' = [v \in Versions |-> [version[v] EXCEPT !.excluded = @ \cup (version[v].members \cap S)]]
  /\ UNCHANGED <<profile, grants, batch, sealed, built, call, task, enabled, mode, stops, stray, remote>>

-------------------------------------------------------------------------------
(* Sealing a batch.                                                        *)

SealableSealed(r) == rec[r].status \in {"approved", "batched"}  \* mutant of Sealable
Sealable(r) == rec[r].status = "approved" /\ rec[r].batch = 0

\* build_batch reads approved records, as many and of the categories asked for.
SealRead(c, S) ==
  /\ mode = "up" /\ call[c] = Idle /\ enabled
  /\ S # {} /\ \A r \in S : Sealable(r)
  /\ \A b \in 1 .. sealed : batch[b].records # S  \* else the existing batch is returned
  /\ call' = [call EXCEPT ![c] = [Idle EXCEPT !.op = "seal", !.records = S]]
  /\ UNCHANGED <<profile, grants, rec, batch, sealed, version, built, task, enabled, mode, stops, stray, remote>>

\* It then writes the batch and the records, unless the idempotency key, which
\* is a digest of the records' ids, has come into use.
SealCommit(c) ==
  /\ mode = "up" /\ call[c].op = "seal"
  /\ call' = [call EXCEPT ![c] = Idle]
  /\ \/ /\ \A b \in 1 .. sealed : batch[b].records # call[c].records
        /\ sealed < MaxBatches /\ sealed' = sealed + 1
        /\ batch' = [batch EXCEPT ![sealed'] =
             [status |-> "pending", records |-> call[c].records, attempts |-> 0, claim |-> "none"]]
        /\ rec' = [r \in Records |-> IF r \in call[c].records
                     THEN [rec[r] EXCEPT !.status = "batched", !.batch = sealed'] ELSE rec[r]]
     \/ /\ \E b \in 1 .. sealed : batch[b].records = call[c].records
        /\ UNCHANGED <<rec, batch, sealed>>
  /\ UNCHANGED <<profile, grants, version, built, task, enabled, mode, stops, stray, remote>>

-------------------------------------------------------------------------------
(* Delivering a batch.                                                     *)

DueUntried(b) == batch[b].status = "pending"  \* mutant of Due
Due(b) == batch[b].status \in Claimable

\* The poll claims a due batch and starts a task for it.
Claim(b) ==
  /\ mode = "up" /\ \A k \in Ids : task[k] = "none"
  /\ Due(b)
  /\ batch' = [batch EXCEPT ![b].status = "delivering", ![b].claim = "live", ![b].attempts = @ + 1]
  /\ task' = [task EXCEPT ![b] = "claimed"]
  /\ UNCHANGED <<profile, grants, rec, sealed, version, built, call, enabled, mode, stops, stray, remote>>

\* deliver_batch posts the sealed bundle, if the destination is enabled.
Post(b) ==
  /\ mode # "down" /\ task[b] = "claimed"
  /\ task' = [task EXCEPT ![b] = IF enabled THEN "posted" ELSE "failed"]
  /\ UNCHANGED <<profile, grants, rec, batch, sealed, version, built, call, enabled, mode, stops, stray, remote>>

\* ingest_batch: a batch that the service has is acknowledged again.
IngestForgets(b) == remote  \* mutant of Ingested
Ingested(b) == remote \cup {b}

\* The service stores the batch; its answer comes, or the node has given up.
Answered(b) ==
  /\ task[b] = "posted" /\ remote' = Ingested(b)
  /\ \/ task' = [task EXCEPT ![b] = "accepted"]
     \/ "loss" \in Faults /\ task' = [task EXCEPT ![b] = "failed"]
  /\ UNCHANGED <<profile, grants, rec, batch, sealed, version, built, call, enabled, mode, stops, stray>>

\* authenticate or ingest_batch refuses, or nothing answers.
Refused(b) ==
  /\ task[b] = "posted"
  /\ \/ "refuse" \in Faults /\ UNCHANGED stray
     \/ "loss" \in Faults /\ stray' = stray \cup {b}
  /\ task' = [task EXCEPT ![b] = "failed"]
  /\ UNCHANGED <<profile, grants, rec, batch, sealed, version, built, call, enabled, mode, stops, remote>>

\* An upload that the node has given up on arrives.
ArrivesLate(b) ==
  /\ b \in stray /\ stray' = stray \ {b} /\ remote' = Ingested(b)
  /\ UNCHANGED node

SettledHeld(b, status) == [batch EXCEPT ![b].status = status]  \* mutant of Settled
Settled(b, status) ==
  IF batch[b].claim = "none" THEN batch
  ELSE [batch EXCEPT ![b].status = status, ![b].claim = "none"]

FinalizeSuccess(b) ==
  /\ mode # "down" /\ task[b] = "accepted"
  /\ batch' = Settled(b, "receipt_verified")
  /\ rec' = SetStatus(InBatch(b), "receipt_verified")
  /\ task' = [task EXCEPT ![b] = "none"]
  /\ UNCHANGED <<profile, grants, sealed, version, built, call, enabled, mode, stops, stray, remote>>

AfterFailure(b) == IF batch[b].attempts >= MaxAttempts THEN "dead_letter" ELSE "retry_wait"
FinalizeFailure(b) ==
  /\ mode # "down" /\ task[b] = "failed"
  /\ batch' = Settled(b, AfterFailure(b))
  /\ task' = [task EXCEPT ![b] = "none"]
  /\ UNCHANGED <<profile, grants, rec, sealed, version, built, call, enabled, mode, stops, stray, remote>>

\* An exception ends the task; the worker only notes it.
TaskDies(b) ==
  /\ "task" \in Faults /\ mode # "down" /\ task[b] \in {"claimed", "accepted", "failed"}
  /\ task' = [task EXCEPT ![b] = "none"]
  /\ UNCHANGED <<profile, grants, rec, batch, sealed, version, built, call, enabled, mode, stops, stray, remote>>

Redrive(b) ==
  /\ mode = "up" /\ batch[b].status = "dead_letter"
  /\ batch' = [batch EXCEPT ![b].status = "pending", ![b].attempts = 0]
  /\ UNCHANGED <<profile, grants, rec, sealed, version, built, call, task, enabled, mode, stops, stray, remote>>

SetDestinationEnabled(on) ==
  /\ mode = "up" /\ "disable" \in Faults /\ enabled # on /\ enabled' = on
  /\ UNCHANGED <<profile, grants, rec, batch, sealed, version, built, call, task, mode, stops, stray, remote>>

-------------------------------------------------------------------------------
(* Dataset versions.                                                       *)

EligibleApproved(r) == rec[r].status \in {"approved", "receipt_verified"} /\ ~rec[r].deleted  \* mutant of Eligible
Eligible(r) == rec[r].status = "receipt_verified" /\ ~rec[r].deleted

VersionRead(c, exclusions) ==
  /\ mode = "up" /\ call[c] = Idle /\ built < MaxVersions
  /\ LET members == {r \in Training : Eligible(r)} \ exclusions
     IN  /\ members # {}
         /\ call' = [call EXCEPT ![c] = [op |-> "version", records |-> members, at |-> built + 1]]
  /\ UNCHANGED <<profile, grants, rec, batch, sealed, version, built, task, enabled, mode, stops, stray, remote>>

\* The number that was read may have come into use; the insertion then fails.
VersionCommit(c) ==
  /\ mode = "up" /\ call[c].op = "version"
  /\ call' = [call EXCEPT ![c] = Idle]
  /\ IF call[c].at = built + 1
     THEN /\ built' = built + 1
          /\ version' = [version EXCEPT ![built'] = [members |-> call[c].records, excluded |-> {}]]
     ELSE UNCHANGED <<built, version>>
  /\ UNCHANGED <<profile, grants, rec, batch, sealed, task, enabled, mode, stops, stray, remote>>

-------------------------------------------------------------------------------
(* The process.                                                            *)

LeaseExpires(b) ==
  /\ batch[b].claim = "live"
  /\ batch' = [batch EXCEPT ![b].claim = "expired"]
  /\ UNCHANGED <<profile, grants, rec, sealed, version, built, call, task, enabled, mode, stops, stray, remote>>

\* recover_expired_claims.
Recoverable(b) == batch[b].status = "delivering" /\ batch[b].claim # "live"
Recovered == [b \in Ids |-> IF Recoverable(b)
               THEN [batch[b] EXCEPT !.status = "retry_wait", !.claim = "none"] ELSE batch[b]]

\* What ends with the process; an upload in the air may still arrive.
Gone ==
  /\ task' = [b \in Ids |-> "none"] /\ mode' = "down" /\ stops' = stops + 1
  /\ stray' = stray \cup {b \in Ids : task[b] = "posted"}

\* shutdown: no more polls; tasks have a while to end and are then cancelled.
Stop ==
  /\ "stop" \in Faults /\ mode = "up" /\ stops < MaxStops /\ \A c \in Callers : call[c] = Idle
  /\ mode' = "stopping"
  /\ UNCHANGED <<profile, grants, rec, batch, sealed, version, built, call, task, enabled, stops, stray, remote>>
StopEnds ==
  /\ mode = "stopping" /\ Gone /\ batch' = Recovered
  /\ UNCHANGED <<profile, grants, rec, sealed, version, built, call, enabled, remote>>
Crash ==
  /\ "crash" \in Faults /\ mode # "down" /\ stops < MaxStops /\ Gone
  /\ call' = [c \in Callers |-> Idle]
  /\ UNCHANGED <<profile, grants, rec, batch, sealed, version, built, enabled, remote>>
Start ==
  /\ mode = "down" /\ mode' = "up" /\ batch' = Recovered
  /\ UNCHANGED <<profile, grants, rec, sealed, version, built, call, task, enabled, stops, stray, remote>>

-------------------------------------------------------------------------------
Init ==
  /\ profile = FALSE /\ grants = [c \in Categories |-> <<>>]
  /\ rec = [r \in Records |-> [status |-> "absent", batch |-> 0, deleted |-> FALSE]]
  /\ batch = [b \in Ids |-> [status |-> "absent", records |-> {}, attempts |-> 0, claim |-> "none"]]
  /\ version = [v \in Versions |-> [members |-> {}, excluded |-> {}]]
  /\ sealed = 0 /\ built = 0 /\ stops = 0
  /\ call = [c \in Callers |-> Idle] /\ task = [b \in Ids |-> "none"]
  /\ enabled = TRUE /\ mode = "up"
  /\ stray = {} /\ remote = {}

Consent ==
  \/ AcceptProfile
  \/ \E c \in Categories :
       \/ \E export \in BOOLEAN : GrantConsent(c, export)
       \/ \E i \in DOMAIN grants[c] :
            \/ \E to \in {"quarantined", "cancelled"} : WithdrawConsent(c, i, to)
            \/ GrantExpires(c, i)
Operate ==
  \/ \E r \in Records : Collect(r) \/ Approve(r) \/ Reject(r)
  \/ \E S \in Deletable : Delete(S)
  \/ \E c \in Callers, S \in SUBSET Records : SealRead(c, S)
  \/ \E c \in Callers, S \in SUBSET Training : VersionRead(c, S)
  \/ \E c \in Callers : SealCommit(c) \/ VersionCommit(c)
  \/ \E b \in Ids : Redrive(b)
  \/ \E on \in BOOLEAN : SetDestinationEnabled(on)
Deliver(b) == Claim(b) \/ Post(b) \/ Answered(b) \/ FinalizeSuccess(b) \/ FinalizeFailure(b)
Befall ==
  \/ \E b \in Ids : Refused(b) \/ ArrivesLate(b) \/ TaskDies(b) \/ LeaseExpires(b)
  \/ Stop \/ Crash

Next == Consent \/ Operate \/ (\E b \in Ids : Deliver(b)) \/ Befall \/ StopEnds \/ Start

Spec == Init /\ [][Next]_vars

\* The event loop runs the poll, which takes the batch that is due longest, and
\* the tasks; an upload ends, by its timeout at the latest; the node is started
\* again.
FairSpec ==
  /\ Spec
  /\ \A b \in Ids : /\ SF_vars(Claim(b)) /\ WF_vars(Post(b))
                    /\ WF_vars(Answered(b) \/ Refused(b))
                    /\ WF_vars(FinalizeSuccess(b)) /\ WF_vars(FinalizeFailure(b))
  /\ WF_vars(StopEnds) /\ WF_vars(Start)
-------------------------------------------------------------------------------
\* Every row is well formed, and claims agree with statuses: a claim is held on
\* exactly the batches being delivered, and a task runs under one.
TypeOK ==
  /\ profile \in BOOLEAN /\ enabled \in BOOLEAN /\ mode \in {"up", "stopping", "down"}
  /\ grants \in [Categories -> Seq(Grant)] /\ rec \in [Records -> Record]
  /\ batch \in [Ids -> Batch] /\ version \in [Versions -> Version]
  /\ sealed \in 0 .. MaxBatches /\ built \in 0 .. MaxVersions /\ stops \in 0 .. MaxStops
  /\ call \in [Callers -> Call] /\ stray \in SUBSET Ids /\ remote \in SUBSET Ids
  /\ task \in [Ids -> {"none", "claimed", "posted", "accepted", "failed"}]
  /\ \A b \in Ids : /\ task[b] # "none" => batch[b].status = "delivering"
                    /\ (batch[b].status = "delivering") <=> (batch[b].claim # "none")

\* A verified receipt is never a claim about data the ingestion service did not
\* take: through lost answers, retries, redrives and restarts, a verified batch
\* has reached the service, and a verified record is in a verified batch.
ReceiptMeansStored ==
  /\ \A b \in Ids : batch[b].status = "receipt_verified" => b \in remote
  /\ \A r \in Records : rec[r].status = "receipt_verified" =>
       rec[r].batch # 0 /\ batch[rec[r].batch].status = "receipt_verified"

\* Batch and records settle together: a record of a verified batch is verified,
\* or was deleted, whatever withdrawals, approvals and late uploads came between.
SettledTogether ==
  \A b \in Ids : batch[b].status = "receipt_verified" =>
    \A r \in InBatch(b) : rec[r].status \in {"receipt_verified", "deleted"}

\* A dataset version is made of consented records that the service has taken.
\* Built while another thread deletes, it may hold a deleted record; a record that
\* two threads seal at once is in two batches, of which one is enough.
DatasetDelivered ==
  \A v \in 1 .. built : \A r \in version[v].members :
    /\ r \in Training /\ grants["training"] # <<>> /\ profile
    /\ \E b \in Ids : r \in batch[b].records /\ b \in remote

\* No batch is retried for ever or forgotten: one that may be claimed is verified
\* or a dead letter in the end, unless a task died under its claim or the node
\* went down with it, whose claim only the next start looks at.
Abandoned(b) == batch[b].status = "delivering" /\ task[b] = "none"
BatchSettles ==
  \A b \in Ids : batch[b].status \in Claimable ~>
    (batch[b].status \in {"receipt_verified", "dead_letter"} \/ Abandoned(b))

\* "withdrawal blocks new exports immediately and reconciles (quarantines) queued
\* records" (deploy/README.md:337): no delivery of a batch begins once a withdrawal
\* has quarantined one of its records.
WithdrawnNotExported ==
  [][\A b \in Ids : task[b] = "none" /\ task'[b] = "claimed" =>
       \A r \in batch[b].records : rec[r].status # "quarantined"]_vars
===============================================================================
