# A TLA+ model of the Aither node

This directory holds a TLA+ development of the repository: modules translated from its Python
source, the TLC configurations that check them on small instances, and TLAPS proofs of what
holds for every value of the constants. Paths below are relative to the repository; `aither/`
abbreviates `src/aithernet/src/aithernet/`.

## 1. Inventory

The repository has two programs. `src/fleetgraph/` is a vehicle-to-vehicle radio simulation
behind a FastAPI server. `src/aithernet/` is a node runtime that executes missions with the
help of a language-model coordinator, exchanges messages with peer nodes, and drives radio
hardware; it comes with a control plane and an ingestion service (`services/`), a portal and
deployment files. The node is where the state, the concurrency and the failure handling are.

| Component | State it keeps | Operations | What makes it correct |
|---|---|---|---|
| Mission lifecycle (`aither/missions/lifecycle.py`) | none; the transition table | `validate_transition` | a terminal status is never left |
| Mission execution (`aither/missions/worker.py`, `engine.py`, `budgets.py`) | mission rows, execution-run rows with a lease, tasks in memory | start, pause, resume, cancel, retry, run-step; poll, iterate, heartbeat, recover, shut down | rows agree; a run is executed or can be found again; budgets hold; a cancellation sticks |
| Reply waits (`aither/comms/service.py`) | one row per awaited reply | prepare, satisfy, time out, cancel, recover, requeue | one pending wait per request; resolved once; no lost wake-up |
| Peer requests (`aither/comms/service.py`) | one row per inbound request, the obligation to answer it, peer permissions | accept, refuse, make a mission, queue and record a reply | an id makes one mission; an obligation is met before a mission completes; a peer is refused only when its places are taken |
| Agent transport (`aither/transport/`) | outbox with claims, delivery attempts, inbox, deduplication rows, observed sequences | send, claim, deliver, retry, acknowledge, cancel, receive, recover | a message is applied at most once; what is acknowledged is stored; nothing stays claimed |
| Over-the-air link (`aither/transport/ota/`) | in-memory ARQ windows, fragment buffers, half-duplex radio | transmit, acknowledge, retransmit, reassemble | delivered once and whole |
| Hardware leases (`aither/hardware/leases.py`) | one row per lease | acquire, renew, release, recover, reconcile | one holder per exclusive device; expired leases are not used |
| Artifacts (`aither/artifacts/`) | transfer rows on both nodes, partial files, the object store, artifact records | request, grant, reject, download, import, receipts, cancel, retry, collect garbage, recover | a receipt means stored and recorded; a partial file has no hole; a transfer settles |
| Data platform (`aither/data/`, `services/ingestion`) | consent grants, export records, sealed batches, dataset versions; accepted batches | consent, collect, approve, seal, deliver, retry, redrive, withdraw, delete, build a version | a verified receipt means the service holds the data; batch and records settle together; withdrawn data is not exported |
| Interop (`aither/interop/`) | clients, requests, callback deliveries | admit, deliver, retry | idempotent admission, bounded retries |
| MCP session (`aither/mcp/`) | one subprocess, calls in flight | start, call, restart | a call ends, a dead server is replaced |
| Control plane (`services/control_plane/`) | accounts, nodes, commands, releases | enrol, command, report | a token is used once |
| Providers, prompts, dashboards, CLI, doctor, provisioning, installers | configuration, subprocesses | one-shot | sequential; little to interleave |
| FleetGraph (`src/fleetgraph/fleetgraph/`) | vehicles, what each has seen and was warned of, warning edges, stop targets | the tick: sense, warn, brake, advance | a warning goes back to a sighting; the edges of the warning graph agree |

### How the components interact

* The API and the CLI call `MissionWorkerManager`; its poll loop starts a task per queued run;
  a task calls `MissionEngine.run_iteration`, which awaits the coordinator, validates its
  decision and routes it: to a tool, a coding agent, to the operator, or to a peer.
* Routing to a peer writes an outbox row (`MessageTransport.send`) and, when the decision waits
  for an answer, a reply wait. The delivery worker posts the message. The peer's answer arrives
  at `handle_inbound`, is stored in the inbox, and the correlation hook satisfies the wait,
  which claims the resume and puts the mission back into the queue.
* All of them share one SQLite file and one asyncio event loop. Events go to a bus of
  observers; publishing never suspends the publisher.

### Which behaviours are hard

* **Interleaving at awaits.** A coroutine owns the event loop until it really suspends, so only
  the awaits of `run_iteration` (coordinator call, routed action, retry delay) and the end of a
  task (awaiting its cancelled heartbeat) let other handlers in. What was read before is stale
  after.
* **Several transactions per handler.** Claiming a run, moving the mission row, counting,
  acknowledging a cancellation, satisfying a wait, claiming its resume and queueing the mission
  are separate commits. A crash falls between any two.
* **Restart.** In-memory tasks vanish, rows stay. `recover()` has to find what nobody executes.
* **Races for one row.** A reply, a deadline and an operator race for a wait; a worker, a
  run-step call and a restarted process race for a run.
* **Bounds.** Iteration, call, failure and action budgets across pauses, resumes and recoveries.
* **Eventualities.** A mission comes to rest, a deadline wakes it, a shutdown ends.

`PROJECT.json` lists each hazard at its line with the properties that watch it.

## 2. Plan

1. `MissionLifecycle`, `MissionExecution`, `MissionExecution_proofs`, `MissionRows_proofs`: the
   core. **Done.**
2. `MessageService`, `Delivery`, `Delivery_proofs`: outbox claims, attempts, acknowledgements,
   duplicates and the inbox of two nodes over a lossy channel. **Done.**
3. `HardwareLease`, `HardwareLease_proofs`: leases with recovery and reconciliation. **Done.**
4. `DataExport`, `DataExport_proofs`: consent, export batches, their delivery to the ingestion
   service, datasets. **Done.**
5. `FleetSim`, `FleetSim_proofs`: the tick of the simulation. **Done.**
6. `ArtifactTransfer`, `ArtifactTransfer_proofs`: transfers between two nodes. **Done.**
7. `PeerRequests`, `PeerRequests_proofs`: what a peer asks of the coordinator. **Done.**
8. Next, if the project grows: the over-the-air link, status publication, interop callbacks, the control plane's enrolment tokens (section 11 says why not yet).

Modules share no state and are checked one by one: what one component needs of another is a
choice of its environment (a message handled at most once, in any order or never, as
`MessageService` promises), and only `Delivery` is tied to another module, by refinement.

Modules are parameterised by CONSTANTS with named ASSUMEs, have one action per operation or
transaction, and use no RECURSIVE operator.

## 3. `MissionExecution`

### Correspondence

| Model | Code |
|---|---|
| `missions` | `missions.status` |
| `runs` | `mission_execution_runs`: status, lease (`none`, `live`, `expired`) and its token, `pause_requested`, `cancel_requested/_acknowledged`, what it waits for, the budget counters, `late` (elapsed-time budget used up) |
| `outbox`, `replies` | which run sent which request; whether its correlated answer is in the inbox |
| `waits` | `mission_reply_waits` |
| `exec` | the task table `_tasks` (one task per mission) and the run-step API calls: where each is suspended, whether its heartbeat found the lease lost, the call count read before the await |
| `loop` | the continuation of the coroutine that holds the event loop |
| `node` | the lifespan phases: down, starting (workers run, API closed), ready, stopping |

One action is one database transaction. While `loop` is not `Free` only its next transaction or
a crash can happen, which is what the single event loop guarantees. Startup follows
`api/app.py`: the workers recover and poll, then the transport starts, then the comms service
recovers its waits, then the API answers. The server drains requests before the lifespan hook
shuts the workers down. `run_iteration` is split at its transactions: the cancel and pause
checks, the iteration budget, counting, the coordinator call, the validation of its answer, the
repair attempt, each route with its action budget, and the final transition. What the
coordinator, a tool or a peer answers is nondeterministic over the outcomes the code
distinguishes. Time is not a number: a lease may expire, a deadline may pass and the elapsed
budget may be used up at any moment when the code could observe it.

### Runs

| Run | Instance | Shows |
|---|---|---|
| `mission_operations` | two execution runs (one retry), coding route, all operator requests, graceful restarts; deadlock checked | the mission row and its newest run agree whenever the loop is free; no active run is left without an executor; budgets; a terminal mission has no live run; after an acknowledged cancellation the coordinator is not called; nor for a mission that is not active |
| `reply_waits` | two execution runs (one retry), two requests, two wait rows | no wake-up is lost among reply, deadline, operator, renewed waits and late resumes; only a late resume reopens a terminal run |
| `crash_recovery` | a worker and a run-step call, one request, two waits, a crash between any two transactions, a flowgraph limit below the minimum | the iteration budget and the waits survive crashes and a second executor: one pending wait per request, resolved once |
| `mission_liveness` | fair specification, one wait, shutdowns, a flowgraph that may begin | a mission comes to rest; a deadline wakes it; a shutdown ends |

The counters need a bound of two to be below, at and (if a guard is off by one) above their
limit; two runs are a mission and its retry; two waits for two requests, or for one request one
after the other, are what can race; one mission is enough because missions share nothing but
the pool, whose size only delays them (`Schedule`). The crash instance holds a crash at every point of
every handler since the number of crashes is not bounded. Larger products (two runs with
crashes and waits) exceed twenty million states and add no new pair of handlers. Runs other
than `mission_operations` do not check deadlock: there the system may really stop, when its one
mission is terminal or waits and the bounded retries and waits are used up.

### Fairness

Weak fairness of the loop's continuation: a coroutine that holds the loop goes on. Strong
fairness of each executor: asyncio's ready queue is first in first out and every await of an
iteration ends, by its answer or by its timeout, but another coroutine may hold the loop in
between. Strong fairness of each wait's deadline sweep, which the service runs periodically,
and of the lifespan's own steps. Nothing is assumed of peers, operators, crashes or
shutdowns; `MissionSettles` therefore says that a mission comes to rest *if* the node is not
shut down again and again.

### Disagreements seen on the model

TLC finds each of these on `MissionExecution` with the instance named. They limit what the runs
claim, so they are recorded here; none of them has a run of its own.

* `ResumeFinished` fails in the instance of `crash_recovery`: the resume of a wait is claimed in one
  transaction and the mission queued in the next (comms/service.py:615). After a crash between the
  two, recovery no longer sees the wait and the mission waits for ever.
* `CancelWillBeHonoured` fails in the instance of `mission_liveness`: a cancellation recorded during
  an iteration that ends in waiting is honoured by nobody until somebody resumes the mission.
* `TerminalRunFinal` fails in the instance of `reply_waits`, where two runs of a mission meet waits: `_requeue_mission`
  (comms/service.py:633) validates the move of the mission row and writes the run row of the
  *wait*, so a late resume of a wait of an earlier run reopens that terminal run.
  `OnlyRequeueReopens`, which is proved, says that nothing else reopens one. From then on two runs
  of one mission are live and move its row in turn: `RowsAgree`, `NoOrphanRun`, `TerminalMissionStopped`,
  `NoCallAfterAcknowledgement` and `NoCallForInactiveMission` all fail in the instance of `reply_waits`
  with `MaxIterations = 4`, which lets the mission go on. For example, the newest run's cancellation is
  acknowledged while the reopened run has blocked the mission row, the move to cancelled is
  refused, and the coordinator is called again. They are checked, and proved, where no
  resume comes late. `NoLostWakeup` holds there too: it names the run that waits and asks
  nothing of the others;
* a crash between `acknowledge_cancel` and the move to cancelled (engine.py:1066) lets recovery
  queue the run and the coordinator be called again, so `NoCallAfterAcknowledgement` is checked
  with graceful restarts only;
* a crash between storing a reply and satisfying its wait (comms/service.py:403) loses the
  wake-up: recovery looks at deadlines and claimed resumes, not at the inbox, so `NoLostWakeup`
  is checked without crashes;
* a crash followed by a restart within the lifetime of the dead process's lease leaves the run
  active with no executor: `recoverable` asks for an expired lease and recovery runs once, so
  `NoOrphanRun` is checked with graceful restarts, which release the lease;
* a start request while an iteration is suspended (worker.py:357, 383) moves the executed run
  back to queued. The budgets survive that, since a mission has one worker. A run-step call
  (worker.py:534) runs beside the worker: the two executors of a run overwrite each other's call
  count, so the call and failure budgets are checked, and proved, without a run-step call. With
  one, only `IterationBudget` is, which is tested and counted within one stretch of the loop;
* a wait without a deadline lasts as long as the peer is silent (engine.py:677), hence the premise
  of `WaitEnds`;
* `recover()` clears `pause_requested`, so a pause requested just before a crash is forgotten.

## 4. `Delivery` and `MessageService`

### Correspondence

| Model | Code |
|---|---|
| `outbox` | `agent_outbox_messages`: status, claim owner and whether its lease (`claim_expires_at`) lies ahead, `attempt_count` up to `max_attempts` |
| `age` | the envelope's `expires_at`: not reached, reached (the sender refuses), exceeded by more than the receiver's accepted skew |
| `deliverable`, `accepting` | the peer row of the other node: enabled and not revoked at the sender; trusted, enabled, with a key and a shared mesh at the receiver |
| `tasks` | the delivery in memory: one of the worker, one of `send_now`, each claimed, posted, being served, answered |
| `sender`, `receiver` | the two processes; `stopping` is the grace period of `DeliveryWorker.shutdown` |
| `late` | requests whose sender timed out, was cancelled or died, and that still arrive |
| `inbox`, `handled`, `desk` | `agent_inbox_messages`; how often the application was called for a message; the request between `session.commit()` and the call of the application |

An attempt suspends only in its HTTP request, so its outcome is written in the step that ends it
(`Conclude`, `Refuse`), by `release_and_update`, which writes nothing unless the attempt still
holds the claim. A worker task starts some steps after its claim, with other handlers between; a
`send_now` call goes straight from its claim to its request. That is the guard `LoopFree`. The
three ways a request can be lost (before it arrives, with its answer, by arriving when nobody
waits) are choices of `Conclude`, `Receive` and `ReceiveLate`; they also produce duplicates.
`Recovered` is the one UPDATE of recovery. A process that dies leaves its name in the claims,
and a new one has another (`Orphaned`).

`MessageService` is what the rest of the system may rely on: what became of each message, what
is stored, how often it was handed on. `Delivery` implements it under the mapping `Fate`, which
forgets claims and retries. It promises that acknowledged means stored, at most one delivery to
the application, and that acknowledgement and cancellation are final. It does not promise that a
cancelled or a given-up message does not arrive, nor that a stored one reaches the application:
if the receiver dies after the commit and before the call, the retry is answered as a duplicate
and nobody calls the application again.

### Runs

| Run | Instance | Shows |
|---|---|---|
| `delivery` | one message, two attempts, two late requests, all faults, fair specification; deadlock checked | types; one attempt at a time; the message service is implemented; the message settles |

Two attempts are a first and a last one; two late requests are one of each. Messages meet in the
worker's pool only (`WorkerCount`), which may delay a message but writes nothing of another's; two
messages with a pool of one were checked too (one attempt, no faults, 235,000 states, all four
properties), which takes too long to keep. The proofs hold for any number of messages.

### Fairness

Strong fairness of the worker's claim of each message: the poll loop takes due records in the
order they became due, and a message that is claimable again and again meets it. Strong fairness
of the end of each attempt: a request ends by its timeout. Weak fairness of the receiver's call
and of the end of a shutdown, both bounded by timeouts. Starts, crashes, operators and the
network have none. `MessageSettles` assumes that the sender stays up from some time on.

### Seen with TLC, without a run

`ClaimReleased` fails with graceful stops only: `shutdown` cancels the attempts that outlast the grace period and "resets" what is
still claimed (worker.py:89) by `recover_expired_claims`, which passes over claims whose lease is
live, as the cancelled attempt's is; so does the next start if it comes within the lease.
Afterwards nobody looks: a record in flight is not claimable and recovery runs at start and stop
only. A crash, or an exception out of `deliver_record` (worker.py:148), strands a record the same
way. `MessageSettles` excepts such records by name (`Abandoned`). The operator can cancel one, not
retry it.

## 5. `HardwareLease`

### Correspondence

| Model | Code |
|---|---|
| `leases`, `created` | `sdr_device_leases` in the order of creation: state, device, mode, mission, whether `expires_at` lies ahead. The token is not a field: exactly the active leases have one that can be used |
| `present`, `enabled` | `sdr_devices`: found and healthy; not disabled by an operator |
| `ended` | missions in a status of `_TERMINAL_MISSION`; a retry takes a mission out again |
| `procs` | capture subprocesses, the lease each runs under, whether its capture acquired the lease and still waits |
| `loop` | the next commit of `acquire` (after the pending row) and of `reconcile` (after the expired leases; after the orphans) |
| `node` | the process; a start runs both `recover` methods |

Of a device request only what leases depend on is kept: mode, presence, enabled, shared-receive
safe. A refresh persists presence and then orphans in a second commit; a crash between the two
leaves what the following start overwrites, so it is one step. Fault injection in
`field/service.py`, which orphans leases without a missing device, is left out.

### Runs

| Run | Instance | Shows |
|---|---|---|
| `hardware_leases` | two leases, one device, one capture, one mission, crashes and timeouts, fair specification; deadlock checked | types; no two conflicting leases hold the device; an orphaned lease ends; a mission that has ended keeps no lease |

A conflict is between two leases of one device, so two and one are enough to meet it; the theorem
covers any number. `DeviceFrees` assumes that the device stops coming and going, because each
disappearance renews the grace of the leases it finds, and that at most `ListLimit` leases exist.

Fairness: weak for the commits of a handler that holds the loop and for the passing of time;
strong for the start of a reconciliation, which the poll loop reaches again and again while
other handlers take the loop in between. None for operators, devices, captures and restarts.

### Seen with TLC, without a run

* `ExclusiveUse` fails with two captures on a device that is not shared: a capture does not notice that its lease ended, and its subprocess survives
  its own timeout. The device is granted again while the first subprocess uses it. The same
  happens when two requests to the capture endpoint name one lease (api/hardware.py:450).
* With `ListLimit` 1 and two leases `DeviceFrees` is violated.
  `reconcile` looks for orphans among the newest 1000 rows of any state (leases.py:418); an older
  one blocks its device until somebody releases it.
* `reconcile` orphans an expired lease and expires it in the same pass (leases.py:410, 418), so the
  grace period that settings.py:704 describes for "an unreconciled active lease" applies only to
  leases orphaned by a missing device or a restart.

## 6. `DataExport`

### Correspondence

| Model | Code |
|---|---|
| `profile`, `grants` | the accepted participation policy; `data_consent_grants` of each category, oldest first |
| `rec` | `data_export_records`: `export_status`, the batch, the deletion mark |
| `batch`, `sealed` | `data_export_batches`: status, the records sealed in it, `attempt_count`, the claim and whether it lies ahead |
| `version`, `built` | `data_dataset_versions`: members and exclusions |
| `call` | what an API thread has read and not yet written (sealing a batch, building a version) |
| `task`, `mode`, `stops` | the worker's delivery of a batch: claimed, posted, answered, refused; the process |
| `stray`, `remote` | uploads whose sender gave up and that may still arrive; what `services/ingestion` has accepted |

FastAPI runs these handlers on threads, so two may overlap: the two that read at length before
they write are two actions, the others one. The worker runs on the event loop and delivers in
four transactions with the upload between. The ingestion service accepts a batch once and answers
a repetition as a duplicate.

### Runs

| Run | Instance | Shows |
|---|---|---|
| `data_export` | two records, two callers, one batch, grant and version, two attempts, one stop, every fault, fair specification; deadlock checked | types; a verified receipt means the service holds the data; batch and records settle together; a dataset is made of delivered, consented records; a batch is verified or a dead letter in the end |
| `withdrawn_export` | one record, no fault | the finding: a delivery begins for a batch with a quarantined record |

Two records are one that is withdrawn or deleted and one that is not; two callers are the least
that overlap; one batch is enough, because batches meet only in the records that two callers seal
at once, which the proofs cover for any number.

Fairness: the poll takes the batch that has been due longest (`due_ids` orders by
`next_attempt_at`), so a batch that is due again and again is claimed (strong); an upload ends by
its timeout, a task goes on, a stopped node is started again (weak). None for operators.

### Finding and other disagreements

* `withdrawn_export`: `withdraw_consent` quarantines records but leaves a sealed batch as it is, and
  the delivery reads the batch's payload only. deploy/README.md:337 promises that withdrawal
  "blocks new exports immediately".
* `pause_export` sets `service.export_paused`; the worker reads `config.paused` (worker.py:92), so
  pausing pauses nothing. `approve_record` lets a record that is `collected`, local only, be exported.
* `_finalize_success` overwrites `quarantined` and, unless the deletion mark is set, what became of the
  record meanwhile.
* A claim that has not expired when the node starts is not recovered, and nothing looks again
  until the next start: `Abandoned` in `BatchSettles`. Each stop allows one attempt more than
  `max_attempts`.
* Two callers who seal at once put a record in two batches; a version that is built while another
  thread deletes may hold the deleted record.
* A crash between the two transactions of a deletion request leaves it `processing`; remote
  deletion and `run_retention` have no caller; the collection flag of a grant is not read.

## 7. `FleetSim`

### Correspondence

| Model | Code |
|---|---|
| `spawned`, `at` | hazards that have appeared, and where `position_at` puts each |
| `travel`, `target`, `braked` | `veh_travel`, `stop_target`, the committed hazards |
| `observed`, `aware`, `radio` | what a vehicle saw, knows, was warned of (`aware_via_radio`) |
| `heard`, `relayed` | `heard_hops` and `relayed_edges`, the edges of the graph |
| `adj`, `pending` | the links that deliver in this tick; vehicles and hazards still to be warned |
| `phase` | the place in the tick: `Sense`, `Warn`, `Braking`, `Advance` in the order of `SimEngine.run` |

Cars drive one way on one road, and a position is a number on it: the model has no second dimension.
A lidar sees any subset of the hazards in range and any subset of the possible links delivers, which
stands for geometry, fog, jammers and the modem; a light is red or not and a car goes any distance up
to its speed. A hazard that is on the road goes up to `Pace[h]` in a tick, either way along the road
(`position_at`, world.py:91); with pace 0 it stands. It stays on the road between 0 and its end. The
stop target is computed once, from where the hazard is in the tick in which the car commits
(engine.py:335), and does not follow the hazard. No relation between speeds and the braking distance
is assumed, since `scenario.py` enforces none, so no run claims that a braking car stops in time.

### Runs

| Run | Instance | Shows |
|---|---|---|
| `fleet` | an ambulance, a relay and a parked car in a chain, a moving and a standing hazard, one light, a road of 4; deadlock checked | types; a warning goes back hop by hop to a sighting; the edges of the warning graph agree |

Three cars are a source, a relay and a receiver; two hazards are what sightings and warnings can be confused
between; a moving one leaves and enters the lidar's range while its hops are remembered. The simulation has no scheduler and no failure, hence no fairness.

### Seen with TLC, without a run

* `StaysStopped` fails in the instance of `fleet`, and also when both hazards stand: the braking step
  assigns the stop target of every newly known hazard without a minimum (engine.py:338), so a hazard
  farther on releases a car that engine.py:72 says "stays stopped".
* A hazard that moves on after a car has committed to it is driven up to at the target that was computed
  for its old place; one that comes towards the car is not braked for again.
* The receivers of a hop in the middle of a path are not made aware, although engine.py:289 says
  they already know.
* A car that is past a stop line by no more than the slack is pulled back to it. A car that brakes
  for a hazard does not look at lights, although `_advance_vehicles` says it honours them.
* Awareness and hops are recorded also when the real modem failed to carry the message.

## 8. `ArtifactTransfer`

### Correspondence

| Model | Code |
|---|---|
| `inbound`, `permanent`, `attempts`, `backoff`, `claimed` | `artifact_transfers` of the node that asks: state, permanent `error_type`, `attempt_count`, `next_attempt_at`, claim |
| `outbound`, `overdue` | the row of the node that grants; whether `grant_expires_at` has passed |
| `net` | control messages on their way; lost, late and reordered ones are those that are not handled yet |
| `step`, `offset` | the downloads in `_inflight`: claimed, waiting for a range, with its bytes or a refusal, closing the connection |
| `file`, `objects`, `records` | chunks in the partial file; the object store; `rf_artifacts` rows that refer to it |

A download suspends in a pull and when it closes its connection, nowhere else: a cancellation, a
second download of the same transfer (after its claim lapsed), a restart or a receipt come in
there. The commits of an import are separate for a crash only (`CrashAtEnd`). Bytes are honest;
an artifact has at least one byte. `attempts` saturates at `MaxAttempts`. `MaxTroubles` bounds
restarts, cancellations, retries, expiring grants and claims that lapse under a running download,
together.

### Runs

| Run | Instance | Shows |
|---|---|---|
| `artifacts` | two transfers of one artifact, three chunks, two slots, two attempts, two troubles, fair specification; deadlock checked | types; a receipt is honest; no partial file has a hole; a transfer that was granted settles |

Two transfers of one artifact share the object that a collector may take and compete for slots;
three chunks make a hole possible that the end of the file does not hide; two downloads overlap.
Three troubles were checked once with two chunks (1.3 million states) and take too long to keep.

Fairness: the worker polls every second, each await of a download ends by its answer or its
timeout, and back-offs and claims run out (all weak). None for control messages, operators, and
restarts, so `TransferSettles` speaks of granted transfers only.

### Seen with TLC, without a run

* `NeverResumes` fails with one transfer: a download looks for a cancellation before each range only, and writes
  `verifying` and `completed` without reading the state (worker.py:238). A transfer cancelled
  during its last range completes. worker.py:13: "Cancelled transfers never resume; completed
  objects are never re-downloaded." The second half fails too: a claim of two minutes is never
  renewed, so a long download is started twice; if both reach the end, the one that closes last finds no
  file, and the completed row goes back to `authorized` and is downloaded again, or to `failed`.
* A crash while the row says `verifying` leaves the transfer behind: it stays claimable, every
  claim ends at once (worker.py:155), and `recover` does not look at it. `TransferSettles` counts
  `verifying` as settled. With one slot TLC shows that such a row, being the oldest, keeps younger
  transfers from ever being claimed.
* `on_complete` overwrites a cancelled, failed or expired row. A cancellation is not told to the
  peer. `requested` has no timeout. A retry after giving up is usually refused for good, because the
  failure was reported and the peer's row is `failed` (403, `grant_mismatch`).
* `active_count_for_peer` counts inbound rows although it limits what is granted. The worker's
  events are never emitted: `_emit_event` lacks an argument and the error is suppressed. An artifact
  of zero bytes never completes.

## 9. `PeerRequests`

### Correspondence

| Model | Code |
|---|---|
| `inbox` | `application_state` of an inbox row; `stored` is a row the comms service has not looked at or does not care about |
| `rows` | `inbound_requests` by `request_id`: state, message, `response_required`, `response_message_id` |
| `missions` | the mission made for a message: `received` (never queued), `open` (anything between), completed, cancelled, or `failed` (which stands for blocked too: both can be retried) |
| `replies` | outbox rows of type `reply`: the request they answer and the peer they go to |
| `perm` | the permission flags of a peer row |
| `loop` | the handler that holds the event loop and its next commit |

No await of these handlers suspends (events go to queues that are never full when they are put), so
a handler that has begun is alone and interleavings are between handlers; what breaks one up is a
crash between two of its commits, and `recover` (comms/service.py:596) resumes none of them. A
message is handed over at most once and in any order, as `MessageService` promises and `Delivery` is
proved to keep; two messages can carry one request id, and their envelopes then differ, so the branch
for an identical duplicate is out of reach. Which request a reply answers, and to whom it goes, is
the coordinator's or the operator's choice: the code checks neither.

### Runs

| Run | Instance | Shows |
|---|---|---|
| `peer_requests` | two messages of one peer, one of another that reuses an id, a cap of one, two replies, permissions that come and go, any number of crashes; deadlock checked | types; an id makes one mission; a mission with an obligation completes only with a reply to its request in the outbox |
| `refused_peer` | the same | the finding: a peer none of whose missions runs is turned away |

Two ids of one peer are what compete for its place, the third message is a collision across peers,
two replies are a first and a second one to the same request or two to different ones. Nothing is
claimed to happen eventually: what a coordinator or an operator does is not bounded in time.

### Finding and other disagreements

* `refused_peer`: `count_open_for_peer` (repositories.py:2103) counts rows in state
  `mission_created`, and only a queued reply moves a row on. A request without an obligation, or one
  whose mission failed or was cancelled, keeps its place for ever; after
  `max_concurrent_inbound_missions` of them (four by default) the peer is refused for good, although
  `src/aithernet/README.md:1277` says "open inbound-request missions per peer". Conversely, a mission
  that has replied and runs on takes no place.
* `RequestSurvives` fails in the instance of `peer_requests`: a crash after the row is committed
  (comms/service.py:480) and before the mission is queued leaves a request without a mission, or a
  mission nobody starts; the same id is then refused as a collision.
  `src/aithernet/README.md:1322`: "open inbound requests survive a restart".
* `ReplyRemembered` fails there too: a crash between the outbox row and `_mark_inbound_responded`
  (comms/service.py:205) makes the mission queue a second reply, although the README goes on "nothing
  is double-sent".
* The obligation is met by a reply to any peer that names the request, also one queued by another
  mission or an operator.

## 10. Proofs

`MissionExecution_proofs` proves, for any number of missions, callers, runs, requests, waits,
any limits and any faults, from `BoundsAssumption` and `NamesAssumption` alone:

* `TypeCorrect`: `Spec => []TypeOK`. `TypeOK` is not inductive: an action that continues a
  coroutine needs to know that `loop` names a run and an executor that exist. `Shape` says so, for
  each continuation, and that a suspended executor has a run; `TypeInv` is the conjunction.
  One lemma per action shows that it keeps `TypeInv`.
* `IterationBudgetHolds`: each run keeps its budget. The bound is inductive with `TypeInv`; the
  lemma `StepKept` says what any step may do to a run row (insert a fresh one, count one
  iteration below the limit, or leave the counter alone), so the argument is one case.
* `OnlyRequeueReopensHolds`: an action property from the same lemma and the table: `Allowed[s]` is
  empty for a terminal `s`, a lease is taken only of a queued or active run, and recovery touches
  only active runs.
* `OnePendingWaitHolds`, `ResolvedWaitFinalHolds`: `StepWaits` says what any step may do to the
  waits. They need the strengthening `SatisfiesPending`: when the loop is about to satisfy a
  wait, that wait is still pending, which holds because nothing else runs in between.

`MissionRows_proofs` proves the rest about missions: for any number of missions, runs, requests and
waits and any limits, that rows written in separate transactions agree. All of it assumes
`Callers = {}`: no run-step call, so a mission has one executor, its worker. Each theorem names in
its ASSUME what else it needs of the constants; section 3 says how each property fails without it.

| Theorem | Also assumes |
|---|---|
| `BudgetRespectedHolds` | nothing: crashes and late resumes included |
| `NoLostWakeupHolds` | no crashes; late resumes included |
| `RowsAgreeHolds`, `NoOrphanRunHolds`, `NoCallAfterAcknowledgementHolds`, `NoCallForInactiveMissionHolds` | no crashes, and `NoLateResume`: no requests (`Requests = {}`), or one run per mission (`MaxRuns = 1`) |
| `TerminalRunFinalHolds` | `Requests = {}`; crashes included |
| `TerminalMissionStoppedHolds` | the behaviour satisfies `TerminalRunFinal`, which `TerminalRunFinalHolds` gives when there are no requests; crashes included |

`NoLateResume` covers the instances of `mission_operations` (retries, no waits) and missions that wait but
are never retried. Missions that do both are outside these four theorems because the properties
fail there.

The theorems and the invariants they need:

* `BudgetRespectedHolds` (crashes and late resumes included): the gates are passed before an await and the
  counters written after it, so the count a suspended worker has read must still be the row's. `OwnRuns` says
  that a worker has a run of its own mission, `Budget` that what it read leaves room for one more.
* `TerminalMissionStoppedHolds` (crashes included): `Steady`. Only the newest run of a mission can be
  live (`RowInv`), a worker in an await works on a live run (`Working`), and what the handler that holds
  the loop found in its last transaction still holds in its next (`Held`).
* `RowsAgreeHolds`, `NoOrphanRunHolds`, `NoCallAfterAcknowledgementHolds`,
  `NoCallForInactiveMissionHolds`: `Sound`, which adds `Consistent` to `Steady`. `Agreement` says which row
  is ahead between two transactions; `AckEnds` that an acknowledged run is over or is being cancelled;
  `Owned` that an active run has the worker whose token it bears, or was left by a shutdown with its lease
  released, so that `recover()` finds it.
* `NoLostWakeupHolds`: `HeldRun` (a worker that holds the loop works on its own run), `Awake` (a worker in an
  await does not work on a waiting run) and `WaitRows`, but nothing about which run is the newest,
  so that a reopened run does no harm. A run that waits has a *keeper*: the newest wait of its request, which is pending, or
  cancelled by an operator, or about to resume the run in the same stretch of the loop. A wait is pending
  only while its reply has not come, except in the stretch that resolves it.

One lemma per action says what it does to these; those that touch none of it share the lemmas of
steps that keep the rows (`Keeps`, `StillRows`).

`Delivery_proofs` proves, for any messages, limits and faults, from `DeliveryAssumption`:

* `TypeCorrect`: here `TypeOK` is inductive.
* `OneAttemptHolds`: not inductive. `Owned` adds why it holds: while an attempt is under way its
  record is in flight under the attempt's own name, or was cancelled under it; neither is
  claimable. `DownIsIdle` is needed for a start, when recovery makes records claimable.
* `ImplementsServiceHolds`: `Spec => Service!Spec`, the initial states and every step mapped. It
  needs `Arrived`: an attempt that learned of an acceptance has a stored message, the message at
  the desk was not handed on before, and nothing arrives that was not sent.

`HardwareLease_proofs` proves, from `LeaseAssumption`, `TypeCorrect` and `NoConflictHolds`. Both are
inductive (the second with the first); `StepHolds` says what any step may do to the leases that
hold a device: keep its device and mode, or grant one that conflicts with none.

`DataExport_proofs` proves, from `ExportAssumption`, `TypeCorrect`, `ReceiptMeansStoredHolds`,
`SettledTogetherHolds` and `DatasetDeliveredHolds`. `TInv` adds to the types that a batch is tried at most `max_attempts` times and
once more for each stop (`AttemptsBounded`), that batches are numbered in order, and that a node
that is down has no task. `SInv` adds `Acknowledged`: a task with an acceptance has it because the
service took the batch. The lemma `Keeps` says which steps disturb nothing. For datasets `DInv` adds why a thread may build
from what it read before: what the service took stays taken (`ReadStands`), the first record of a
category comes after its consent (`ConsentFirst`), and a row names a batch that holds its record
(`Enclosed`).

`FleetSim_proofs` proves, from `FleetAssumption`, `TypeCorrect`, `WarningsTraceHolds` and `EdgesAgreeHolds` for any road,
cars, hazards (moving or not) and links. `WarningsTraceHolds` is about paths of any length: if a
warned car were outside a set that holds the sources and is closed under hops, some index of its
path would be the first outside; there is a least one, and the hop into it contradicts closure.

`ArtifactTransfer_proofs` proves, from `TransferAssumption`, `TypeCorrect` (`TInv` adds `Granted`: a row, a
grant message or a download that is under way was granted), `ReceiptHonestHolds` (no step forgets
what is in the store and on record, and what it completes anew is), `PartialIntactHolds` and
`EndMeansWhole`: a chunk written at or before the length of a file without a hole leaves none, the
length being the least number past its chunks.

`PeerRequests_proofs` proves, from `RequestAssumption`, `TypeCorrect`, `OneMissionHolds` and
`CompletedMeansAnsweredHolds`, for any peers, messages, ids and cap. `Owns` says why a mission belongs
to its row: a handler past its first commit works on the row that it made, because nothing else runs
in between, and a row that a crash left behind is never given to another message. `Paid` says that a
row names a queued reply to its own request, and `Settled` that a completed mission found one there.
`TypeOK` is inductive only with `Owns`: linking must not give a state to a row without a message.

Induction over data is mostly outside what TLAPS proves here; where an argument about paths or
files needs it, it is put as the existence of a least natural number (lemma `Least`, from the
library's well-founded induction).

Every invariant and every action property of a passing run is so stated by a theorem, under the hypotheses
above. Only model-checked are the liveness properties (`MessageSettles`, `DeviceFrees`,
`EndedMissionFrees`, `BatchSettles`, `TransferSettles`, `MissionSettles`, `WaitEnds`, `ShutdownEnds`):
liveness under fairness and ENABLED are outside what TLAPS proves.

## 11. What is not modelled

In the mission model: step records, events, prompts and their wording; the cache of the coding
sandbox's preflight (its refusal is one of the outcomes); the recovery counter, which nothing
reads; a heartbeat that dies of a database exception; exceptions other than `CoordinatorError`
in the coordinator's stack; the order of the queue. The counters of an iteration are written
with the transition that follows them where nothing can come between. The one-transaction-per-run
loop of `recover()` is one step.

In the delivery model: the branch for a missing signing identity; message-id collisions, which need
two different envelopes of one id; peer health counters, the duplicate counter, manifests and events;
`recovery_enabled: false`; backoff times, since a record that is not due yet becomes due.

In the data platform: retention, redaction and the format of payloads; local destinations; the
spool and research synchronisation (`research_spool.py`, `research_upload.py`). In the simulation:
grid paths, frames, the `blind_to` and `unaware_risk` events, the HTTP API. In the transfers:
offers, permissions, indexing and pinning (whether a request is granted is any outcome), quotas, and
`recover`'s limit of the newest 1000 rows.

The over-the-air link is driven by one thread at a time, synchronously, so what is hard about it is
its timing rather than its order; conversations and their repair, interop callbacks, status publication, the MCP
session and the control plane keep state worth modelling and are left for later.

Not modelled at all: text and layout (prompt context, classification of failures, RF constraint
parsing), cryptography and canonical encoding, subprocess and file installation, the portal, the
web UI and the deployment files, one-shot device probes. `PROJECT.json` lists every component with
its status.
