----------------------------- MODULE HardwareLease -----------------------------
(***************************************************************************)
(* Leases on radio devices (hardware/leases.py), their reconciliation by   *)
(* the inventory worker (hardware/inventory.py), and the captures that run *)
(* a subprocess on a leased device (hardware/capture.py).                  *)
(*                                                                         *)
(* A handler of the lease service does not suspend, but it commits several *)
(* times, and the node may die between two commits.                        *)
(***************************************************************************)
EXTENDS Naturals

CONSTANTS
  Devices,     \* managed devices
  SharedSafe,  \* those that declare shared receive safe
  Missions,    \* missions that acquire leases
  Captures,    \* capture subprocesses at a time
  MaxLeases,   \* bound: lease rows, numbered in the order of their creation
  ListLimit,   \* how many of the newest rows reconciliation looks at
  Faults,      \* what may befall: "crash", "timeout" of a capture's subprocess
  None         \* no mission, no capture, no device

ASSUME LeaseAssumption ==
  /\ SharedSafe \subseteq Devices
  /\ MaxLeases \in Nat /\ ListLimit \in Nat
  /\ Faults \subseteq {"crash", "timeout"}
  /\ None \notin Missions \cup Captures \cup Devices

VARIABLES
  leases,    \* sdr_device_leases rows
  created,   \* how many there are
  present,   \* devices that were found, and are healthy
  enabled,   \* devices that an operator has not disabled
  ended,     \* missions in a terminal status
  procs,     \* capture subprocesses
  loop,      \* the next commit of the handler that holds the event loop
  node       \* phase of the node's process

vars == <<leases, created, present, enabled, ended, procs, loop, node>>

-------------------------------------------------------------------------------
Ids    == 1 .. MaxLeases
Modes  == {"exclusive", "shared_receive"}
Final  == {"released", "expired", "revoked", "failed"}
States == {"absent", "pending", "active", "orphaned"} \cup Final
Holding == {"active", "orphaned"}

\* Whether expires_at lies ahead; it is not read of a lease that holds nothing.
Row == [state : States, device : Devices \cup {None}, mode : Modes,
        mission : Missions \cup {None}, expiry : {"none", "ahead", "past"}]

\* A subprocess runs under a lease; its capture may no longer wait for it.
Proc == [pc : {"none", "awaited", "abandoned"}, lease : 0 .. MaxLeases, own : BOOLEAN]
NoProc == [pc |-> "none", lease |-> 0, own |-> FALSE]

Loop == [step : {"free", "grant", "expire", "release"}, lease : 0 .. MaxLeases,
         capture : Captures \cup {None}]
Free == [step |-> "free", lease |-> 0, capture |-> None]
LoopAt(step) == [Free EXCEPT !.step = step]
LoopFree == node = "up" /\ loop = Free

\* transition(): the lease ends.
Ended(row, state) == [row EXCEPT !.state = state, !.expiry = "none"]
\* It still holds its device, for the grace period.
Orphaned(row) == [row EXCEPT !.state = "orphaned", !.expiry = "ahead"]

-------------------------------------------------------------------------------
(* Acquiring.                                                              *)

\* The first transaction checks the device and creates a pending row.
Request(d, mode, mission, c) ==
  /\ LoopFree /\ created < MaxLeases
  /\ d \in present \cap enabled /\ (mode = "shared_receive" => d \in SharedSafe)
  /\ mission # None => mission \notin ended
  /\ c # None => procs[c] = NoProc /\ mode = "exclusive" /\ mission = None
  /\ created' = created + 1
  /\ leases' = [leases EXCEPT ![created'] =
       [state |-> "pending", device |-> d, mode |-> mode, mission |-> mission, expiry |-> "none"]]
  /\ loop' = [step |-> "grant", lease |-> created', capture |-> c]
  /\ UNCHANGED <<present, enabled, ended, procs, node>>

ConflictsWithActive(l, k) ==  \* mutant of Conflicts: orphaned leases do not block
  /\ k # l /\ leases[k].device = leases[l].device /\ leases[k].state = "active"
  /\ leases[l].mode = "exclusive" \/ leases[k].mode = "exclusive"
Conflicts(l, k) ==
  /\ k # l /\ leases[k].device = leases[l].device /\ leases[k].state \in Holding
  /\ leases[l].mode = "exclusive" \/ leases[k].mode = "exclusive"

\* The second grants it unless a lease conflicts; a capture then starts its script.
Grant ==
  /\ node = "up" /\ loop.step = "grant"
  /\ LET l == loop.lease
         granted == leases[l].state = "pending" /\ \A k \in Ids : ~Conflicts(l, k)
     IN /\ leases' = [leases EXCEPT ![l] =
             IF granted THEN [@ EXCEPT !.state = "active", !.expiry = "ahead"]
                        ELSE Ended(@, "failed")]
        /\ procs' = [c \in Captures |-> IF granted /\ c = loop.capture
                       THEN [pc |-> "awaited", lease |-> l, own |-> TRUE] ELSE procs[c]]
  /\ loop' = Free
  /\ UNCHANGED <<created, present, enabled, ended, node>>

-------------------------------------------------------------------------------
(* Renewing and ending.                                                    *)

Renew(l) ==
  /\ LoopFree /\ leases[l].state = "active"
  /\ leases' = [leases EXCEPT ![l].expiry = "ahead"]
  /\ UNCHANGED <<created, present, enabled, ended, procs, loop, node>>

\* _terminate: release and revoke, of the operator, the coordinator or a capture.
Terminated(l, state) ==
  [leases EXCEPT ![l] = IF @.state \in {"pending"} \cup Holding THEN Ended(@, state) ELSE @]
Terminate(l) ==
  /\ LoopFree
  /\ \E state \in {"released", "revoked"} : leases' = Terminated(l, state)
  /\ UNCHANGED <<created, present, enabled, ended, procs, loop, node>>

-------------------------------------------------------------------------------
(* Captures.                                                               *)

\* A capture under a lease that is held anyway looks at its state only.
CaptureUnder(c, l) ==
  /\ LoopFree /\ procs[c] = NoProc /\ leases[l].state = "active"
  /\ procs' = [procs EXCEPT ![c] = [pc |-> "awaited", lease |-> l, own |-> FALSE]]
  /\ UNCHANGED <<leases, created, present, enabled, ended, loop, node>>

\* The capture returns and releases the lease it acquired.
Returned(c) ==
  IF procs[c].own THEN Terminated(procs[c].lease, "released") ELSE leases
EndCapture(c) ==
  /\ LoopFree /\ procs[c].pc = "awaited"
  /\ leases' = Returned(c) /\ procs' = [procs EXCEPT ![c] = NoProc]
  /\ UNCHANGED <<created, present, enabled, ended, loop, node>>

\* _run_script gives up waiting; nobody kills the subprocess.
TimeOut(c) ==
  /\ "timeout" \in Faults /\ LoopFree /\ procs[c].pc = "awaited"
  /\ leases' = Returned(c) /\ procs' = [procs EXCEPT ![c].pc = "abandoned"]
  /\ UNCHANGED <<created, present, enabled, ended, loop, node>>

ProcessEnds(c) ==
  /\ procs[c].pc = "abandoned"
  /\ procs' = [procs EXCEPT ![c] = NoProc]
  /\ UNCHANGED <<leases, created, present, enabled, ended, loop, node>>

-------------------------------------------------------------------------------
(* Devices and missions.                                                   *)

\* A refresh finds a device gone: its leases are orphaned.
DeviceMissing(d) ==
  /\ LoopFree /\ d \in present
  /\ present' = present \ {d}
  /\ leases' = [l \in Ids |-> IF leases[l].device = d /\ leases[l].state \in Holding
                              THEN Orphaned(leases[l]) ELSE leases[l]]
  /\ UNCHANGED <<created, enabled, ended, procs, loop, node>>

DeviceFound(d) ==
  /\ LoopFree /\ present' = present \cup {d}
  /\ UNCHANGED <<leases, created, enabled, ended, procs, loop, node>>

\* The endpoints that enable and disable a device run in a thread of their own.
SetEnabled(d) ==
  /\ node = "up"
  /\ \E on \in {{}, {d}} : enabled' = (enabled \ {d}) \cup on
  /\ UNCHANGED <<leases, created, present, ended, procs, loop, node>>

\* The mission reaches a terminal status, or is retried.
MissionMoves(m) ==
  /\ LoopFree
  /\ ended' = IF m \in ended THEN ended \ {m} ELSE ended \cup {m}
  /\ UNCHANGED <<leases, created, present, enabled, procs, loop, node>>

-------------------------------------------------------------------------------
(* Reconciliation, in the poll loop of the inventory worker.               *)

Past(l) == leases[l].expiry = "past"

Reconcile ==
  /\ LoopFree
  /\ leases' = [l \in Ids |-> IF leases[l].state = "active" /\ Past(l)
                              THEN [leases[l] EXCEPT !.state = "orphaned"] ELSE leases[l]]
  /\ loop' = LoopAt("expire")
  /\ UNCHANGED <<created, present, enabled, ended, procs, node>>

StaleNever(l) ==  \* mutant of Stale: what the first pass orphaned is looked for under its old state
  created < l + ListLimit /\ leases[l].state = "active" /\ Past(l)
\* Only the newest rows are listed.
Stale(l) == created < l + ListLimit /\ leases[l].state = "orphaned" /\ Past(l)

ExpireOrphans ==
  /\ node = "up" /\ loop.step = "expire"
  /\ leases' = [l \in Ids |-> IF Stale(l) THEN Ended(leases[l], "expired") ELSE leases[l]]
  /\ loop' = LoopAt("release")
  /\ UNCHANGED <<created, present, enabled, ended, procs, node>>

OfEndedMissionOrphan(l) ==  \* mutant of OfEndedMission: active leases are not looked at
  leases[l].state = "orphaned" /\ leases[l].mission \in ended
OfEndedMission(l) == leases[l].state \in Holding /\ leases[l].mission \in ended

\* One transaction each.
ReleaseOne ==
  /\ node = "up" /\ loop.step = "release"
  /\ \/ /\ \A l \in Ids : ~OfEndedMission(l)
        /\ loop' = Free /\ UNCHANGED leases
     \/ /\ \E l \in Ids : OfEndedMission(l) /\ leases' = Terminated(l, "released")
        /\ UNCHANGED loop
  /\ UNCHANGED <<created, present, enabled, ended, procs, node>>

-------------------------------------------------------------------------------
(* Restarts and time.                                                      *)

Crash ==
  /\ "crash" \in Faults /\ node = "up"
  /\ node' = "down" /\ loop' = Free
  /\ procs' = [c \in Captures |-> IF procs[c].pc = "awaited"
                                  THEN [procs[c] EXCEPT !.pc = "abandoned"] ELSE procs[c]]
  /\ UNCHANGED <<leases, created, present, enabled, ended>>

\* No device counts as present, and what was held is orphaned.
RecoveredAbsent(row) ==  \* mutant of Recovered: the wrong state
  IF row.state \in Holding THEN [row EXCEPT !.state = "stale", !.expiry = "ahead"] ELSE row
Recovered(row) == IF row.state \in Holding THEN Orphaned(row) ELSE row
Start ==
  /\ node = "down"
  /\ node' = "up" /\ present' = {}
  /\ leases' = [l \in Ids |-> Recovered(leases[l])]
  /\ UNCHANGED <<created, enabled, ended, procs, loop>>

Expire(l) ==
  /\ leases[l].expiry = "ahead"
  /\ leases' = [leases EXCEPT ![l].expiry = "past"]
  /\ UNCHANGED <<created, present, enabled, ended, procs, loop, node>>

-------------------------------------------------------------------------------
Init ==
  /\ leases = [l \in Ids |-> [state |-> "absent", device |-> None, mode |-> "exclusive",
                             mission |-> None, expiry |-> "none"]]
  /\ created = 0
  /\ present = {} /\ enabled = Devices /\ ended = {}
  /\ procs = [c \in Captures |-> NoProc]
  /\ loop = Free /\ node = "up"

PerDevice(d) ==
  \/ \E mode \in Modes, mission \in Missions \cup {None}, c \in Captures \cup {None} :
       Request(d, mode, mission, c)
  \/ DeviceMissing(d) \/ DeviceFound(d) \/ SetEnabled(d)
PerLease(l) == Renew(l) \/ Terminate(l) \/ Expire(l)
PerCapture(c) ==
  (\E l \in Ids : CaptureUnder(c, l)) \/ EndCapture(c) \/ TimeOut(c) \/ ProcessEnds(c)

Next ==
  \/ \E d \in Devices : PerDevice(d)
  \/ \E l \in Ids : PerLease(l)
  \/ \E c \in Captures : PerCapture(c)
  \/ \E m \in Missions : MissionMoves(m)
  \/ Grant \/ Reconcile \/ ExpireOrphans \/ ReleaseOne \/ Crash \/ Start

Spec == Init /\ [][Next]_vars

\* A handler that holds the loop goes on; the poll loop comes round, though other
\* handlers take the loop in between; time passes.
Fairness ==
  /\ WF_vars(Grant) /\ WF_vars(ExpireOrphans) /\ WF_vars(ReleaseOne)
  /\ SF_vars(Reconcile)
  /\ \A l \in Ids : WF_vars(Expire(l))
FairSpec == Spec /\ Fairness

TypeOK ==
  /\ leases \in [Ids -> Row]
  /\ created \in 0 .. MaxLeases
  /\ present \subseteq Devices /\ enabled \subseteq Devices /\ ended \subseteq Missions
  /\ procs \in [Captures -> Proc]
  /\ loop \in Loop
  /\ node \in {"up", "down"}

-------------------------------------------------------------------------------
(* Properties.                                                             *)

\* Two leases hold one device only to receive together, across orphans and
\* restarts ("no two conflicting exclusive leases"; "a restart never silently
\* grants a conflicting lease before stale-lease reconciliation").
NoConflict ==
  \A l, k \in Ids :
    /\ l # k /\ leases[l].device = leases[k].device
    /\ leases[l].state \in Holding /\ leases[k].state \in Holding
    => leases[l].mode = "shared_receive" /\ leases[k].mode = "shared_receive"

\* A lease nobody can renew gives its device back, once the node stays up and
\* the device neither comes nor goes (stale_lease_grace_seconds).
DeviceFrees ==
  \A d \in Devices :
    <>[](node = "up") /\ (<>[](d \in present) \/ <>[](d \notin present))
      => \A l \in Ids :
           leases[l].device = d /\ leases[l].state = "orphaned" ~> leases[l].state # "orphaned"

\* A mission that has ended for good keeps no device, whatever renewals or
\* restarts come ("a lease is released on ... mission terminal state").
EndedMissionFrees ==
  \A m \in Missions :
    <>[](node = "up" /\ m \in ended)
      => <>[](\A l \in Ids : leases[l].mission = m => leases[l].state \notin Holding)

\* Two captures use one device at a time only if they may share it ("Only an
\* ACTIVE valid lease authorizes managed physical-device use").
ExclusiveUse ==
  \A b, c \in Captures :
    LET p == procs[b] q == procs[c]
    IN b # c /\ p.pc # "none" /\ q.pc # "none" /\ p.lease # q.lease
         /\ leases[p.lease].device = leases[q.lease].device
       => leases[p.lease].mode = "shared_receive" /\ leases[q.lease].mode = "shared_receive"
===============================================================================
