-------------------------- MODULE HardwareLease_proofs -------------------------
(***************************************************************************)
(* Proofs about HardwareLease for any devices, missions, captures, limits  *)
(* and faults: its types, and that no two leases conflict.                 *)
(***************************************************************************)
EXTENDS HardwareLease, TLAPS

-------------------------------------------------------------------------------
(* Types.                                                                  *)

\* A lease that ends, or is orphaned, is a lease (transition, on_device_missing).
LEMMA RowTypes ==
  ASSUME NEW row \in Row, NEW s \in Final
  PROVE  Ended(row, s) \in Row /\ Orphaned(row) \in Row /\ Recovered(row) \in Row
BY DEF Row, Ended, Orphaned, Recovered, States, Final

\* So is a table of leases after one of them was terminated (_terminate).
LEMMA TerminatedType ==
  ASSUME leases \in [Ids -> Row], NEW l, NEW s \in Final
  PROVE  /\ Terminated(l, s) \in [Ids -> Row]
         /\ \A k \in Ids : Terminated(l, s)[k] = leases[k]
                           \/ Terminated(l, s)[k] = Ended(leases[k], s)
<1>1. ASSUME NEW k \in Ids PROVE Ended(leases[k], s) \in Row
  BY RowTypes
<1>2. QED BY <1>1 DEF Terminated

\* The constants that the program writes have their types.
LEMMA FreeType == Free \in Loop /\ LoopAt("expire") \in Loop /\ LoopAt("release") \in Loop
                  /\ NoProc \in Proc
BY LeaseAssumption DEF Free, LoopAt, Loop, NoProc, Proc

\* Every step keeps the types (all handlers of HardwareLease).
LEMMA TypeStep == TypeOK /\ [Next]_vars => TypeOK'
<1> SUFFICES ASSUME TypeOK, [Next]_vars PROVE TypeOK'
  OBVIOUS
<1> USE DEF TypeOK
<1>r. \A l \in Ids : leases[l] \in Row
  OBVIOUS
<1>f. {"released", "expired", "revoked", "failed"} \subseteq Final
  BY DEF Final
<1>1. CASE UNCHANGED vars
  BY <1>1 DEF vars
<1>2. ASSUME NEW d \in Devices, PerDevice(d) PROVE TypeOK'
  <2>1. ASSUME NEW mode \in Modes, NEW mission \in Missions \cup {None},
               NEW c \in Captures \cup {None}, Request(d, mode, mission, c)
        PROVE  TypeOK'
    <3>1. created + 1 \in Ids /\ created + 1 \in 0 .. MaxLeases
      BY <2>1, LeaseAssumption DEF Request, Ids
    <3>2. [state |-> "pending", device |-> d, mode |-> mode, mission |-> mission,
           expiry |-> "none"] \in Row
      BY DEF Row, States
    <3>3. leases' \in [Ids -> Row]
      BY <2>1, <3>1, <3>2 DEF Request
    <3>4. loop' \in Loop
      BY <2>1, <3>1 DEF Request, Loop
    <3>5. QED BY <2>1, <3>1, <3>3, <3>4 DEF Request
  <2>2. CASE DeviceMissing(d)
    <3>1. ASSUME NEW l \in Ids PROVE Orphaned(leases[l]) \in Row
      BY <1>r, <1>f, RowTypes
    <3>2. leases' \in [Ids -> Row]
      BY <2>2, <3>1 DEF DeviceMissing
    <3>3. QED BY <2>2, <3>2 DEF DeviceMissing
  <2>3. CASE DeviceFound(d)
    BY <2>3 DEF DeviceFound
  <2>4. CASE SetEnabled(d)
    BY <2>4 DEF SetEnabled
  <2>5. QED BY <1>2, <2>1, <2>2, <2>3, <2>4 DEF PerDevice
<1>3. ASSUME NEW l \in Ids, PerLease(l) PROVE TypeOK'
  <2>1. CASE Renew(l)
    BY <1>r, <2>1 DEF Renew, Row
  <2>2. CASE Terminate(l)
    BY <1>f, <2>2, TerminatedType DEF Terminate
  <2>3. CASE Expire(l)
    BY <1>r, <2>3 DEF Expire, Row
  <2>4. QED BY <1>3, <2>1, <2>2, <2>3 DEF PerLease
<1>4. ASSUME NEW c \in Captures, PerCapture(c) PROVE TypeOK'
  <2>r. leases' = Returned(c) => leases' \in [Ids -> Row]
    BY <1>f, TerminatedType DEF Returned
  <2>p. procs[c] \in Proc
    OBVIOUS
  <2>1. ASSUME NEW l \in Ids, CaptureUnder(c, l) PROVE TypeOK'
    <3>1. [pc |-> "awaited", lease |-> l, own |-> FALSE] \in Proc
      BY LeaseAssumption DEF Proc, Ids
    <3>2. QED BY <2>1, <3>1 DEF CaptureUnder
  <2>2. CASE EndCapture(c)
    BY <2>r, <2>2, FreeType DEF EndCapture
  <2>3. CASE TimeOut(c)
    <3>1. procs' \in [Captures -> Proc]
      BY <2>p, <2>3 DEF TimeOut, Proc
    <3>2. QED BY <2>r, <2>3, <3>1 DEF TimeOut
  <2>4. CASE ProcessEnds(c)
    BY <2>4, FreeType DEF ProcessEnds
  <2>5. QED BY <1>4, <2>1, <2>2, <2>3, <2>4 DEF PerCapture
<1>5. ASSUME NEW m \in Missions, MissionMoves(m) PROVE TypeOK'
  BY <1>5 DEF MissionMoves
<1>6. CASE Grant
  <2> DEFINE l == loop.lease
             granted == leases[l].state = "pending" /\ \A k \in Ids : ~Conflicts(l, k)
             row == IF granted THEN [leases[l] EXCEPT !.state = "active", !.expiry = "ahead"]
                               ELSE Ended(leases[l], "failed")
  <2>1. l \in 0 .. MaxLeases /\ leases' = [leases EXCEPT ![l] = row]
    BY <1>6 DEF Grant, Loop
  <2>2. leases' \in [Ids -> Row]
    <3>1. CASE l \in Ids
      <4>1. Ended(leases[l], "failed") \in Row
        BY <1>f, <3>1, RowTypes
      <4>2. [leases[l] EXCEPT !.state = "active", !.expiry = "ahead"] \in Row
        BY <1>r, <3>1 DEF Row, States
      <4>3. row \in Row
        BY <4>1, <4>2
      <4> HIDE DEF row, granted, l
      <4>4. QED BY <2>1, <3>1, <4>3
    <3>2. CASE l \notin Ids
      <4> HIDE DEF row, granted, l
      <4>1. QED BY <2>1, <3>2
    <3>3. QED BY <3>1, <3>2
  <2>3. procs' \in [Captures -> Proc]
    <3>1. [pc |-> "awaited", lease |-> l, own |-> TRUE] \in Proc
      BY <2>1 DEF Proc
    <3>2. QED BY <1>6, <3>1 DEF Grant
  <2>4. QED BY <1>6, <2>2, <2>3, FreeType DEF Grant
<1>7. CASE Reconcile
  <2>1. ASSUME NEW l \in Ids PROVE [leases[l] EXCEPT !.state = "orphaned"] \in Row
    BY <1>r DEF Row, States
  <2>2. leases' \in [Ids -> Row]
    BY <1>7, <2>1 DEF Reconcile
  <2>3. QED BY <1>7, <2>2, FreeType DEF Reconcile
<1>8. CASE ExpireOrphans
  <2>1. ASSUME NEW l \in Ids PROVE Ended(leases[l], "expired") \in Row
    BY <1>r, <1>f, RowTypes
  <2>2. leases' \in [Ids -> Row]
    BY <1>8, <2>1 DEF ExpireOrphans
  <2>3. QED BY <1>8, <2>2, FreeType DEF ExpireOrphans
<1>9. CASE ReleaseOne
  BY <1>9, <1>f, TerminatedType, FreeType DEF ReleaseOne
<1>10. CASE Crash
  <2>1. ASSUME NEW c \in Captures PROVE [procs[c] EXCEPT !.pc = "abandoned"] \in Proc
    BY DEF Proc
  <2>2. procs' \in [Captures -> Proc]
    BY <1>10, <2>1 DEF Crash
  <2>3. QED BY <1>10, <2>2, FreeType DEF Crash
<1>11. CASE Start
  <2>1. ASSUME NEW l \in Ids PROVE Recovered(leases[l]) \in Row
    BY <1>r, <1>f, RowTypes
  <2>2. leases' \in [Ids -> Row]
    BY <1>11, <2>1 DEF Start
  <2>3. QED BY <1>11, <2>2 DEF Start
<1>12. QED
  BY <1>1, <1>2, <1>3, <1>4, <1>5, <1>6, <1>7, <1>8, <1>9, <1>10, <1>11 DEF Next

-------------------------------------------------------------------------------
(* No two leases conflict.                                                 *)

\* What a step may do to the leases that hold a device: keep them, or grant one
\* that conflicts with none (SDRDeviceLeaseRepository.grant).
Keeps(l) ==
  leases'[l].state \in Holding =>
    /\ leases[l].state \in Holding
    /\ leases'[l].device = leases[l].device /\ leases'[l].mode = leases[l].mode
Grants(l) ==
  /\ leases'[l].device = leases[l].device /\ leases'[l].mode = leases[l].mode
  /\ \A k \in Ids : ~Conflicts(l, k) /\ (k # l => leases'[k] = leases[k])

\* A table of leases after a termination holds no more devices than before.
LEMMA TerminatedKeeps ==
  ASSUME TypeOK, NEW l, NEW s \in Final, leases' = Terminated(l, s)
  PROVE  \A k \in Ids : Keeps(k)
<1>1. ASSUME NEW k \in Ids PROVE Ended(leases[k], s).state \notin Holding
  BY DEF TypeOK, Ended, Final, Holding, Row
<1>2. QED BY <1>1, TerminatedType DEF TypeOK, Keeps

\* Every step keeps the leases that hold a device, or grants one.
LEMMA StepHolds ==
  ASSUME TypeOK, [Next]_vars
  PROVE  (\A l \in Ids : Keeps(l)) \/ (\E l \in Ids : Grants(l))
<1>f. {"released", "expired", "revoked", "failed"} \subseteq Final
  BY DEF Final
<1>r. \A l \in Ids : leases[l] \in Row
  BY DEF TypeOK
<1>s. leases' = leases => \A l \in Ids : Keeps(l)
  BY DEF Keeps
<1>1. CASE UNCHANGED vars
  BY <1>1, <1>s DEF vars
<1>2. ASSUME NEW d \in Devices, PerDevice(d) PROVE \A l \in Ids : Keeps(l)
  <2>1. ASSUME NEW mode \in Modes, NEW mission \in Missions \cup {None},
               NEW c \in Captures \cup {None}, Request(d, mode, mission, c)
        PROVE  \A l \in Ids : Keeps(l)
    BY <2>1 DEF Request, Keeps, Holding, TypeOK
  <2>2. CASE DeviceMissing(d)
    BY <1>r, <2>2 DEF DeviceMissing, Keeps, Orphaned, Row
  <2>3. CASE DeviceFound(d) \/ SetEnabled(d)
    BY <1>s, <2>3 DEF DeviceFound, SetEnabled
  <2>4. QED BY <1>2, <2>1, <2>2, <2>3 DEF PerDevice
<1>3. ASSUME NEW l \in Ids, PerLease(l) PROVE \A k \in Ids : Keeps(k)
  <2>1. CASE Renew(l) \/ Expire(l)
    BY <1>r, <2>1 DEF Renew, Expire, Keeps, TypeOK, Row
  <2>2. CASE Terminate(l)
    BY <1>f, <2>2, TerminatedKeeps DEF Terminate
  <2>3. QED BY <1>3, <2>1, <2>2 DEF PerLease
<1>4. ASSUME NEW c \in Captures, PerCapture(c) PROVE \A l \in Ids : Keeps(l)
  <2>1. leases' = leases \/ leases' = Terminated(procs[c].lease, "released")
    BY <1>4 DEF PerCapture, CaptureUnder, EndCapture, TimeOut, ProcessEnds, Returned
  <2>2. QED BY <1>f, <1>s, <2>1, TerminatedKeeps
<1>5. ASSUME NEW m \in Missions, MissionMoves(m) PROVE \A l \in Ids : Keeps(l)
  BY <1>5, <1>s DEF MissionMoves
<1>6. CASE Grant
  <2> DEFINE l == loop.lease
             granted == leases[l].state = "pending" /\ \A k \in Ids : ~Conflicts(l, k)
  <2>1. CASE l \notin Ids
    <3>1. leases' = leases
      BY <1>6, <2>1 DEF Grant, TypeOK
    <3>2. QED BY <1>s, <3>1
  <2>2. CASE l \in Ids /\ granted
    <3>1. /\ leases'[l] = [leases[l] EXCEPT !.state = "active", !.expiry = "ahead"]
          /\ \A k \in Ids : k # l => leases'[k] = leases[k]
      BY <1>6, <2>2 DEF Grant, TypeOK
    <3>2. leases'[l].device = leases[l].device /\ leases'[l].mode = leases[l].mode
      BY <1>r, <2>2, <3>1 DEF Row
    <3>3. Grants(l)
      BY <2>2, <3>1, <3>2 DEF Grants
    <3>4. QED BY <2>2, <3>3
  <2>3. CASE l \in Ids /\ ~granted
    <3>1. /\ leases'[l] = Ended(leases[l], "failed")
          /\ \A k \in Ids : k # l => leases'[k] = leases[k]
      BY <1>6, <2>3 DEF Grant, TypeOK
    <3>2. leases'[l].state \notin Holding
      BY <1>r, <2>3, <3>1 DEF Ended, Row, Holding
    <3>3. QED BY <3>1, <3>2 DEF Keeps
  <2>4. QED BY <2>1, <2>2, <2>3
<1>7. CASE Reconcile
  BY <1>r, <1>7 DEF Reconcile, Keeps, Row, Holding
<1>8. CASE ExpireOrphans
  <2>1. ASSUME NEW l \in Ids PROVE Ended(leases[l], "expired").state \notin Holding
    BY <1>r DEF Ended, Row, Holding
  <2>2. QED BY <1>8, <2>1 DEF ExpireOrphans, Keeps
<1>9. CASE ReleaseOne
  BY <1>9, <1>f, <1>s, TerminatedKeeps DEF ReleaseOne
<1>10. CASE Crash
  BY <1>10, <1>s DEF Crash
<1>11. CASE Start
  BY <1>r, <1>11 DEF Start, Recovered, Orphaned, Keeps, Row, Holding
<1>12. QED
  BY <1>1, <1>2, <1>3, <1>4, <1>5, <1>6, <1>7, <1>8, <1>9, <1>10, <1>11 DEF Next

\* Every step keeps leases from conflicting.
LEMMA NoConflictStep == TypeOK /\ NoConflict /\ [Next]_vars => NoConflict'
<1> SUFFICES ASSUME TypeOK, NoConflict, [Next]_vars PROVE NoConflict'
  OBVIOUS
<1>1. CASE \A l \in Ids : Keeps(l)
  BY <1>1 DEF NoConflict, Keeps
<1>2. ASSUME NEW g \in Ids, Grants(g) PROVE NoConflict'
  <2>m. \A l \in Ids : leases[l].mode \in {"exclusive", "shared_receive"}
    BY DEF TypeOK, Row, Modes
  <2> SUFFICES ASSUME NEW l \in Ids, NEW k \in Ids, l # k,
                      leases'[l].device = leases'[k].device,
                      leases'[l].state \in Holding, leases'[k].state \in Holding
               PROVE  leases'[l].mode = "shared_receive" /\ leases'[k].mode = "shared_receive"
    BY DEF NoConflict
  <2>1. CASE l = g
    BY <1>2, <2>1, <2>m DEF Grants, Conflicts
  <2>2. CASE k = g
    BY <1>2, <2>2, <2>m DEF Grants, Conflicts
  <2>3. CASE l # g /\ k # g
    BY <1>2, <2>3 DEF Grants, NoConflict
  <2>4. QED BY <2>1, <2>2, <2>3
<1>3. QED BY <1>1, <1>2, StepHolds

-------------------------------------------------------------------------------
(* Theorems.                                                               *)

\* The table starts empty (create_all).
LEMMA InitInv == Init => TypeOK /\ NoConflict
<1> SUFFICES ASSUME Init PROVE TypeOK /\ NoConflict
  OBVIOUS
<1>1. TypeOK
  BY LeaseAssumption, FreeType DEF Init, TypeOK, Row, States, Modes
<1>2. NoConflict
  BY DEF Init, NoConflict, Holding
<1>3. QED BY <1>1, <1>2

\* Every reachable state is well typed.
THEOREM TypeCorrect == Spec => []TypeOK
<1>1. QED BY InitInv, TypeStep, PTL DEF Spec

\* No two conflicting leases hold a device, through grants, renewals, orphans,
\* reconciliations, crashes and restarts (LeaseService, grant).
THEOREM NoConflictHolds == Spec => []NoConflict
<1>1. QED BY InitInv, TypeStep, NoConflictStep, PTL DEF Spec
===============================================================================
