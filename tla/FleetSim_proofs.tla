---------------------------- MODULE FleetSim_proofs ----------------------------
(***************************************************************************)
(* Proofs about FleetSim for any cars, hazards, road and distances: its    *)
(* types, that every warning goes back to a sighting, and that the edges   *)
(* of the warning graph agree with what the cars saw and heard.            *)
(***************************************************************************)
EXTENDS FleetSim, FiniteSetTheorems, SequenceTheorems, WellFoundedInduction, TLAPS

-------------------------------------------------------------------------------
(* Numbers and paths.                                                      *)

\* A set of natural numbers that is not empty has a least member.
LEMMA Least ==
  ASSUME NEW T \in SUBSET Nat, T # {}
  PROVE  \E x \in T : \A y \in T : x <= y
<1> DEFINE R == {ss \in Nat \X Nat : ss[1] < ss[2]}
<1>1. IsWellFoundedOn(R, Nat)
  BY NatLessThanWellFounded DEF OpToRel
<1>2. \A x, y \in Nat : <<y, x>> \notin R => x <= y
  OBVIOUS
<1> HIDE DEF R
<1>3. PICK x \in T : \A y \in T : <<y, x>> \notin R
  BY <1>1, WFMin, Zenon
<1>4. QED BY <1>2, <1>3

\* The nearest of the stop lines and the end of the road is one of them (Cap).
LEMMA LowestIs ==
  ASSUME NEW T \in SUBSET Nat, T # {}
  PROVE  Lowest(T) \in T /\ \A y \in T : Lowest(T) <= y
BY Least DEF Lowest

\* The last of some hazards in the scenario's order is one of them (Braking).
LEMMA LastIs ==
  ASSUME NEW S \in SUBSET Hazards, S # {}
  PROVE  Last(S) \in S
<1> DEFINE T == {n \in Nat : n <= NumHazards /\ NumHazards - n \in S}
<1>1. PICK h \in S : TRUE
  OBVIOUS
<1>a. \A g \in S : NumHazards - g \in Nat /\ NumHazards - g <= NumHazards
                  /\ NumHazards - (NumHazards - g) = g
  BY FleetAssumption DEF Hazards
<1>2. NumHazards - h \in T
  BY <1>a
<1>3. PICK x \in T : \A y \in T : x <= y
  <2> HIDE DEF T
  <2>1. T \in SUBSET Nat
    BY DEF T
  <2>2. QED BY <1>2, <2>1, Least
<1>4. ASSUME NEW g \in S PROVE g <= NumHazards - x
  <2>1. NumHazards - g \in T
    BY <1>a
  <2>2. g \in Int /\ NumHazards \in Int
    BY FleetAssumption DEF Hazards
  <2>3. x \in Int
    BY <1>3
  <2> HIDE DEF T
  <2>4. x <= NumHazards - g
    BY <1>3, <2>1
  <2>5. QED BY <2>2, <2>3, <2>4
<1>5. NumHazards - x \in S
  BY <1>3
<1> HIDE DEF T
<1>6. QED BY <1>4, <1>5 DEF Last

\* A path leads from a source to the car over two or more cars (_bfs_path).
LEMMA PathFacts ==
  ASSUME NEW S \in SUBSET Cars, NEW c, NEW p \in BfsPaths(S, c)
  PROVE  /\ Len(p) \in Nat /\ Len(p) >= 2 /\ p \in [1 .. Len(p) -> Cars]
         /\ p[1] \in S /\ p[Len(p)] = c
<1>1. Cardinality(Cars) \in Nat
  BY FleetAssumption, FS_CardinalityType
<1>2. PICK n \in 2 .. Cardinality(Cars) : p \in [1 .. n -> Cars]
  BY DEF BfsPaths, Paths
<1>3. n \in Nat /\ n >= 2
  BY <1>1, <1>2
<1>4. p \in Seq(Cars)
  BY <1>2, <1>3, SeqDef
<1>5. Len(p) \in Nat /\ p \in [1 .. Len(p) -> Cars] /\ DOMAIN p = 1 .. Len(p)
  BY <1>4, LenProperties
<1>6. DOMAIN p = 1 .. n
  BY <1>2
<1>7. Len(p) = n
  <2>1. Len(p) = 0 => FALSE
    BY <1>3, <1>5, <1>6
  <2>2. Len(p) \in 1 .. n /\ n \in 1 .. Len(p)
    BY <1>3, <1>5, <1>6, <2>1
  <2>3. \A m, k \in Nat : m \in 1 .. k /\ k \in 1 .. m => m = k
    OBVIOUS
  <2>4. QED BY <1>3, <1>5, <2>2, <2>3, Zenon
<1>8. QED BY <1>3, <1>5, <1>7 DEF BfsPaths, Paths

\* Hops and relays are made of cars.
LEMMA EdgeTypes ==
  ASSUME NEW S \in SUBSET Cars, NEW c, NEW h, NEW p \in BfsPaths(S, c)
  PROVE  Hops(p, h) \subseteq Cars \X Cars \X {h} /\ Relays(p, h) \subseteq Cars \X Cars \X Cars \X {h}
<1>0. Len(p) \in Nat /\ Len(p) >= 2 /\ p \in [1 .. Len(p) -> Cars]
  BY PathFacts
<1>1. Len(p) \in Nat /\ p \in [1 .. Len(p) -> Cars] /\ 1 \in 1 .. Len(p) /\ Len(p) \in 1 .. Len(p)
  BY <1>0
<1>2. \A i \in 1 .. Len(p) - 1 : p[i] \in Cars /\ p[i + 1] \in Cars
  BY <1>1
<1>3. \A i \in 2 .. Len(p) - 1 : p[i] \in Cars /\ p[1] \in Cars /\ p[Len(p)] \in Cars
  BY <1>1
<1>4. QED BY <1>2, <1>3 DEF Hops, Relays

-------------------------------------------------------------------------------
(* Types.                                                                  *)

\* A target is on the road (Braking).
LEMMA StopBeforeType ==
  ASSUME TypeOK, NEW c \in Cars, NEW h \in Hazards
  PROVE  StopBefore(c, h) \in 0 .. Road
BY FleetAssumption DEF TypeOK, StopBefore

\* A vehicle ends its tick on the road (_advance_vehicles).
LEMMA StaysOnRoad ==
  ASSUME TypeOK, NEW c \in Cars, NEW red \in SUBSET Lights, NEW d \in Nat
  PROVE  Lowest({travel[c] + d, Cap(c, red)}) \in 0 .. Road
<1>1. travel[c] \in 0 .. Road /\ target[c] \in 0 .. Road /\ Road \in Nat /\ Lights \subseteq Nat
  BY FleetAssumption DEF TypeOK
<1>2. Cap(c, red) \in 0 .. Road
  <2>1. CASE c \in PermStop
    <3>1. Cap(c, red) = Lowest({Road, target[c]})
      BY <2>1 DEF Cap
    <3>2. QED BY <1>1, <3>1, LowestIs
  <2>2. CASE c \notin PermStop
    <3> DEFINE T == {Road} \cup Holding(c, red)
    <3>1. T \in SUBSET Nat /\ T # {} /\ Road \in T
      BY <1>1 DEF Holding
    <3>2. Cap(c, red) = Lowest(T)
      BY <2>2 DEF Cap
    <3> HIDE DEF T
    <3>3. Lowest(T) \in T /\ Lowest(T) <= Road
      BY <3>1, LowestIs
    <3>4. Lowest(T) \in Nat
      BY <3>1, <3>3
    <3>5. QED BY <1>1, <3>2, <3>3, <3>4
  <2>3. QED BY <2>1, <2>2
<1>3. travel[c] + d \in Nat
  BY <1>1
<1> DEFINE x == Lowest({travel[c] + d, Cap(c, red)})
<1>4. x \in {travel[c] + d, Cap(c, red)} /\ x <= Cap(c, red)
  BY <1>2, <1>3, LowestIs
<1> HIDE DEF x
<1>5. x \in 0 .. Road
  BY <1>1, <1>2, <1>3, <1>4
<1>6. QED BY <1>5 DEF x

\* Every step keeps the types (all phases of SimEngine.run).
LEMMA TypeStep == TypeOK /\ [Next]_vars => TypeOK'
<1> SUFFICES ASSUME TypeOK, [Next]_vars PROVE TypeOK'
  OBVIOUS
<1>t. spawned \subseteq Hazards /\ observed \in [Cars -> SUBSET spawned] /\ aware \in [Cars -> SUBSET spawned]
      /\ radio \in [Cars -> SUBSET spawned] /\ braked \in [Cars -> SUBSET spawned]
      /\ heard \subseteq Cars \X Cars \X spawned /\ relayed \subseteq Cars \X Cars \X Cars \X spawned
      /\ adj \subseteq InRange /\ pending \subseteq Cars \X spawned
      /\ travel \in [Cars -> 0 .. Road] /\ target \in [Cars -> 0 .. Road] /\ at \in [Hazards -> 0 .. Road]
  BY DEF TypeOK
<1>1. CASE UNCHANGED vars
  BY <1>1 DEF TypeOK, vars, knowledge, motion
<1>2. ASSUME NEW h \in Hazards, Spawn(h) PROVE TypeOK'
  BY <1>2 DEF TypeOK, Spawn, knowledge, motion
<1>3. ASSUME NEW seen \in Sightings, NEW links \in SUBSET InRange, Sense(seen, links)
      PROVE  TypeOK'
  <2>1. observed' \in [Cars -> SUBSET spawned] /\ aware' \in [Cars -> SUBSET spawned]
    BY <1>3, <1>t DEF Sense, Sightings
  <2>2. pending' \subseteq Cars \X spawned
    BY <1>3 DEF Sense, Relevant
  <2>3. QED BY <1>3, <1>t, <2>1, <2>2 DEF Sense, TypeOK, motion
<1>4. ASSUME NEW w \in pending, NEW p \in BfsPaths(Observers(w[2]), w[1]), Warn(w[1], w[2], p)
      PROVE  TypeOK'
  <2>1. w[1] \in Cars /\ w[2] \in spawned
    BY <1>t
  <2>2. Hops(p, w[2]) \subseteq Cars \X Cars \X spawned
        /\ Relays(p, w[2]) \subseteq Cars \X Cars \X Cars \X spawned
    <3>1. Observers(w[2]) \subseteq Cars
      BY DEF Observers
    <3>2. QED BY <2>1, <3>1, EdgeTypes
  <2>3. aware' \in [Cars -> SUBSET spawned] /\ radio' \in [Cars -> SUBSET spawned]
    BY <1>4, <1>t, <2>1 DEF Warn
  <2>4. heard' \subseteq Cars \X Cars \X spawned /\ relayed' \subseteq Cars \X Cars \X Cars \X spawned
        /\ pending' \subseteq Cars \X spawned
    BY <1>4, <1>t, <2>2 DEF Warn
  <2>5. QED BY <1>4, <1>t, <2>3, <2>4 DEF Warn, TypeOK, motion
<1>5. CASE Unwarned
  BY <1>5 DEF TypeOK, Unwarned, knowledge, motion
<1>6. CASE Braking
  <2>1. ASSUME NEW c \in Cars PROVE NewHazards(c) \in SUBSET spawned
    BY DEF NewHazards, Concern
  <2>2. ASSUME NEW c \in Cars, NewHazards(c) # {}
        PROVE  StopBefore(c, Last(NewHazards(c))) \in 0 .. Road
    BY <1>t, <2>1, <2>2, LastIs, StopBeforeType
  <2>3. braked' \in [Cars -> SUBSET spawned] /\ target' \in [Cars -> 0 .. Road]
    BY <1>6, <1>t, <2>1, <2>2 DEF Braking
  <2>4. QED BY <1>6, <1>t, <2>3 DEF Braking, TypeOK, knowledge
<1>7. ASSUME NEW red \in SUBSET Lights, NEW step \in Steps, NEW to \in Moves, Advance(red, step, to)
      PROVE  TypeOK'
  <2>1. step \in [Cars -> Nat] /\ to \in [Hazards -> 0 .. Road]
    BY FleetAssumption DEF Steps, Moves
  <2>2. ASSUME NEW c \in Cars PROVE Lowest({travel[c] + step[c], Cap(c, red)}) \in 0 .. Road
    BY <2>1, StaysOnRoad
  <2>3. travel' \in [Cars -> 0 .. Road]
    BY <1>7, <1>t, <2>2 DEF Advance
  <2>4. QED BY <1>7, <1>t, <2>1, <2>3 DEF Advance, TypeOK, knowledge
<1>8. QED BY <1>1, <1>2, <1>3, <1>4, <1>5, <1>6, <1>7 DEF Next

\* FleetSim has its types.
THEOREM TypeCorrect == Spec => []TypeOK
<1>1. Init => TypeOK
  BY FleetAssumption DEF Init, TypeOK
<1>2. QED BY <1>1, TypeStep, PTL DEF Spec

-------------------------------------------------------------------------------
(* Warnings.                                                               *)

\* A set that holds the source of a path and, with a sender of a hop, its receiver,
\* holds the car at the end.
LEMMA PathStays ==
  ASSUME NEW Q \in SUBSET Cars, NEW c, NEW h, NEW p \in BfsPaths(Q, c), NEW S,
         Q \subseteq S, \A k \in Hops(p, h) : k[1] \in S => k[2] \in S
  PROVE  c \in S
<1> DEFINE T == {i \in Nat : i \in 1 .. Len(p) /\ p[i] \notin S}
<1>1. Len(p) \in Nat /\ Len(p) >= 2 /\ p[1] \in S /\ p[Len(p)] = c
  BY PathFacts
<1>2. CASE T = {}
  <2>1. Len(p) \in 1 .. Len(p)
    BY <1>1
  <2>2. QED BY <1>1, <1>2, <2>1
<1>3. CASE T # {}
  <2>1. PICK i \in T : \A j \in T : i <= j
    <3> HIDE DEF T
    <3>1. T \in SUBSET Nat
      BY DEF T
    <3>2. QED BY <1>3, <3>1, Least
  <2>2. i \in 1 .. Len(p) /\ p[i] \notin S /\ i # 1
    BY <1>1, <2>1
  <2>3. i - 1 \in 1 .. Len(p) - 1 /\ i - 1 \in Nat /\ i - 1 \in 1 .. Len(p) /\ (i - 1) + 1 = i /\ ~ (i <= i - 1)
    BY <1>1, <2>2
  <2>4. i - 1 \notin T
    BY <2>1, <2>3
  <2>5. p[i - 1] \in S
    BY <2>3, <2>4
  <2>6. <<p[i - 1], p[i], h>> \in Hops(p, h)
    BY <2>3 DEF Hops
  <2>7. QED BY <2>2, <2>5, <2>6
<1>4. QED BY <1>2, <1>3

\* Every step keeps the traces (phases 1 and 3 of run).
LEMMA TraceStep == TypeOK /\ WarningsTrace /\ [Next]_vars => WarningsTrace'
<1> SUFFICES ASSUME TypeOK, WarningsTrace, [Next]_vars, NEW h \in Hazards, NEW S \in SUBSET Cars,
                    Observers(h)' \subseteq S, \A k \in heard' : k[3] = h /\ k[1] \in S => k[2] \in S,
                    NEW c \in Cars, h \in radio'[c]
             PROVE  c \in S
  BY DEF WarningsTrace
<1>1. ASSUME heard \subseteq heard', Observers(h) \subseteq Observers(h)', h \in radio[c] PROVE c \in S
  BY <1>1 DEF WarningsTrace
<1>2. CASE UNCHANGED <<heard, observed, radio>>
  BY <1>1, <1>2 DEF Observers
<1>3. ASSUME NEW seen \in Sightings, NEW links \in SUBSET InRange, Sense(seen, links)
      PROVE  c \in S
  BY <1>1, <1>3 DEF Sense, Sightings, Observers, TypeOK
<1>4. ASSUME NEW w \in pending, NEW p \in BfsPaths(Observers(w[2]), w[1]), Warn(w[1], w[2], p)
      PROVE  c \in S
  <2>1. heard' = heard \cup Hops(p, w[2]) /\ observed' = observed
        /\ radio' = [radio EXCEPT ![w[1]] = @ \cup {w[2]}]
    BY <1>4 DEF Warn
  <2>2. CASE h \in radio[c]
    BY <1>1, <2>1, <2>2 DEF Observers
  <2>3. CASE h \notin radio[c]
    <3>1. c = w[1] /\ h = w[2]
      BY <2>1, <2>3 DEF TypeOK
    <3>2. Observers(h) \subseteq S /\ Observers(h) \in SUBSET Cars
      BY <2>1 DEF Observers
    <3>3. \A k \in Hops(p, h) : k[3] = h
      BY DEF Hops
    <3>4. QED BY <1>4, <2>1, <3>1, <3>2, <3>3, PathStays
  <2>4. QED BY <2>2, <2>3
<1>5. QED BY <1>2, <1>3, <1>4 DEF Next, Spawn, Unwarned, Braking, Advance, vars, knowledge, motion

\* Every warning goes back to a sighting of the hazard.
THEOREM WarningsTraceHolds == Spec => []WarningsTrace
<1>1. Init => TypeOK /\ WarningsTrace
  BY FleetAssumption DEF Init, TypeOK, WarningsTrace
<1>2. QED BY <1>1, TypeStep, TraceStep, PTL DEF Spec

\* The hops of a path: each sender is the source or a receiver, and a relay is both.
LEMMA PathEdges ==
  ASSUME NEW Q \in SUBSET Cars, NEW c, NEW h, NEW p \in BfsPaths(Q, c)
  PROVE  /\ \A k \in Hops(p, h) : k[3] = h /\ (k[1] \in Q \/ \E j \in Hops(p, h) : j[2] = k[1] /\ j[3] = h)
         /\ \A r \in Relays(p, h) : /\ r[2] \in Q /\ r[3] = c /\ r[4] = h
                                    /\ \E j \in Hops(p, h) : j[2] = r[1] /\ j[3] = h
                                    /\ \E k \in Hops(p, h) : k[1] = r[1] /\ k[3] = h
<1>1. Len(p) \in Nat /\ Len(p) >= 2 /\ p[1] \in Q /\ p[Len(p)] = c
  BY PathFacts
<1>2. ASSUME NEW i \in 2 .. Len(p) - 1
      PROVE  \E j \in Hops(p, h) : j[2] = p[i] /\ j[3] = h
  <2>1. i - 1 \in 1 .. Len(p) - 1 /\ (i - 1) + 1 = i
    BY <1>1
  <2>2. <<p[i - 1], p[i], h>> \in Hops(p, h)
    BY <2>1 DEF Hops
  <2>3. QED BY <2>2
<1>3. ASSUME NEW k \in Hops(p, h)
      PROVE  k[3] = h /\ (k[1] \in Q \/ \E j \in Hops(p, h) : j[2] = k[1] /\ j[3] = h)
  <2>1. PICK i \in 1 .. Len(p) - 1 : k = <<p[i], p[i + 1], h>>
    BY DEF Hops
  <2>2. CASE i = 1
    BY <1>1, <2>1, <2>2
  <2>3. CASE i # 1
    <3>1. i \in 2 .. Len(p) - 1
      BY <1>1, <2>1, <2>3
    <3>2. QED BY <1>2, <2>1, <3>1
  <2>4. QED BY <2>2, <2>3
<1>4. ASSUME NEW r \in Relays(p, h)
      PROVE  /\ r[2] \in Q /\ r[3] = c /\ r[4] = h
             /\ \E j \in Hops(p, h) : j[2] = r[1] /\ j[3] = h
             /\ \E k \in Hops(p, h) : k[1] = r[1] /\ k[3] = h
  <2>1. PICK i \in 2 .. Len(p) - 1 : r = <<p[i], p[1], p[Len(p)], h>>
    BY DEF Relays
  <2>2. <<p[i], p[i + 1], h>> \in Hops(p, h)
    <3>1. i \in 1 .. Len(p) - 1
      BY <1>1, <2>1
    <3>2. QED BY <3>1 DEF Hops
  <2>3. QED BY <1>1, <1>2, <2>1, <2>2
<1>5. QED BY <1>3, <1>4

\* Every step keeps the edges in agreement (the propagation chain of run).
LEMMA EdgesStep == TypeOK /\ EdgesAgree /\ [Next]_vars => EdgesAgree'
<1> SUFFICES ASSUME TypeOK, EdgesAgree, [Next]_vars PROVE EdgesAgree'
  OBVIOUS
<1>1. CASE UNCHANGED knowledge
  BY <1>1 DEF EdgesAgree, knowledge
<1>2. ASSUME NEW seen \in Sightings, NEW links \in SUBSET InRange, Sense(seen, links)
      PROVE  EdgesAgree'
  <2>1. \A c \in Cars : observed'[c] = observed[c] \cup seen[c] /\ aware'[c] = aware[c] \cup seen[c]
    BY <1>2 DEF Sense
  <2>2. heard' = heard /\ relayed' = relayed /\ radio' = radio
    BY <1>2 DEF Sense
  <2>3. (\A k \in heard : k[1] \in Cars) /\ (\A r \in relayed : r[2] \in Cars)
    BY DEF TypeOK
  <2>4. QED BY <2>1, <2>2, <2>3 DEF EdgesAgree
<1>3. ASSUME NEW w \in pending, NEW p \in BfsPaths(Observers(w[2]), w[1]), Warn(w[1], w[2], p)
      PROVE  EdgesAgree'
  <2> DEFINE c == w[1]
             h == w[2]
  <2>1. /\ heard' = heard \cup Hops(p, h) /\ relayed' = relayed \cup Relays(p, h) /\ observed' = observed
        /\ radio' = [radio EXCEPT ![c] = @ \cup {h}] /\ aware' = [aware EXCEPT ![c] = @ \cup {h}]
    BY <1>3 DEF Warn
  <2>2. c \in Cars /\ Observers(h) \in SUBSET Cars /\ p \in BfsPaths(Observers(h), c)
    BY DEF TypeOK, Observers
  <2>3. \A x \in Cars : radio[x] \subseteq radio'[x] /\ aware'[x] \subseteq aware[x] \cup radio'[x]
    BY <2>1, <2>2 DEF TypeOK
  <2>4. h \in radio'[c] /\ \A x \in Observers(h) : h \in observed'[x]
    BY <2>1, <2>2 DEF TypeOK, Observers
  <2>5. \A r \in relayed : r[3] \in Cars
    BY DEF TypeOK
  <2> HIDE DEF c, h
  <2>6. \A k \in heard' : k[3] \in observed'[k[1]] \/ \E j \in heard' : j[2] = k[1] /\ j[3] = k[3]
    <3>1. ASSUME NEW k \in heard
          PROVE  k[3] \in observed'[k[1]] \/ \E j \in heard' : j[2] = k[1] /\ j[3] = k[3]
      BY <2>1 DEF EdgesAgree
    <3>2. ASSUME NEW k \in Hops(p, h)
          PROVE  k[3] \in observed'[k[1]] \/ \E j \in heard' : j[2] = k[1] /\ j[3] = k[3]
      BY <2>1, <2>2, <2>4, PathEdges
    <3>3. QED BY <2>1, <3>1, <3>2
  <2>7. ASSUME NEW r \in relayed'
        PROVE  /\ r[4] \in observed'[r[2]] /\ r[4] \in radio'[r[3]]
               /\ \E j \in heard' : j[2] = r[1] /\ j[3] = r[4]
               /\ \E k \in heard' : k[1] = r[1] /\ k[3] = r[4]
    <3>1. CASE r \in relayed
      BY <2>1, <2>3, <2>5, <3>1 DEF EdgesAgree
    <3>2. CASE r \in Relays(p, h)
      BY <2>1, <2>2, <2>4, <3>2, PathEdges
    <3>3. QED BY <2>1, <3>1, <3>2
  <2>8. \A x \in Cars : aware'[x] \subseteq observed'[x] \cup radio'[x]
    BY <2>1, <2>3 DEF EdgesAgree
  <2>9. QED BY <2>6, <2>7, <2>8 DEF EdgesAgree
<1>4. QED BY <1>1, <1>2, <1>3 DEF Next, Spawn, Unwarned, Braking, Advance, vars

\* The edges of the warning graph agree with what the cars saw and heard.
THEOREM EdgesAgreeHolds == Spec => []EdgesAgree
<1>1. Init => TypeOK /\ EdgesAgree
  BY FleetAssumption DEF Init, TypeOK, EdgesAgree
<1>2. QED BY <1>1, TypeStep, EdgesStep, PTL DEF Spec
================================================================================
