-------------------------------- MODULE FleetSim --------------------------------
(***************************************************************************)
(* One tick of the FleetGraph simulation (fleetgraph/engine.py): lidar,    *)
(* the links that deliver, the spread of warnings over them, braking, and  *)
(* the motion of the vehicles.                                             *)
(*                                                                         *)
(* Cars drive in one direction on one road, and a position is a number on  *)
(* it. What geometry, fog, jammers and the modem decide is left open: which*)
(* hazards in range a lidar sees, and which links deliver, is any subset.  *)
(* A hazard may move along the road, either way: a pedestrian on its path, *)
(* or a vehicle that is a hazard itself.                                   *)
(***************************************************************************)
EXTENDS Integers, Sequences, FiniteSets

CONSTANTS
  Cars,
  NumHazards, \* how many hazards the scenario has
  InRange,   \* directed links that may deliver at all
  Start,     \* where each car starts
  Place,     \* where each hazard appears
  Pace,      \* how far each hazard may move in a tick; 0 for one that stands
  Speed,     \* how far each car may go in a tick; 0 for one that is parked
  Road,      \* the end of the road
  Lights,    \* the stop lines of traffic lights
  Lidar,     \* lidar_range_m
  Horizon,   \* awareness_horizon_m
  Brake,     \* brake_reaction_m
  Gap,       \* the 6 m that a car keeps from a hazard it brakes for
  Slack      \* the 0.5 m by which a stop line may be behind a car that it holds

Hazards == 1 .. NumHazards   \* in the scenario's order

ASSUME FleetAssumption ==
  /\ IsFiniteSet(Cars) /\ NumHazards \in Nat
  /\ InRange \subseteq Cars \X Cars
  /\ Road \in Nat /\ Start \in [Cars -> 0 .. Road] /\ Place \in [Hazards -> 0 .. Road]
  /\ Speed \in [Cars -> Nat] /\ Pace \in [Hazards -> Nat] /\ Lights \subseteq 0 .. Road
  /\ Lidar \in Nat /\ Horizon \in Nat /\ Brake \in Nat /\ Gap \in Nat \ {0} /\ Slack \in Nat

VARIABLES
  phase,     \* the part of the tick that comes next
  spawned,   \* hazards that are on the road
  observed,  \* car -> hazards seen by its own lidar
  aware,     \* car -> hazards it knows
  radio,     \* car -> hazards it was warned of (aware_via_radio)
  heard,     \* heard_hops: <<sender, receiver, hazard>>
  relayed,   \* relayed_edges: <<relay, source, dest, hazard>>
  adj,       \* the links that deliver in this tick
  pending,   \* <<car, hazard>> still to be warned in this tick
  braked,    \* car -> hazards it brakes for
  travel,    \* veh_travel
  at,        \* where each hazard is
  target     \* stop_target; 0 for a car that has none

knowledge == <<observed, aware, radio, heard, relayed>>
motion    == <<braked, travel, at, target>>
vars == <<phase, spawned, knowledge, adj, pending, motion>>

-------------------------------------------------------------------------------
PermStop       == {c \in Cars : braked[c] # {}}
Ahead(c, h)    == at[h] >= travel[c]
Distance(c, h) == IF Ahead(c, h) THEN at[h] - travel[c] ELSE travel[c] - at[h]

\* Hazards in range of a car's lidar; those that others should warn it of; and
\* those that it brakes for when it knows of them.
InSight(c)  == {h \in spawned : Distance(c, h) <= Lidar}
RelevantEver(c) == {h \in Hazards : Distance(c, h) <= Horizon}  \* mutant of Relevant
Relevant(c) == {h \in spawned : Ahead(c, h) /\ Distance(c, h) <= Horizon}
Concern(c)  == {h \in spawned : Ahead(c, h) /\ Distance(c, h) <= Brake}

Init ==
  /\ phase = "sense" /\ spawned = {}
  /\ observed = [c \in Cars |-> {}] /\ aware = [c \in Cars |-> {}] /\ radio = [c \in Cars |-> {}]
  /\ heard = {} /\ relayed = {} /\ adj = {} /\ pending = {}
  /\ braked = [c \in Cars |-> {}] /\ travel = Start /\ at = Place
  /\ target = [c \in Cars |-> 0]

\* Hazards appear.
Spawn(h) ==
  /\ phase = "sense" /\ h \notin spawned /\ spawned' = spawned \cup {h}
  /\ UNCHANGED <<phase, knowledge, adj, pending, motion>>

\* Every lidar sees some of the hazards in range, and some links deliver.
Sightings == {seen \in [Cars -> SUBSET spawned] : \A c \in Cars : seen[c] \subseteq InSight(c)}
Sense(seen, links) ==
  /\ phase' = "warn"
  /\ observed' = [c \in Cars |-> observed[c] \cup seen[c]]
  /\ aware' = [c \in Cars |-> aware[c] \cup seen[c]]
  /\ adj' = links
  /\ pending' = {w \in Cars \X Hazards : w[2] \in Relevant(w[1]) /\ w[2] \notin aware'[w[1]]}
  /\ UNCHANGED <<spawned, radio, heard, relayed, motion>>

\* The shortest paths over delivering links from one of the sources to the car.
Observers(h) == {o \in Cars : h \in observed[o]}
Paths(S, c) ==
  {p \in UNION {[1 .. n -> Cars] : n \in 2 .. Cardinality(Cars)} :
     p[1] \in S /\ p[Len(p)] = c /\ \A i \in 1 .. Len(p) - 1 : <<p[i], p[i + 1]>> \in adj}
BfsPaths(S, c) == {p \in Paths(S, c) : \A q \in Paths(S, c) : Len(p) <= Len(q)}

HopsShort(p, h) == {<<p[i], p[i + 1], h>> : i \in 1 .. Len(p) - 2}  \* mutant of Hops
Hops(p, h) == {<<p[i], p[i + 1], h>> : i \in 1 .. Len(p) - 1}
RelaysToEnd(p, h) == {<<p[i], p[1], p[Len(p)], h>> : i \in 2 .. Len(p)}  \* mutant of Relays
Relays(p, h) == {<<p[i], p[1], p[Len(p)], h>> : i \in 2 .. Len(p) - 1}

\* One car and one hazard ahead that it does not know of: a path from an
\* observer warns it. The receivers in between are not made aware.
Warn(c, h, p) ==
  /\ phase = "warn" /\ <<c, h>> \in pending
  /\ p \in BfsPaths(Observers(h), c)
  /\ aware' = [aware EXCEPT ![c] = @ \cup {h}]
  /\ radio' = [radio EXCEPT ![c] = @ \cup {h}]
  /\ heard' = heard \cup Hops(p, h)
  /\ relayed' = relayed \cup Relays(p, h)
  /\ pending' = pending \ {<<c, h>>}
  /\ UNCHANGED <<phase, spawned, observed, adj, motion>>

\* The rest of them cannot be reached.
Unwarned ==
  /\ phase = "warn" /\ phase' = "brake"
  /\ \A w \in pending : BfsPaths(Observers(w[2]), w[1]) = {}
  /\ pending' = {} /\ adj' = {}
  /\ UNCHANGED <<spawned, knowledge, motion>>

\* A car commits to stop for every hazard of concern that it knows; the last of
\* them in the scenario's order decides where, by where it is then.
NewHazards(c) == (Concern(c) \cap aware[c]) \ braked[c]
Last(S) == CHOOSE h \in S : \A g \in S : g <= h
StopBefore(c, h) == IF at[h] - Gap > travel[c] THEN at[h] - Gap ELSE travel[c]
Braking ==
  /\ phase = "brake" /\ phase' = "advance"
  /\ braked' = [c \in Cars |-> braked[c] \cup NewHazards(c)]
  /\ target' = [c \in Cars |-> IF NewHazards(c) = {} THEN target[c]
                               ELSE StopBefore(c, Last(NewHazards(c)))]
  /\ UNCHANGED <<spawned, knowledge, adj, pending, travel, at>>

\* A car that brakes for a hazard goes up to its target, whatever the lights say;
\* another goes up to the nearest red light. A light that has just been passed by
\* no more than the slack pulls the car back to its line.  Hazards on the road move.
Lowest(S) == CHOOSE x \in S : \A y \in S : x <= y
Holding(c, red) == {l \in red : travel[c] <= l + Slack}
Cap(c, red) == IF c \in PermStop THEN Lowest({Road, target[c]}) ELSE Lowest({Road} \cup Holding(c, red))
Steps == {step \in [Cars -> UNION {0 .. Speed[c] : c \in Cars}] : \A c \in Cars : step[c] <= Speed[c]}
CanMoveTo(h) == IF h \in spawned THEN {x \in 0 .. Road : x - at[h] \in -Pace[h] .. Pace[h]} ELSE {at[h]}
Moves == {to \in [Hazards -> 0 .. Road] : \A h \in Hazards : to[h] \in CanMoveTo(h)}
Advance(red, step, to) ==
  /\ phase' = "sense" /\ at' = to
  /\ travel' = [c \in Cars |-> IF Speed[c] = 0 THEN travel[c]
                               ELSE Lowest({travel[c] + step[c], Cap(c, red)})]
  /\ UNCHANGED <<spawned, knowledge, adj, pending, braked, target>>

Next ==
  \/ \E h \in Hazards : Spawn(h)
  \/ phase = "sense" /\ \E seen \in Sightings, links \in SUBSET InRange : Sense(seen, links)
  \/ \E w \in pending : \E p \in BfsPaths(Observers(w[2]), w[1]) : Warn(w[1], w[2], p)
  \/ Unwarned
  \/ Braking
  \/ phase = "advance" /\ \E red \in SUBSET Lights, step \in Steps, to \in Moves : Advance(red, step, to)

Spec == Init /\ [][Next]_vars

-------------------------------------------------------------------------------
TypeOK ==
  /\ phase \in {"sense", "warn", "brake", "advance"} /\ spawned \subseteq Hazards
  /\ observed \in [Cars -> SUBSET spawned] /\ aware \in [Cars -> SUBSET spawned]
  /\ radio \in [Cars -> SUBSET spawned] /\ braked \in [Cars -> SUBSET spawned]
  /\ heard \subseteq Cars \X Cars \X spawned /\ relayed \subseteq Cars \X Cars \X Cars \X spawned
  /\ adj \subseteq InRange /\ pending \subseteq Cars \X spawned
  /\ travel \in [Cars -> 0 .. Road] /\ target \in [Cars -> 0 .. Road] /\ at \in [Hazards -> 0 .. Road]

\* Every warning goes back to a sighting: whatever set of cars holds the observers
\* of a hazard and, with a sender of a hop, its receiver, also holds every car that
\* was warned of it.
WarningsTrace ==
  \A h \in Hazards, S \in SUBSET Cars :
    Observers(h) \subseteq S /\ (\A k \in heard : k[3] = h /\ k[1] \in S => k[2] \in S)
      => {c \in Cars : h \in radio[c]} \subseteq S

\* The graph's edges agree: who sends a hop has seen the hazard or heard it from
\* another car, and a relay has heard it on the way from a car that saw it to one
\* that it made aware.
EdgesAgree ==
  /\ \A k \in heard : k[3] \in observed[k[1]] \/ \E j \in heard : j[2] = k[1] /\ j[3] = k[3]
  /\ \A r \in relayed : /\ r[4] \in observed[r[2]] /\ r[4] \in radio[r[3]]
                        /\ \E j \in heard : j[2] = r[1] /\ j[3] = r[4]
                        /\ \E k \in heard : k[1] = r[1] /\ k[3] = r[4]
  /\ \A c \in Cars : aware[c] \subseteq observed[c] \cup radio[c]

\* engine.py: "braked for a hazard (stays stopped)": a car never drives past a hazard
\* that it brakes for (and that does not come towards it).
StaysStopped ==
  [][\A c \in Cars, h \in Hazards :
       h \in braked[c] /\ travel[c] < at[h] /\ at[h] <= at'[h] => travel'[c] < at'[h]]_vars
================================================================================
