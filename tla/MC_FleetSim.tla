------------------------------ MODULE MC_FleetSim ------------------------------
(* A road for FleetSim: a car drives towards two hazards, one of which      *)
(* moves, past a relay and a parked car that sees them.                     *)
EXTENDS FleetSim
CONSTANTS ambulance, relay, parked

Chain  == {<<parked, relay>>, <<relay, ambulance>>, <<ambulance, relay>>, <<parked, ambulance>>}
Starts == [c \in Cars |-> CASE c = ambulance -> 0 [] c = relay -> 2 [] OTHER -> 3]
Places == [h \in Hazards |-> IF h = 1 THEN 3 ELSE 4]
Paces  == [h \in Hazards |-> IF h = 1 THEN 1 ELSE 0]
Speeds == [c \in Cars |-> IF c = ambulance THEN 2 ELSE 0]
===============================================================================
