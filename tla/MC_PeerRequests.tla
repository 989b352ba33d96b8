---------------------------- MODULE MC_PeerRequests ----------------------------
(* Model values for PeerRequests: two messages of one peer with an id of   *)
(* their own, of which the second wants an answer, and one of another peer *)
(* that takes the id of the second.                                        *)
EXTENDS PeerRequests

CONSTANTS a1, a2, b1, pa, pb, q1, q2

Senders == [m \in Messages |-> IF m = b1 THEN pb ELSE pa]
Ids     == [m \in Messages |-> IF m = a1 THEN q1 ELSE q2]
Asks    == [m \in Messages |-> m # a1]
===============================================================================
