---------------------------- MODULE MessageService ----------------------------
(***************************************************************************)
(* What the agent transport promises the rest of two nodes: a message is   *)
(* handed to the receiving application at most once, an acknowledged one   *)
(* has been stored by the receiver, and acknowledgement and cancellation   *)
(* are final.  Nothing is promised about a message that was given up: it   *)
(* may have arrived, and may still arrive.                                 *)
(***************************************************************************)
EXTENDS Naturals

CONSTANT Messages

VARIABLES
  fate,    \* the sender's record: what became of each message
  stored,  \* messages in the receiver's inbox
  handed   \* how often each was handed to the receiving application

Init ==
  /\ fate = [m \in Messages |-> "unsent"]
  /\ stored = {}
  /\ handed = [m \in Messages |-> 0]

\* The sender's record of m moves from one of `from' to `to'.
Moves(m, from, to) ==
  /\ fate[m] \in from
  /\ fate' = [fate EXCEPT ![m] = to]
  /\ UNCHANGED <<stored, handed>>

Send(m)    == Moves(m, {"unsent"}, "open")
GiveUp(m)  == Moves(m, {"open"}, "given_up")
Reopen(m)  == Moves(m, {"given_up"}, "open")
Cancel(m)  == Moves(m, {"open", "given_up"}, "cancelled")
Confirm(m) == m \in stored /\ Moves(m, {"open"}, "acknowledged")

Store(m) ==
  /\ fate[m] # "unsent" /\ m \notin stored
  /\ stored' = stored \cup {m}
  /\ UNCHANGED <<fate, handed>>

Hand(m) ==
  /\ m \in stored /\ handed[m] = 0
  /\ handed' = [handed EXCEPT ![m] = 1]
  /\ UNCHANGED <<fate, stored>>

Next == \E m \in Messages :
  Send(m) \/ GiveUp(m) \/ Reopen(m) \/ Cancel(m) \/ Confirm(m) \/ Store(m) \/ Hand(m)

Spec == Init /\ [][Next]_<<fate, stored, handed>>
===============================================================================
