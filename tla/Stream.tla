------------------------------- MODULE Stream -------------------------------
(***************************************************************************)
(* What reading a socket promises: however TCP cuts the stream into reads, *)
(* each message that can be parsed is handled once, after it has arrived   *)
(* completely and after the messages before it.                            *)
(***************************************************************************)
EXTENDS Naturals

CONSTANTS
  Messages,  \* the messages of the stream, numbered in its order
  Parsable,  \* those that can be parsed
  End        \* the position in the stream at which each message ends

VARIABLES
  arrived,   \* how far the stream has arrived
  handled    \* how often each message has been handled

Init == arrived = 0 /\ handled = [m \in Messages |-> 0]

Arrive ==
  /\ arrived' \in Nat /\ arrived' > arrived
  /\ UNCHANGED handled

Handle(m) ==
  /\ m \in Parsable /\ End[m] <= arrived
  /\ handled[m] = 0
  /\ \A n \in Parsable : n < m => handled[n] = 1
  /\ handled' = [handled EXCEPT ![m] = 1]
  /\ UNCHANGED arrived

Next == Arrive \/ \E m \in Messages : Handle(m)

Spec == Init /\ [][Next]_<<arrived, handled>>
=============================================================================
