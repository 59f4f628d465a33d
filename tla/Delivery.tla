----------------------------- MODULE Delivery -----------------------------
(***************************************************************************)
(* What the receiving side promises for chunked messages: the application  *)
(* gets a message whole and once, or never, and never after the sender has *)
(* been told to stop.                                                      *)
(***************************************************************************)
EXTENDS Sequences

CONSTANTS
  Messages,
  Body   \* the body of each message

VARIABLES
  inbox,   \* the bodies the application got as each message
  refused  \* messages whose sender was told STOP_SENDING

Init == inbox = [m \in Messages |-> <<>>] /\ refused = {}

Deliver(m) ==
  /\ inbox[m] = <<>> /\ m \notin refused
  /\ inbox' = [inbox EXCEPT ![m] = <<Body[m]>>]
  /\ UNCHANGED refused

Refuse(m) ==
  /\ inbox[m] = <<>>
  /\ refused' = refused \cup {m}
  /\ UNCHANGED inbox

Next == \E m \in Messages : Deliver(m) \/ Refuse(m)

Spec == Init /\ [][Next]_<<inbox, refused>>
=============================================================================
