------------------------------ MODULE Outcome ------------------------------
(***************************************************************************)
(* What delivery reports promise, from one end to the other: the sender of *)
(* a message hears of success only once the peer's application has got the *)
(* message, and of failure only if it never will.                          *)
(***************************************************************************)
CONSTANTS Messages

VARIABLES
  delivered,  \* messages the peer's application has got
  lost,       \* messages it will never get
  heard       \* what the sender's application heard of each message

Init == delivered = {} /\ lost = {} /\ heard = [m \in Messages |-> "nothing"]

Deliver(m) ==
  /\ m \notin delivered \cup lost
  /\ delivered' = delivered \cup {m}
  /\ UNCHANGED <<lost, heard>>

GiveUp(m) ==
  /\ m \notin delivered
  /\ lost' = lost \cup {m}
  /\ UNCHANGED <<delivered, heard>>

HearSuccess(m) ==
  /\ m \in delivered /\ heard[m] = "nothing"
  /\ heard' = [heard EXCEPT ![m] = "success"]
  /\ UNCHANGED <<delivered, lost>>

HearFailure(m) ==
  /\ m \in lost /\ heard[m] = "nothing"
  /\ heard' = [heard EXCEPT ![m] = "failure"]
  /\ UNCHANGED <<delivered, lost>>

Next ==
  \E m \in Messages :
    Deliver(m) \/ GiveUp(m) \/ HearSuccess(m) \/ HearFailure(m)

Spec == Init /\ [][Next]_<<delivered, lost, heard>>
=============================================================================
