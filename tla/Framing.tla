------------------------------ MODULE Framing ------------------------------
(***************************************************************************)
(* Reading: the "data" handler of a socket, which cuts the byte stream     *)
(* into messages (SocketHandler.js:29-56).  TCP delivers the stream in     *)
(* reads of any length; what is incomplete waits in read_buffer.           *)
(*                                                                         *)
(* Positions count the characters of the stream from its beginning, so an  *)
(* index i of read_buffer is the position kept + i.  A message lies at     *)
(* Start[m] .. End[m]; the expression matches it once the line feed of its *)
(* end line has arrived.  What lies between two messages matches nothing.  *)
(* No message quotes another complete one.                                 *)
(***************************************************************************)
EXTENDS Naturals

CONSTANTS
  Messages,  \* the messages of the stream, numbered in its order
  Parsable,  \* those for which parseMessage returns something
  Start, End,  \* the positions of each message
  Length     \* the length of the stream

ASSUME StreamAssumption ==
  /\ Messages \subseteq Nat /\ Parsable \subseteq Messages
  /\ Start \in [Messages -> Nat] /\ End \in [Messages -> Nat]
  /\ Length \in Nat
  /\ \A m \in Messages : Start[m] < End[m]
  /\ \A m, n \in Messages : m < n => End[m] <= Start[n]

VARIABLES
  arrived,   \* how far the stream has arrived
  kept,      \* where read_buffer begins
  reading,   \* the handler is running
  regIndex,  \* reg.lastIndex, as a position
  lastIndex, \* lastIndex, as a position
  handled    \* how often each message has been handled (history)

vars == <<arrived, kept, reading, regIndex, lastIndex, handled>>

Init ==
  /\ arrived = 0 /\ kept = 0
  /\ reading = FALSE /\ regIndex = 0 /\ lastIndex = 0
  /\ handled = [m \in Messages |-> 0]

\* A read appends to the buffer; the expression starts at its beginning.
Data(n) ==
  /\ ~reading /\ n > arrived
  /\ arrived' = n
  /\ reading' = TRUE /\ regIndex' = kept /\ lastIndex' = kept
  /\ UNCHANGED <<kept, handled>>

\* The end line is not part of the expression.
MatchesUnended(from) == {m \in Messages : from <= Start[m] /\ Start[m] < arrived}

\* The complete messages from a position on.
Matches(from) == {m \in Messages : from <= Start[m] /\ End[m] <= arrived}

\* reg.exec finds m: the first of them.
Matched(m) == m \in Matches(regIndex) /\ \A n \in Matches(regIndex) : m <= n

\* The handler gives up the read at the first message it cannot parse.
DiscardRest(m) ==
  /\ reading /\ Matched(m) /\ m \notin Parsable
  /\ regIndex' = arrived
  /\ UNCHANGED <<arrived, kept, reading, lastIndex, handled>>

\* The search goes on behind the last message handled.
DiscardAgain(m) ==
  /\ reading /\ Matched(m) /\ m \notin Parsable
  /\ regIndex' = lastIndex
  /\ UNCHANGED <<arrived, kept, reading, lastIndex, handled>>

\* A match that cannot be parsed moves reg.lastIndex, but not lastIndex.
Discard(m) ==
  /\ reading /\ Matched(m) /\ m \notin Parsable
  /\ regIndex' = End[m]
  /\ UNCHANGED <<arrived, kept, reading, lastIndex, handled>>

Handle(m) ==
  /\ reading /\ Matched(m) /\ m \in Parsable
  /\ handled' = [handled EXCEPT ![m] = @ + 1]
  /\ regIndex' = End[m] /\ lastIndex' = End[m]
  /\ UNCHANGED <<arrived, kept, reading>>

\* read_buffer.substring(reg.lastIndex), which a failed exec has set to 0.
TrimNothing ==
  /\ reading /\ Matches(regIndex) = {}
  /\ reading' = FALSE
  /\ UNCHANGED <<arrived, kept, regIndex, lastIndex, handled>>

\* No match is left: the buffer is cut behind the last message handled.
Trim ==
  /\ reading /\ Matches(regIndex) = {}
  /\ kept' = lastIndex /\ reading' = FALSE
  /\ UNCHANGED <<arrived, regIndex, lastIndex, handled>>

HandlerStep == Trim \/ \E m \in Messages : Discard(m) \/ Handle(m)

Next == HandlerStep \/ \E n \in 1..Length : Data(n)

Spec == Init /\ [][Next]_vars

\* A running handler goes on to its end; nothing is assumed of the network.
FairSpec == Spec /\ WF_vars(HandlerStep)

-----------------------------------------------------------------------------
(* Properties.                                                             *)

\* Every variable keeps its type, and the indices stay within the buffer.
TypeOK ==
  /\ arrived \in Nat /\ kept \in 0..arrived
  /\ regIndex \in 0..arrived /\ lastIndex \in 0..arrived
  /\ reading \in BOOLEAN
  /\ handled \in [Messages -> Nat]

\* The read loop implements Stream: each message that can be parsed is
\* handled once and in order, wherever the reads are cut and whatever cannot be
\* parsed lies between, although the buffer is searched again at every read.
Promise == INSTANCE Stream
ImplementsStream == Promise!Spec

\* Between two reads no complete message waits in the buffer, so that the
\* last message of a conversation does not wait for the next one.
NothingHeldBack ==
  ~reading => \A m \in Parsable : End[m] <= arrived => handled[m] = 1

\* A message that has arrived is handled; the loop does not run for ever on
\* one it cannot parse.
ArrivedHandled ==
  \A m \in Parsable : (End[m] <= arrived) ~> (handled[m] = 1)
=============================================================================
