------------------------------ MODULE Transfer ------------------------------
(***************************************************************************)
(* Receiving chunked messages: the chunks a peer with the same library     *)
(* sends (ChunkSender.getNextChunk), what the network may do to them, the  *)
(* handling of SEND requests (handleIncomingRequest in SocketHandler), the *)
(* reassembly of the body (ChunkReceiver) and the poll that gives up a     *)
(* message when no chunk of it has come for 30 seconds.                    *)
(*                                                                         *)
(* Bodies are text.  A character takes one or more bytes; a chunk is cut   *)
(* between bytes, and becomes a string on the wire and bytes again in the  *)
(* receiver.  A byte is a record that names its character and its place in *)
(* it, so what the conversions preserve and what they lose can be seen.    *)
(***************************************************************************)
EXTENDS Integers, FiniteSets, SequencesExt

CONSTANTS
  Messages,    \* chunked messages, each with a Message-ID of its own
  Widths,      \* the width in bytes of each character of each message
  ChunkSize,   \* bytes of a full chunk: 2048 in the code
  BufferSize,  \* bytes a ChunkReceiver keeps before it joins them: 1 MB
  NoReceiver,  \* undefined
  Liberties    \* what the network may do beyond losing and reordering

(***************************************************************************)
(* The first chunk of a message arrives first; later ones may arrive in    *)
(* any order or never.  Liberties may allow more:                          *)
(*   duplicate   a later chunk arrives again                               *)
(*   repeat      it does so while an earlier one is still missing          *)
(*   abort       the peer aborts a message it has begun to send            *)
(***************************************************************************)
ASSUME TransferAssumption ==
  /\ Widths \in [Messages -> Seq(Nat \ {0})]
  /\ {ChunkSize, BufferSize} \subseteq Nat \ {0}
  /\ Liberties \subseteq {"duplicate", "repeat", "abort"}

VARIABLES
  left,       \* chunks of each message that have not arrived
  cut,        \* messages the peer has aborted
  receivers,  \* chunkReceivers
  stale,      \* messages whose receiver has waited for 30 seconds
  polling,    \* receiverCheckInterval is set
  inbox,      \* the bodies emitted as each message (history)
  refused,    \* messages with a chunk answered 413 (history)
  expired     \* messages the poll has given up (history)

vars == <<left, cut, receivers, stale, polling, inbox, refused, expired>>

Unknown == -1   \* the total of a Byte-Range "*"
ByteSet == [char : Nat, at : Nat]
Garbage == [char |-> 0, at |-> 0]   \* a byte that is in no message

\* A ChunkReceiver: totalBytes, what writeToBuffer has joined, bufferedChunks,
\* incontiguousChunks and aborted.
Receivers ==
  [total : Nat \cup {Unknown}, buffer : Seq(ByteSet), buffered : Seq(ByteSet),
   kept : SUBSET [start : Nat, body : Seq(ByteSet)], aborted : BOOLEAN]

ASSUME NullAssumption == NoReceiver \notin Receivers

-----------------------------------------------------------------------------
(* The chunks of a message.                                                *)

\* Buffer.from(body)
Bytes(m) ==
  FlattenSeq([i \in DOMAIN Widths[m] |->
                [k \in 1..Widths[m][i] |-> [char |-> i, at |-> k]]])

Body == [m \in Messages |-> Bytes(m)]

\* What is left of bytes of m after toString("utf8") and Buffer.from: an
\* incomplete character is replaced by U+FFFD, which takes three bytes; each
\* byte of one that lacks its beginning is replaced.
Recode(m, bytes) ==
  LET Has(i, k) == \E j \in DOMAIN bytes : bytes[j].char = i /\ bytes[j].at = k
      Whole(i) == \A k \in 1..Widths[m][i] : Has(i, k)
      Coded(b) == IF Whole(b.char) THEN <<b>>
                  ELSE IF b.at > 1 /\ Has(b.char, 1) THEN <<>>
                  ELSE <<Garbage, Garbage, Garbage>>
  IN FlattenSeq([j \in DOMAIN bytes |-> Coded(bytes[j])])

NumChunks(m) ==
  LET size == Len(Body[m])
  IN IF size = 0 THEN 1 ELSE (size + ChunkSize - 1) \div ChunkSize

ChunkStart(i) == (i - 1) * ChunkSize + 1

\* The i-th chunk of m as the receiver parses it; total is the size of the
\* message or, from a peer that does not tell it, unknown.
Chunk(m, i, total) ==
  LET end == Min({i * ChunkSize, Len(Body[m])})
  IN [start |-> ChunkStart(i), total |-> total,
      flag |-> IF end < Len(Body[m]) THEN "continued" ELSE "end",
      body |-> Recode(m, SubSeq(Body[m], ChunkStart(i), end))]

\* An abort chunk of this library has no Byte-Range and gets the default one,
\* which starts at 1; another peer's may name the range that comes next.
AbortChunks(m) ==
  {[start |-> s, total |-> Unknown, flag |-> "abort", body |-> <<>>] :
     s \in {1} \cup {ChunkStart(i) : i \in left[m]}}

-----------------------------------------------------------------------------
(* ChunkReceiver.                                                          *)

ReceivedSize(r) == Len(r.buffer)
NextStart(r) == Len(r.buffer) + Len(r.buffered) + 1

\* writeToBuffer
Written(r) == [r EXCEPT !.buffer = @ \o r.buffered, !.buffered = <<>>]

IsComplete(r) == r.aborted \/ ReceivedSize(r) = r.total

\* One kept chunk is appended if it comes next.
AppendKept(k, r) ==
  IF \E c \in r.kept : c.start = NextStart(r)
  THEN LET next == CHOOSE c \in r.kept : c.start = NextStart(r)
       IN [r EXCEPT !.buffered = @ \o next.body, !.kept = @ \ {next}]
  ELSE r

\* The kept chunks stay where they are.
NoneKeptAppended(r) == r

AllKeptAppended(r) == FoldSet(AppendKept, r, r.kept)

\* Only a full buffer is written.
WrittenIfFull(r) == IF Len(r.buffered) >= BufferSize THEN Written(r) ELSE r

WrittenIfDue(r) ==
  IF Len(r.buffered) >= BufferSize \/ ReceivedSize(r) + Len(r.buffered) = r.total
  THEN Written(r) ELSE r

Expected(r, c) ==
  WrittenIfDue(AllKeptAppended([r EXCEPT !.buffered = @ \o c.body]))

\* The chunk is kept for later; one that begins at the same byte is replaced.
KeptForLater(r, c) ==
  [r EXCEPT !.kept = {k \in @ : k.start # c.start}
                       \cup {[start |-> c.start, body |-> c.body]}]

\* Buffer.from of an array of buffers: each piece becomes one byte.
Overlapping(r, c) ==
  LET w == Written(r)
      before == IF c.start > 1 THEN 1 ELSE 0
      after == IF c.start + Len(c.body) <= ReceivedSize(w) THEN 1 ELSE 0
  IN [w EXCEPT !.buffer = [j \in 1..before + 1 + after |-> Garbage]]

\* ChunkReceiver.processChunk returns false.
Fails(r, c) == r.aborted \/ c.flag = "abort"

\* Chunks are appended in the order they arrive.
ProcessInArrivalOrder(r, c) ==
  LET t == IF c.flag = "end" THEN [r EXCEPT !.total = c.start + Len(c.body) - 1] ELSE r
  IN IF Fails(r, c) THEN [r EXCEPT !.aborted = TRUE] ELSE Expected(t, c)

\* The receiver after processChunk.
ProcessChunk(r, c) ==
  LET t == IF c.flag = "end" THEN [r EXCEPT !.total = c.start + Len(c.body) - 1] ELSE r
  IN IF Fails(r, c) THEN [r EXCEPT !.aborted = TRUE]
     ELSE IF c.start = NextStart(r) THEN Expected(t, c)
     ELSE IF c.start > NextStart(r) THEN KeptForLater(t, c)
     ELSE Overlapping(t, c)

\* The receiver counts the bytes that are missing, not the total.
NewReceiverMissing(c) ==
  ProcessChunk([total |-> c.total - Len(c.body), buffer |-> <<>>, buffered |-> <<>>,
                kept |-> {}, aborted |-> FALSE], c)

NewReceiver(c) ==
  ProcessChunk([total |-> c.total, buffer |-> <<>>, buffered |-> <<>>, kept |-> {},
                aborted |-> FALSE], c)

-----------------------------------------------------------------------------
(* handleIncomingRequest for a SEND request.                               *)

NotChunked(m, c) ==
  /\ c.start = 1 /\ c.flag = "end"
  /\ inbox' = [inbox EXCEPT ![m] = Append(@, c.body)]
  /\ UNCHANGED <<receivers, stale, polling, refused>>

FirstChunk(m, c) ==
  /\ c.start = 1 /\ c.flag # "end"
  /\ receivers' = [receivers EXCEPT ![m] = NewReceiver(c)]
  /\ stale' = stale \ {m}
  /\ polling' = TRUE
  /\ UNCHANGED <<inbox, refused>>

\* 413 because the first chunk is unknown.
UnknownMessage(m, c) ==
  /\ c.start > 1 /\ receivers[m] = NoReceiver
  /\ refused' = refused \cup {m}
  /\ UNCHANGED <<receivers, stale, polling, inbox>>

\* The receiver survives the failure.
FailingChunkKept(m, c) ==
  /\ c.start > 1 /\ receivers[m] # NoReceiver /\ Fails(receivers[m], c)
  /\ refused' = refused \cup {m}
  /\ UNCHANGED <<receivers, stale, polling, inbox>>

\* 413 because the message has been aborted.
FailingChunk(m, c) ==
  /\ c.start > 1 /\ receivers[m] # NoReceiver /\ Fails(receivers[m], c)
  /\ receivers' = [receivers EXCEPT ![m] = NoReceiver]
  /\ refused' = refused \cup {m}
  /\ stale' = stale \ {m}
  /\ UNCHANGED <<polling, inbox>>

NextChunk(m, c) ==
  /\ c.start > 1 /\ receivers[m] # NoReceiver /\ ~Fails(receivers[m], c)
  /\ LET r == ProcessChunk(receivers[m], c) IN
     IF IsComplete(r)
     THEN /\ receivers' = [receivers EXCEPT ![m] = NoReceiver]
          /\ inbox' = [inbox EXCEPT ![m] = Append(@, r.buffer)]
     ELSE /\ receivers' = [receivers EXCEPT ![m] = r]
          /\ UNCHANGED inbox
  /\ stale' = stale \ {m}
  /\ UNCHANGED <<polling, refused>>

Receive(m, c) ==
  \/ NotChunked(m, c)
  \/ FirstChunk(m, c)
  \/ UnknownMessage(m, c)
  \/ FailingChunk(m, c)
  \/ NextChunk(m, c)

-----------------------------------------------------------------------------
Init ==
  /\ left = [m \in Messages |-> 1..NumChunks(m)]
  /\ cut = {}
  /\ receivers = [m \in Messages |-> NoReceiver]
  /\ stale = {} /\ polling = FALSE
  /\ inbox = [m \in Messages |-> <<>>]
  /\ refused = {} /\ expired = {}

Received == {m \in Messages : receivers[m] # NoReceiver}

Begun(m) == 1 \notin left[m]

ArriveWith(m, i, total) ==
  /\ i \in left[m]
  /\ i = 1 \/ Begun(m)
  /\ left' = [left EXCEPT ![m] = @ \ {i}]
  /\ Receive(m, Chunk(m, i, total))
  /\ UNCHANGED <<cut, expired>>

Arrive(m, i) == \E total \in {Len(Body[m]), Unknown} : ArriveWith(m, i, total)

ArriveAgain(m, i) ==
  /\ i > 1 /\ Begun(m) /\ i \notin left[m]
  /\ \/ "duplicate" \in Liberties
     \/ /\ "repeat" \in Liberties /\ m \in Received
        /\ \E k \in receivers[m].kept : k.start = ChunkStart(i)
  /\ Receive(m, Chunk(m, i, Len(Body[m])))
  /\ UNCHANGED <<left, cut, expired>>

\* The peer has chunks left to send and aborts the message instead.
Abort(m) ==
  /\ "abort" \in Liberties
  /\ Begun(m) /\ left[m] # {} /\ m \notin cut
  /\ cut' = cut \cup {m}
  /\ \E c \in AbortChunks(m) : Receive(m, c)
  /\ UNCHANGED <<left, expired>>

\* No chunk of m for 30 seconds.
Wait(m) ==
  /\ receivers[m] # NoReceiver /\ m \notin stale
  /\ stale' = stale \cup {m}
  /\ UNCHANGED <<left, cut, receivers, polling, inbox, refused, expired>>

\* The poll stops once it has given up a message.
PollOnce ==
  /\ polling
  /\ receivers' = [m \in Messages |-> IF m \in stale THEN NoReceiver ELSE receivers[m]]
  /\ expired' = expired \cup (stale \cap Received)
  /\ stale' = {}
  /\ polling' = (stale \cap Received = {} /\ Received # {})
  /\ UNCHANGED <<left, cut, inbox, refused>>

\* The poll gives up the stale receivers and stops when none is left.
Poll ==
  /\ polling
  /\ receivers' = [m \in Messages |-> IF m \in stale THEN NoReceiver ELSE receivers[m]]
  /\ expired' = expired \cup (stale \cap Received)
  /\ stale' = {}
  /\ polling' = (Received \ stale # {})
  /\ UNCHANGED <<left, cut, inbox, refused>>

Next ==
  \/ \E m \in Messages :
       \/ \E i \in 1..NumChunks(m) : Arrive(m, i) \/ ArriveAgain(m, i)
       \/ Abort(m)
       \/ Wait(m)
  \/ Poll

Spec == Init /\ [][Next]_vars

\* Time passes and the interval fires; nothing is assumed of the network.
FairSpec == Spec /\ WF_vars(Poll) /\ \A m \in Messages : WF_vars(Wait(m))

-----------------------------------------------------------------------------
(* Properties.                                                             *)

\* Every variable keeps its type, and only a receiver can be stale.
TypeOK ==
  /\ DOMAIN left = Messages /\ \A m \in Messages : left[m] \subseteq 1..NumChunks(m)
  /\ {cut, refused, expired} \subseteq SUBSET Messages
  /\ receivers \in [Messages -> Receivers \cup {NoReceiver}]
  /\ stale \subseteq Received
  /\ polling \in BOOLEAN
  /\ inbox \in [Messages -> Seq(Seq(ByteSet))]

\* No chunk cuts a character: one with a byte in a chunk is whole in it.
Uncut ==
  \A m \in Messages : \A i \in 1..NumChunks(m) :
    LET piece == SubSeq(Body[m], ChunkStart(i), Min({i * ChunkSize, Len(Body[m])}))
    IN \A j \in DOMAIN piece : \A k \in 1..Widths[m][piece[j].char] :
         \E l \in DOMAIN piece : piece[l].char = piece[j].char /\ piece[l].at = k

\* What the application gets as a message is the body that was sent.
DeliveredIntact ==
  \A m \in Messages : \A i \in DOMAIN inbox[m] : inbox[m][i] = Body[m]

\* The receiving side implements Delivery: whatever the order of the chunks
\* and whichever are missing, a message is delivered whole and once, and not
\* after a chunk of it was refused or before it.
Promise == INSTANCE Delivery
ImplementsDelivery == Promise!Spec

\* A message is not held back: once every chunk has arrived the application
\* has it, unless it was aborted or given up meanwhile.
AllArrivedDelivered ==
  \A m \in Messages \ (cut \cup expired) : left[m] = {} => inbox[m] # <<>>

\* An aborted message is not delivered, in whichever form the abort comes.
AbortedNotDelivered == \A m \in cut : inbox[m] = <<>>

\* A receiver does not stay for ever: its message completes, fails or is
\* given up by the poll, which runs as long as there is a receiver, unless the
\* peer repeats chunks of it again and again.
ReceiverReleased ==
  \A m \in Messages :
    \/ []<>(m \notin Received)
    \/ []<><<\E i \in 1..NumChunks(m) : ArriveAgain(m, i)>>_vars
=============================================================================
