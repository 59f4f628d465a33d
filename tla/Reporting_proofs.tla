-------------------------- MODULE Reporting_proofs --------------------------
(***************************************************************************)
(* Proofs about Reporting, for any messages, sizes and sockets: the        *)
(* receiver keeps to what SendQueue assumes, so that SendQueue's theorems  *)
(* hold of the sender, and what the sender hears of a message is what has  *)
(* become of it.                                                           *)
(*                                                                         *)
(* The sender's own invariants come from SendQueue_proofs.  Chunks reach   *)
(* the receiver in the order in which they are written, so a message that  *)
(* is being received has got its first chunks and keeps none for later.    *)
(***************************************************************************)
EXTENDS Reporting, SendQueue_proofs

\* The hypotheses of the theorems: the application is careful, no chunk cuts a
\* character and reports count bytes.
Fitting == Careful /\ R!Uncut /\ Narrow

-----------------------------------------------------------------------------
(* The invariant of the sender.                                            *)

N(m) == R!NumChunks(m)

\* The end of the n-th chunk of a message.
Reach(m, n) == IF n * ChunkSize <= Size[m] THEN n * ChunkSize ELSE Size[m]

ChunkAt(m, n) ==
  [msg |-> m, start |-> R!ChunkStart(n), end |-> Reach(m, n),
   flag |-> IF Reach(m, n) < Size[m] THEN "continued" ELSE "end"]

\* Only the chunks the message is cut into are written.
WholeChunks ==
  \A i \in DOMAIN written :
    \E n \in 1..N(written[i].msg) : written[i] = ChunkAt(written[i].msg, n)

\* A sender in the queue is between two chunks, and not behind the last unless
\* its turn is under way.
InTurn(m) == (Running("sent") \/ Running("failed")) /\ m = Current
Placed ==
  \A m \in ToSet(queue) :
    \E n \in 0..N(m) : sentBytes[m] = Reach(m, n) /\ (n = N(m) => InTurn(m))

\* Nothing is queued when no loop runs, as no loop is left by an exception.
Emptied == frames = <<>> => queue = <<>>

\* Reports are awaited until the "report" event, and a refusal is one.
Awaited ==
  /\ \A m \in Messages \ sent : sentBytes[m] = 0
  /\ senders \cap reported = {} /\ aborted \subseteq reported /\ reported \subseteq sent

SendInv == WholeChunks /\ Placed /\ Emptied /\ Awaited

-----------------------------------------------------------------------------
(* The invariant of the receiver.                                          *)

\* The receiver has the first p chunks.
Holds(r, m, p) ==
  /\ r \in R!Receivers /\ ~r.aborted /\ r.kept = {} /\ r.total = Size[m]
  /\ Len(r.buffer) + Len(r.buffered) = Reach(m, p)

Untouched(m) ==
  /\ left[m] = 1..N(m) /\ receivers[m] = NoReceiver
  /\ inbox[m] = <<>> /\ m \notin refused
Receiving(m) ==
  \E p \in 1..N(m) - 1 :
    /\ left[m] = p + 1..N(m) /\ Holds(receivers[m], m, p)
    /\ inbox[m] = <<>> /\ m \notin refused
Delivered(m) ==
  /\ left[m] = {} /\ receivers[m] = NoReceiver
  /\ inbox[m] # <<>> /\ m \notin refused
GivenUp(m) ==
  /\ left[m] \subseteq 2..N(m) /\ receivers[m] = NoReceiver /\ inbox[m] = <<>>

Phase(m) == Untouched(m) \/ Receiving(m) \/ Delivered(m) \/ GivenUp(m)

Bodies == Seq(R!ByteSet)

ReceiverTypes ==
  /\ DOMAIN left = Messages
  /\ receivers \in [Messages -> R!Receivers \cup {NoReceiver}]
  /\ cut = {} /\ {refused, expired} \subseteq SUBSET Messages
  /\ stale \subseteq R!Received /\ polling \in BOOLEAN
  /\ inbox \in [Messages -> Seq(Bodies)]

ReceiveInv == ReceiverTypes /\ \A m \in Messages : Phase(m)

-----------------------------------------------------------------------------
(* The invariant of the connections.                                       *)

\* The last chunk is reported once the message is delivered.
TellsTheTruth(m, end) == end = Size[m] => inbox[m] # <<>>

\* The answers that may wait: the report made from them names the chunk.
Answers(k) ==
  {a \in [chunk : {written[i] : i \in DOMAIN written}, body : Bodies,
          status : {200, 413, 481}] :
     /\ a.status = 481 => k \in removed
     /\ a.status # 481 => ReportEnd(a) = a.chunk.end
     /\ a.status = 413 => a.chunk.msg \in refused
     /\ a.status = 200 => TellsTheTruth(a.chunk.msg, a.chunk.end)}

Notices ==
  {b \in [msg : Messages, start : Nat, end : Nat, status : {200, 413}] :
     /\ [start |-> b.start, end |-> b.end] \in ChunkRanges(b.msg)
     /\ b.status = 413 => b.msg \in refused
     /\ b.status = 200 => TellsTheTruth(b.msg, b.end)}

\* As long as its session is there, what is read from a socket has arrived.
ReadArrives ==
  \A k \in Sockets \ removed : \A i \in Read(k) :
    Index(written[i]) \notin left[written[i].msg]

Counts(k) == Len(owed[k]) + Len(back[k]) <= Cardinality(Read(k))

Connection(k) ==
  /\ taken[k] \in 0..Len(written) /\ Counts(k)
  /\ owed[k] \in Seq(Answers(k)) /\ back[k] \in Seq(Notices)

WireTypes ==
  /\ DOMAIN taken = Sockets /\ DOMAIN owed = Sockets /\ DOMAIN back = Sockets
  /\ removed \subseteq Removable /\ crashed \in BOOLEAN
  /\ \A k \in Sockets : Connection(k)

AckedTruly == \A m \in Messages : \A r \in acked[m] : TellsTheTruth(m, r.end)

WireInv == WireTypes /\ ReadArrives /\ AckedTruly

BothInv == IInv /\ CarefulInv /\ SendInv /\ ReceiveInv /\ WireInv

-----------------------------------------------------------------------------
(* The chunks of a message.                                                *)

LEMMA BothConstants ==
  ASSUME NEW m \in Messages
  PROVE  /\ ChunkSize \in Nat \ {0} /\ BufferSize \in Nat \ {0}
         /\ Widths[m] \in Seq(Nat \ {0})
         /\ NoReceiver \notin R!Receivers
<1>1. R!TransferAssumption /\ R!NullAssumption
  BY ReceiverAssumption
<1> QED
  BY <1>1 DEF R!TransferAssumption, R!NullAssumption

\* The operators of SequencesExt are the same in both modules.
LEMMA SameOperators ==
  /\ \A q : R!FlattenSeq(q) = FlattenSeq(q)
  /\ \A T : R!Min(T) = Min(T)
BY DEF R!FlattenSeq, FlattenSeq, R!Min, Min

\* The bytes of a message are places in characters as wide.
Located(m) ==
  {b \in R!ByteSet : b.char \in DOMAIN Widths[m] /\ b.at \in 1..Widths[m][b.char]}

LEMMA BodyType ==
  ASSUME NEW m \in Messages
  PROVE  /\ R!Body[m] \in Seq(Located(m)) /\ R!Body[m] \in Bodies
         /\ Len(R!Body[m]) = Size[m] /\ Size[m] \in Nat
<1> DEFINE w == Widths[m]
           Coded(i) == [k \in 1..w[i] |-> [char |-> i, at |-> k]]
           q == [i \in DOMAIN w |-> Coded(i)]
<1>1. w \in Seq(Nat \ {0}) /\ Len(w) \in Nat /\ DOMAIN w = 1..Len(w)
  BY BothConstants
<1>2. ASSUME NEW i \in 1..Len(w) PROVE Coded(i) \in Seq(Located(m))
  <2>1. w[i] \in Nat
    BY <1>1
  <2>2. \A k \in 1..w[i] : [char |-> i, at |-> k] \in Located(m)
    BY <1>1, <2>1 DEF Located, R!ByteSet
  <2> QED
    BY <2>1, <2>2
<1>3. q \in [1..Len(w) -> Seq(Located(m))]
  <2> HIDE DEF Coded
  <2> QED BY <1>1, <1>2
<1>4. q \in Seq(Seq(Located(m)))
  <2> HIDE DEF q
  <2> QED BY <1>1, <1>3
<1>5. FlattenSeq(q) \in Seq(Located(m))
  <2> HIDE DEF q
  <2> QED BY <1>4, FlattenType
<1>6. R!Body[m] = FlattenSeq(q)
  <2>1. R!Body[m] = R!FlattenSeq(q)
    BY DEF R!Body, R!Bytes
  <2> HIDE DEF q
  <2> QED BY <2>1, SameOperators
<1>7. Seq(Located(m)) \subseteq Bodies
  BY DEF Located, Bodies
<1>8. Len(R!Body[m]) = Size[m]
  BY SizeAssumption
<1> HIDE DEF q
<1> QED
  BY <1>5, <1>6, <1>7, <1>8, LenProperties

LEMMA LastReach ==
  ASSUME NEW m \in Messages
  PROVE  /\ N(m) \in Nat \ {0} /\ Reach(m, N(m)) = Size[m] /\ Reach(m, 0) = 0
         /\ \A n \in 0..N(m) - 1 :
              /\ Reach(m, n) = n * ChunkSize /\ n * ChunkSize \in Nat
              /\ n > 0 => Reach(m, n) < Size[m]
<1>1. Size[m] \in Nat /\ ChunkSize \in Nat \ {0} /\ Len(R!Body[m]) = Size[m]
  BY BodyType, BothConstants
<1>2. N(m) = IF Size[m] = 0 THEN 1 ELSE (Size[m] + ChunkSize - 1) \div ChunkSize
  <2>1. N(m) = LET size == Len(R!Body[m])
               IN IF size = 0 THEN 1 ELSE (size + ChunkSize - 1) \div ChunkSize
    BY Zenon DEF N, R!NumChunks
  <2> QED
    BY <1>1, <2>1, Zenon
<1>3. /\ N(m) \in Nat \ {0} /\ N(m) * ChunkSize \in Nat /\ Size[m] <= N(m) * ChunkSize
      /\ \A i \in 0..N(m) - 1 :
           /\ i * ChunkSize \in Nat /\ i * ChunkSize <= Size[m]
           /\ i > 0 => i * ChunkSize < Size[m]
  BY <1>1, <1>2, Pieces
<1>4. 0 * ChunkSize = 0
  BY <1>1
<1> QED
  BY <1>1, <1>3, <1>4 DEF Reach

\* Each chunk starts where the one before it ends, and all but the last are full.
LEMMA StartFacts ==
  ASSUME NEW m \in Messages, NEW n \in 1..N(m)
  PROVE  /\ n \in Nat \ {0} /\ n - 1 \in 0..N(m) - 1
         /\ R!ChunkStart(n) \in Nat \ {0} /\ R!ChunkStart(n) = (n - 1) * ChunkSize + 1
         /\ R!ChunkStart(n) = Reach(m, n - 1) + 1
         /\ Reach(m, n - 1) \in Nat /\ Reach(m, n) \in Nat
         /\ Reach(m, n - 1) <= Reach(m, n) /\ Reach(m, n) <= Size[m]
         /\ n < N(m) => Reach(m, n) = Reach(m, n - 1) + ChunkSize
<1>1. /\ N(m) \in Nat \ {0} /\ n \in Nat \ {0} /\ n - 1 \in 0..N(m) - 1
      /\ ChunkSize \in Nat \ {0} /\ Size[m] \in Nat
  BY LastReach, BodyType, BothConstants
<1>2. Reach(m, n - 1) = (n - 1) * ChunkSize
  BY <1>1, LastReach
<1>3. /\ (n - 1) * ChunkSize \in Nat /\ n * ChunkSize \in Nat
      /\ (n - 1) * ChunkSize + ChunkSize = n * ChunkSize
  BY <1>1, PreviousMultiple
<1>4. Reach(m, n - 1) <= Size[m]
  <2>1. \A i \in 0..N(m) - 1 : Reach(m, i) <= Size[m]
    BY <1>1, LastReach DEF Reach
  <2> QED
    BY <1>1, <2>1
<1>5. R!ChunkStart(n) = (n - 1) * ChunkSize + 1
  BY DEF R!ChunkStart
<1>6. n < N(m) => Reach(m, n) = n * ChunkSize
  <2>1. n < N(m) => n \in 0..N(m) - 1
    BY <1>1
  <2> QED
    BY <2>1, LastReach
<1>7. Reach(m, n) \in Nat /\ Reach(m, n) <= Size[m] /\ Reach(m, n - 1) <= Reach(m, n)
  BY <1>1, <1>2, <1>3, <1>4 DEF Reach
<1> QED
  BY <1>1, <1>2, <1>3, <1>5, <1>6, <1>7

\* The index of a chunk is computed from where it starts.
LEMMA IndexFacts ==
  ASSUME NEW m \in Messages, NEW n \in 1..N(m)
  PROVE  Index(ChunkAt(m, n)) = n
<1>1. R!ChunkStart(n) = (n - 1) * ChunkSize + 1 /\ n - 1 \in Nat /\ ChunkSize \in Nat \ {0}
  BY StartFacts, BothConstants, LastReach
<1>2. \A a \in Nat, c \in Nat \ {0} : (a * c) \div c = a
  BY Z3
<1>3. (n - 1) * ChunkSize \in Nat /\ ((n - 1) * ChunkSize) \div ChunkSize = n - 1
  BY <1>1, <1>2
<1>4. ChunkAt(m, n).start - 1 = (n - 1) * ChunkSize
  BY <1>1, <1>3 DEF ChunkAt
<1> QED
  BY <1>1, <1>3, <1>4 DEF Index

\* A byte in one chunk is in no other.
LEMMA OneChunk ==
  ASSUME NEW m \in Messages, NEW p \in 1..N(m), NEW n \in 1..N(m),
         R!ChunkStart(p) \in Bytes(ChunkAt(m, n))
  PROVE  n = p
<1>1. /\ R!ChunkStart(p) = (p - 1) * ChunkSize + 1 /\ p - 1 \in Nat
      /\ R!ChunkStart(n) = (n - 1) * ChunkSize + 1 /\ n - 1 \in Nat
      /\ ChunkSize \in Nat \ {0} /\ n \in Nat /\ p \in Nat
      /\ (p - 1) * ChunkSize \in Nat /\ (n - 1) * ChunkSize \in Nat
  <2>1. \A i \in 1..N(m) : /\ R!ChunkStart(i) = (i - 1) * ChunkSize + 1
                           /\ i - 1 \in 0..N(m) - 1 /\ i \in Nat
    BY StartFacts
  <2>2. ChunkSize \in Nat \ {0} /\ N(m) \in Nat
    BY BothConstants, LastReach
  <2>3. \A i \in 0..N(m) - 1 : i * ChunkSize \in Nat
    BY LastReach
  <2> QED
    BY <2>1, <2>2, <2>3
<1>2. (n - 1) * ChunkSize <= (p - 1) * ChunkSize /\ (p - 1) * ChunkSize < Reach(m, n)
  <2>1. R!ChunkStart(n) <= R!ChunkStart(p) /\ R!ChunkStart(p) <= Reach(m, n)
    BY <1>1, StartFacts DEF Bytes, ChunkAt
  <2> QED
    BY <1>1, <2>1, StartFacts
<1>3. ~(p - 1 < n - 1)
  <2> SUFFICES ASSUME p - 1 < n - 1 PROVE FALSE
    OBVIOUS
  <2>1. (p - 1) * ChunkSize + ChunkSize <= (n - 1) * ChunkSize
    BY <1>1, Multiples
  <2> QED
    BY <1>1, <1>2, <2>1
<1>4. ~(n - 1 < p - 1)
  <2> SUFFICES ASSUME n - 1 < p - 1 PROVE FALSE
    OBVIOUS
  <2>1. n < N(m)
    BY <1>1, LastReach
  <2>2. Reach(m, n) = (n - 1) * ChunkSize + ChunkSize
    BY <1>1, <2>1, StartFacts
  <2>3. (n - 1) * ChunkSize + ChunkSize <= (p - 1) * ChunkSize
    BY <1>1, Multiples
  <2> QED
    BY <1>1, <1>2, <2>2, <2>3
<1> QED
  BY <1>1, <1>3, <1>4

\* What a chunk holds of the body.
Piece(m, n) == SubSeq(R!Body[m], R!ChunkStart(n), Reach(m, n))

LEMMA PieceFacts ==
  ASSUME NEW m \in Messages, NEW n \in 1..N(m)
  PROVE  /\ Piece(m, n) \in Seq(Located(m)) /\ Piece(m, n) \in Bodies
         /\ Len(Piece(m, n)) = Reach(m, n) - Reach(m, n - 1)
         /\ \A j \in DOMAIN Piece(m, n) : Piece(m, n)[j] = R!Body[m][Reach(m, n - 1) + j]
<1>1. /\ R!ChunkStart(n) \in Nat \ {0} /\ R!ChunkStart(n) = Reach(m, n - 1) + 1
      /\ Reach(m, n - 1) \in Nat /\ Reach(m, n) \in Nat
      /\ Reach(m, n - 1) <= Reach(m, n) /\ Reach(m, n) <= Size[m]
  BY StartFacts
<1>2. /\ R!Body[m] \in Seq(Located(m)) /\ Len(R!Body[m]) = Size[m] /\ Size[m] \in Nat
  BY BodyType
<1>3. \A j \in R!ChunkStart(n)..Reach(m, n) : R!Body[m][j] \in Located(m)
  BY <1>1, <1>2
<1>4. /\ Piece(m, n) \in Seq(Located(m))
      /\ Len(Piece(m, n)) = IF R!ChunkStart(n) <= Reach(m, n)
                            THEN Reach(m, n) - R!ChunkStart(n) + 1 ELSE 0
      /\ \A j \in 1..Reach(m, n) - R!ChunkStart(n) + 1 :
           Piece(m, n)[j] = R!Body[m][R!ChunkStart(n) + j - 1]
  <2>1. R!ChunkStart(n) \in Int /\ Reach(m, n) \in Int
    BY <1>1
  <2> QED
    BY <1>3, <2>1, SubSeqProperties DEF Piece
<1>5. Len(Piece(m, n)) = Reach(m, n) - Reach(m, n - 1)
  BY <1>1, <1>4
<1>6. ASSUME NEW j \in DOMAIN Piece(m, n)
      PROVE  Piece(m, n)[j] = R!Body[m][Reach(m, n - 1) + j]
  <2>1. j \in 1..Len(Piece(m, n))
    BY <1>4
  <2>2. j \in 1..Reach(m, n) - R!ChunkStart(n) + 1 /\ R!ChunkStart(n) + j - 1 = Reach(m, n - 1) + j
    BY <1>1, <1>5, <2>1
  <2> QED
    BY <1>4, <2>2
<1>7. Seq(Located(m)) \subseteq Bodies
  BY DEF Located, Bodies
<1> QED
  BY <1>4, <1>5, <1>6, <1>7

\* The conversions keep bytes that leave no character incomplete.
LEMMA RecodeWhole ==
  ASSUME R!Uncut, NEW m \in Messages, NEW n \in 1..N(m)
  PROVE  R!Recode(m, Piece(m, n)) = Piece(m, n)
<1> DEFINE b == Piece(m, n)
           Has(c, k) == \E j \in DOMAIN b : b[j].char = c /\ b[j].at = k
           Whole(c) == \A k \in 1..Widths[m][c] : Has(c, k)
           Coded(x) == IF Whole(x.char) THEN <<x>>
                       ELSE IF x.at > 1 /\ Has(x.char, 1) THEN <<>>
                       ELSE <<R!Garbage, R!Garbage, R!Garbage>>
<1>1. R!Min({n * ChunkSize, Len(R!Body[m])}) = Reach(m, n)
  <2>1. /\ n \in Nat /\ n * ChunkSize \in Int /\ Len(R!Body[m]) = Size[m]
        /\ Size[m] \in Int
    BY BodyType, StartFacts, BothConstants
  <2> QED
    BY <2>1, SmallerOfTwo, SameOperators DEF Reach
<1>2. b \in Seq(Located(m))
  BY PieceFacts
<1>3. \A j \in DOMAIN b : Whole(b[j].char)
  <2> DEFINE piece == SubSeq(R!Body[m], R!ChunkStart(n),
                             R!Min({n * ChunkSize, Len(R!Body[m])}))
  <2>1. \A j \in DOMAIN piece : \A k \in 1..Widths[m][piece[j].char] :
          \E l \in DOMAIN piece : piece[l].char = piece[j].char /\ piece[l].at = k
    BY Zenon DEF R!Uncut, N
  <2>2. b = piece
    BY <1>1 DEF Piece
  <2> HIDE DEF b, piece
  <2> QED
    BY <2>1, <2>2
<1> HIDE DEF b
<1>4. \A j \in DOMAIN b : Coded(b[j]) = <<b[j]>>
  <2> HIDE DEF Whole
  <2> QED BY <1>3
<1>5. [j \in DOMAIN b |-> Coded(b[j])] = [j \in DOMAIN b |-> <<b[j]>>]
  <2> HIDE DEF Coded
  <2> QED BY <1>4
<1>6. R!Recode(m, b) = R!FlattenSeq([j \in DOMAIN b |-> Coded(b[j])])
  BY DEF R!Recode
<1>7. R!Recode(m, b) = b
  <2> HIDE DEF Coded
  <2> QED BY <1>2, <1>5, <1>6, FlattenSingles, SameOperators
<1> QED
  BY <1>7 DEF b

\* What the receiver makes of a chunk that is written.
LEMMA ChunkMeant ==
  ASSUME R!Uncut, NEW m \in Messages, NEW n \in 1..N(m)
  PROVE  Parsed(ChunkAt(m, n)) =
           [start |-> R!ChunkStart(n), total |-> Size[m],
            flag |-> IF n = N(m) THEN "end" ELSE "continued", body |-> Piece(m, n)]
<1>1. /\ n \in Nat /\ n * ChunkSize \in Int /\ Len(R!Body[m]) = Size[m]
      /\ Size[m] \in Int /\ N(m) \in Nat
  BY BodyType, StartFacts, BothConstants, LastReach
<1>2. R!Min({n * ChunkSize, Len(R!Body[m])}) = Reach(m, n)
  BY <1>1, SmallerOfTwo, SameOperators DEF Reach
<1>3. Reach(m, n) < Size[m] <=> n # N(m)
  <2>1. CASE n = N(m)
    BY <1>1, <2>1, LastReach
  <2>2. CASE n # N(m)
    <3>1. n \in 0..N(m) - 1 /\ n > 0
      BY <1>1, <2>2
    <3> QED
      BY <2>2, <3>1, LastReach
  <2> QED
    BY <2>1, <2>2
<1>4. Parsed(ChunkAt(m, n)) = R!Chunk(m, n, Size[m])
  BY IndexFacts DEF Parsed, ChunkAt
<1>5. R!Chunk(m, n, Size[m]) =
        [start |-> R!ChunkStart(n), total |-> Size[m],
         flag |-> IF Reach(m, n) < Size[m] THEN "continued" ELSE "end",
         body |-> R!Recode(m, Piece(m, n))]
  BY <1>1, <1>2 DEF R!Chunk, Piece
<1> QED
  BY <1>3, <1>4, <1>5, RecodeWhole

\* The characters of a chunk that is not the last are as many as its bytes.
LEMMA CharactersAreBytes ==
  ASSUME Narrow, NEW m \in Messages, NEW n \in 1..N(m), n # N(m)
  PROVE  StringLength(Piece(m, n)) = ChunkSize
<1> DEFINE b == Piece(m, n)
<1>1. /\ b \in Seq(Located(m)) /\ Len(b) = Reach(m, n) - Reach(m, n - 1)
      /\ \A j \in DOMAIN b : b[j] = R!Body[m][Reach(m, n - 1) + j]
  BY PieceFacts
<1>2. /\ Reach(m, n) = Reach(m, n - 1) + ChunkSize /\ ChunkSize \in Nat
      /\ Reach(m, n - 1) \in Nat /\ N(m) \in Nat /\ n < N(m) /\ n \in Nat
  BY StartFacts, BothConstants, LastReach
<1>3. Len(b) = ChunkSize /\ DOMAIN b = 1..ChunkSize
  BY <1>1, <1>2
<1>4. Reach(m, n) <= (N(m) - 1) * ChunkSize /\ (N(m) - 1) * ChunkSize \in Nat
  <2>1. n \in 0..N(m) - 1 /\ N(m) - 1 \in 0..N(m) - 1 /\ ChunkSize \in Nat \ {0}
    BY <1>2, BothConstants
  <2>2. Reach(m, n) = n * ChunkSize /\ n * ChunkSize \in Nat
        /\ (N(m) - 1) * ChunkSize \in Nat
    BY <2>1, LastReach
  <2>3. n < N(m) - 1 => n * ChunkSize + ChunkSize <= (N(m) - 1) * ChunkSize
    BY <2>1, Multiples
  <2>4. n = N(m) - 1 => n * ChunkSize = (N(m) - 1) * ChunkSize
    BY <1>2
  <2> QED
    BY <1>2, <2>2, <2>3, <2>4
<1>5. ASSUME NEW j \in DOMAIN b
      PROVE  b[j].char > 0 /\ b[j].at = 1 /\ b[j] # R!Garbage
  <2>1. b[j] \in Located(m)
    BY <1>1
  <2>2. Reach(m, n - 1) + j \in 1..(N(m) - 1) * ChunkSize
    BY <1>2, <1>3, <1>4
  <2>3. Widths[m][b[j].char] = 1
    <3>1. Widths[m][R!Body[m][Reach(m, n - 1) + j].char] = 1
      BY <2>2 DEF Narrow, N
    <3> QED
      BY <1>1, <3>1
  <2>4. b[j].at \in 1..1 /\ b[j].char \in 1..Len(Widths[m])
    BY <2>1, <2>3, BothConstants DEF Located
  <2>5. b[j].char > 0 /\ b[j].at = 1
    BY <2>4, BothConstants
  <2>6. R!Garbage.char = 0
    BY DEF R!Garbage
  <2> QED
    BY <2>5, <2>6
<1> HIDE DEF b
<1>6. {j \in DOMAIN b : b[j].char > 0 /\ b[j].at = 1} = 1..ChunkSize
  BY <1>3, <1>5
<1>7. {j \in DOMAIN b : b[j] = R!Garbage} = {}
  BY <1>5
<1>8. Cardinality(1..ChunkSize) = ChunkSize /\ Cardinality({}) = 0
  BY <1>2, FS_Interval, FS_EmptySet
<1>9. StringLength(b) = ChunkSize + 0 \div 3
  BY <1>6, <1>7, <1>8 DEF StringLength
<1> QED
  BY <1>2, <1>9 DEF b

\* A report made from a chunk's own body, or from the whole message when it is
\* the last, names the end of the chunk.
LEMMA EndNamed ==
  ASSUME Narrow, NEW m \in Messages, NEW n \in 1..N(m), NEW a, a.chunk = ChunkAt(m, n),
         a.body = Piece(m, n) \/ (n = N(m) /\ a.body # <<>>)
  PROVE  ReportEnd(a) = a.chunk.end
<1>1. /\ a.chunk.end = Reach(m, n) /\ a.chunk.msg = m /\ a.chunk.start = Reach(m, n - 1) + 1
      /\ Reach(m, n) \in Nat /\ Reach(m, n - 1) \in Nat /\ ChunkSize \in Nat \ {0}
      /\ n \in Nat \ {0} /\ N(m) \in Nat /\ Reach(m, N(m)) = Size[m]
      /\ n # N(m) => Reach(m, n) = Reach(m, n - 1) + ChunkSize
  <2>1. n # N(m) => n < N(m)
    BY LastReach
  <2> QED
    BY <2>1, StartFacts, BothConstants, LastReach DEF ChunkAt
<1>2. CASE a.body = <<>>
  <2>1. a.body = Piece(m, n) /\ Len(a.body) = 0
    BY <1>2
  <2>2. Reach(m, n) = Reach(m, n - 1)
    BY <1>1, <2>1, PieceFacts
  <2>3. n = N(m)
    BY <1>1, <2>2
  <2>4. Reach(m, n) = 0
    <3>1. n - 1 \in 0..N(m) - 1 /\ (n - 1 > 0 => Reach(m, n - 1) < Size[m])
      <4>1. n - 1 \in 0..N(m) - 1
        BY <1>1
      <4> QED
        BY <4>1, LastReach
    <3>2. n - 1 = 0
      BY <1>1, <2>2, <2>3, <3>1, BodyType
    <3> QED
      BY <2>2, <3>2, LastReach
  <2> QED
    BY <1>1, <1>2, <2>4 DEF ReportEnd
<1>3. CASE a.body # <<>> /\ a.chunk.end = Size[m]
  BY <1>1, <1>3 DEF ReportEnd
<1>4. CASE a.body # <<>> /\ a.chunk.end # Size[m]
  <2>1. n # N(m)
    BY <1>1, <1>4
  <2>2. StringLength(a.body) = ChunkSize
    BY <2>1, CharactersAreBytes
  <2>3. ReportEnd(a) = a.chunk.start + StringLength(a.body) - 1
    BY <1>1, <1>4 DEF ReportEnd
  <2> QED
    BY <1>1, <2>1, <2>2, <2>3
<1> QED
  BY <1>2, <1>3, <1>4

-----------------------------------------------------------------------------
(* The receiver.                                                           *)

\* Nothing is kept, so nothing is appended after a chunk.
LEMMA NothingKept ==
  ASSUME NEW r, r.kept = {}
  PROVE  R!AllKeptAppended(r) = r
<1> DEFINE Extended(f, T) == IF T = {} THEN r
             ELSE R!AppendKept(CHOOSE x \in T : TRUE, f[T \ {CHOOSE x \in T : TRUE}])
           c == CHOOSE f : f = [T \in SUBSET {} |-> Extended(f, T)]
           g == [T \in SUBSET {} |-> r]
<1>1. g = [T \in SUBSET {} |-> Extended(g, T)]
  <2>1. \A T \in SUBSET {} : Extended(g, T) = r
    OBVIOUS
  <2> HIDE DEF Extended
  <2> QED BY <2>1
<1>2. c = [T \in SUBSET {} |-> Extended(c, T)]
  <2> HIDE DEF Extended, g
  <2> QED BY <1>1
<1>3. c[{}] = Extended(c, {})
  <2> HIDE DEF Extended, c
  <2>1. {} \in SUBSET {}
    OBVIOUS
  <2> QED BY <1>2, <2>1
<1>4. Extended(c, {}) = r
  OBVIOUS
<1>5. R!AllKeptAppended(r) = c[{}]
  BY DEF R!AllKeptAppended, R!FoldSet, R!MapThenFoldSet
<1> HIDE DEF c, Extended
<1> QED
  BY <1>3, <1>4, <1>5

\* The n-th chunk as it is parsed, and where it is written.
Sent(m, n) ==
  [start |-> R!ChunkStart(n), total |-> Size[m],
   flag |-> IF n = N(m) THEN "end" ELSE "continued", body |-> Piece(m, n)]

LEMMA WrittenHolds ==
  ASSUME NEW m, NEW n, NEW r, Holds(r, m, n)
  PROVE  /\ Holds(R!Written(r), m, n)
         /\ Len(R!Written(r).buffer) = Reach(m, n) /\ R!Written(r).buffer \in Bodies
<1>1. r \in R!Receivers /\ r.buffer \in Seq(R!ByteSet) /\ r.buffered \in Seq(R!ByteSet)
  BY DEF Holds, R!Receivers
<1>2. /\ r.buffer \o r.buffered \in Seq(R!ByteSet) /\ <<>> \in Seq(R!ByteSet)
      /\ Len(r.buffer \o r.buffered) = Len(r.buffer) + Len(r.buffered)
      /\ Len(r.buffer) \in Nat /\ Len(r.buffered) \in Nat
  BY <1>1, ConcatProperties, EmptySeq, LenProperties
<1> DEFINE joined == r.buffer \o r.buffered
           s == [r EXCEPT !.buffer = joined, !.buffered = <<>>]
<1>3. R!Written(r) = s
  BY DEF R!Written
<1>4. joined \in Seq(R!ByteSet) /\ Len(joined) = Reach(m, n) /\ Len(joined) \in Nat
  <2>1. joined \in Seq(R!ByteSet) /\ Len(joined) = Len(r.buffer) + Len(r.buffered)
    BY <1>2
  <2>2. Len(r.buffer) + Len(r.buffered) = Reach(m, n)
    BY DEF Holds
  <2>3. Len(r.buffer) \in Nat /\ Len(r.buffered) \in Nat
    BY <1>2
  <2>4. Len(joined) = Reach(m, n)
    BY <2>1, <2>2, Zenon
  <2>5. Len(joined) \in Nat
    BY <2>1, LenProperties
  <2> QED
    BY <2>1, <2>4, <2>5
<1>5. Len(<<>>) = 0
  OBVIOUS
<1> HIDE DEF joined
<1>6. /\ s \in R!Receivers /\ s.buffer = joined /\ s.buffered = <<>>
      /\ s.kept = r.kept /\ s.total = r.total /\ s.aborted = r.aborted
  BY <1>1, <1>2, <1>4 DEF R!Receivers
<1> HIDE DEF s
<1>7. Holds(s, m, n)
  BY <1>4, <1>5, <1>6 DEF Holds
<1> QED
  BY <1>3, <1>4, <1>6, <1>7 DEF Bodies

\* The next chunk arrives: the message is complete with the last one.
LEMMA NextHolds ==
  ASSUME NEW m \in Messages, NEW n \in 1..N(m), NEW r, Holds(r, m, n - 1)
  PROVE  LET s == R!ProcessChunk(r, Sent(m, n)) IN
         /\ ~R!Fails(r, Sent(m, n)) /\ Holds(s, m, n)
         /\ R!IsComplete(s) <=> n = N(m)
         /\ n = N(m) => Len(s.buffer) = Size[m]
<1> DEFINE c == Sent(m, n)
           body == Piece(m, n)
           t == IF c.flag = "end" THEN [r EXCEPT !.total = c.start + Len(c.body) - 1] ELSE r
           joined == r.buffered \o body
           u == [r EXCEPT !.buffered = joined]
<1>1. /\ R!ChunkStart(n) = Reach(m, n - 1) + 1 /\ Reach(m, n - 1) \in Nat
      /\ Reach(m, n) \in Nat /\ N(m) \in Nat /\ n \in Nat
      /\ Size[m] \in Nat /\ Reach(m, N(m)) = Size[m]
      /\ Len(body) = Reach(m, n) - Reach(m, n - 1) /\ body \in Seq(R!ByteSet)
  BY StartFacts, LastReach, BodyType, PieceFacts DEF Bodies
<1>2. n # N(m) => Reach(m, n) < Size[m]
  <2>1. n # N(m) => n \in 0..N(m) - 1 /\ n > 0
    BY <1>1
  <2> QED
    BY <2>1, LastReach
<1>3. /\ r \in R!Receivers /\ ~r.aborted /\ r.kept = {} /\ r.total = Size[m]
      /\ r.buffer \in Seq(R!ByteSet) /\ r.buffered \in Seq(R!ByteSet)
      /\ Len(r.buffer) \in Nat /\ Len(r.buffered) \in Nat
      /\ Len(r.buffer) + Len(r.buffered) = Reach(m, n - 1)
  BY LenProperties DEF Holds, R!Receivers
<1>4. c.start = R!ChunkStart(n) /\ c.body = body /\ c.flag # "abort"
      /\ (c.flag = "end" <=> n = N(m))
  BY DEF Sent
<1>5. t = r
  <2>1. n = N(m) => c.start + Len(c.body) - 1 = r.total
    <3> HIDE DEF c, body
    <3>1. c.start = Reach(m, n - 1) + 1 /\ Len(c.body) = Reach(m, n) - Reach(m, n - 1)
      BY <1>1, <1>4
    <3>2. c.start + Len(c.body) - 1 = Reach(m, n)
      BY <1>1, <3>1
    <3> QED
      BY <1>1, <1>3, <3>2
  <2>2. [r EXCEPT !.total = r.total] = r
    BY <1>3 DEF R!Receivers
  <2> HIDE DEF c, body
  <2> QED
    BY <1>4, <2>1, <2>2
<1>6. ~R!Fails(r, c)
  BY <1>3, <1>4 DEF R!Fails
<1>7. c.start = R!NextStart(r)
  BY <1>1, <1>3, <1>4 DEF R!NextStart
<1>8. R!ProcessChunk(r, c) = R!Expected(r, c)
  <2>1. R!ProcessChunk(r, c) =
          IF R!Fails(r, c) THEN [r EXCEPT !.aborted = TRUE]
          ELSE IF c.start = R!NextStart(r) THEN R!Expected(t, c)
          ELSE IF c.start > R!NextStart(r) THEN R!KeptForLater(t, c)
          ELSE R!Overlapping(t, c)
    BY DEF R!ProcessChunk
  <2> HIDE DEF c, t
  <2> QED
    BY <1>5, <1>6, <1>7, <2>1
<1>9. /\ joined \in Seq(R!ByteSet) /\ Len(joined) \in Nat
      /\ Len(joined) = Len(r.buffered) + Len(body)
  <2> HIDE DEF body
  <2>1. joined \in Seq(R!ByteSet) /\ Len(joined) = Len(r.buffered) + Len(body)
    BY <1>1, <1>3, ConcatProperties
  <2> HIDE DEF joined
  <2> QED BY <2>1, LenProperties
<1>10. Holds(u, m, n)
  <2> HIDE DEF joined, body
  <2>1. /\ u \in R!Receivers /\ u.buffered = joined /\ u.buffer = r.buffer
        /\ u.kept = r.kept /\ u.total = r.total /\ u.aborted = r.aborted
    BY <1>3, <1>9 DEF R!Receivers
  <2> HIDE DEF u
  <2>2. Len(u.buffer) + Len(u.buffered) = Reach(m, n)
    <3>1. Len(u.buffer) = Len(r.buffer) /\ Len(u.buffered) = Len(r.buffered) + Len(body)
      BY <1>9, <2>1
    <3> DEFINE x == Len(r.buffer)
               y == Len(r.buffered)
               z == Len(body)
               p == Reach(m, n - 1)
               q == Reach(m, n)
    <3>2. x \in Nat /\ y \in Nat /\ p \in Nat /\ q \in Nat /\ x + y = p /\ z = q - p
      BY <1>1, <1>3
    <3> HIDE DEF x, y, z, p, q
    <3>3. x + (y + z) = q
      BY <3>2
    <3> QED
      BY <3>1, <3>3 DEF x, y, z, q
  <2> QED
    BY <1>3, <2>1, <2>2 DEF Holds
<1>11. R!Expected(r, c) = R!WrittenIfDue(u)
  <2>1. R!Expected(r, c) = R!WrittenIfDue(R!AllKeptAppended(u))
    BY <1>4 DEF R!Expected
  <2>2. u.kept = {}
    BY <1>10 DEF Holds
  <2> HIDE DEF u, c
  <2> QED
    BY <2>1, <2>2, NothingKept
<1> HIDE DEF c, u
<1> DEFINE s == R!ProcessChunk(r, c)
<1>12. s = R!Written(u) \/ (s = u /\ n # N(m))
  <2>1. s = u => R!ReceivedSize(u) + Len(u.buffered) # u.total \/ s = R!Written(u)
    BY <1>8, <1>11 DEF R!WrittenIfDue
  <2>2. R!ReceivedSize(u) + Len(u.buffered) = Reach(m, n) /\ u.total = Size[m]
    BY <1>10 DEF Holds, R!ReceivedSize
  <2>3. s = u \/ s = R!Written(u)
    BY <1>8, <1>11 DEF R!WrittenIfDue
  <2> QED
    BY <1>1, <2>1, <2>2, <2>3
<1> HIDE DEF s
<1>13. Holds(s, m, n) /\ (n = N(m) => Len(s.buffer) = Size[m])
  BY <1>1, <1>10, <1>12, WrittenHolds
<1>14. R!IsComplete(s) <=> n = N(m)
  <2>1. ~s.aborted /\ s.total = Size[m] /\ s \in R!Receivers
        /\ Len(s.buffer) + Len(s.buffered) = Reach(m, n)
    BY <1>13 DEF Holds
  <2>2. Len(s.buffer) \in Nat /\ Len(s.buffered) \in Nat
    BY <2>1, LenProperties DEF R!Receivers
  <2>3. R!IsComplete(s) <=> Len(s.buffer) = Size[m]
    BY <2>1 DEF R!IsComplete, R!ReceivedSize
  <2>4. Reach(m, n) < Size[m] => Len(s.buffer) # Size[m]
    <3>1. \A x, y, p, q \in Nat : x + y = p /\ p < q => x # q
      OBVIOUS
    <3>2. Reach(m, n) \in Nat /\ Size[m] \in Nat
      BY <1>1
    <3> QED
      BY <2>1, <2>2, <3>1, <3>2, Zenon
  <2> QED
    BY <1>2, <1>13, <2>3, <2>4
<1> QED
  BY <1>6, <1>13, <1>14 DEF s, c

\* The receiver of a message whose first chunk has just come.
LEMMA FirstHolds ==
  ASSUME NEW m \in Messages, 1 # N(m)
  PROVE  Holds(R!NewReceiver(Sent(m, 1)), m, 1)
<1> DEFINE r == [total |-> Size[m], buffer |-> <<>>, buffered |-> <<>>, kept |-> {},
                 aborted |-> FALSE]
<1>1. 1 \in 1..N(m) /\ Size[m] \in Nat /\ Reach(m, 0) = 0 /\ 1 - 1 = 0
  BY LastReach, BodyType
<1>2. <<>> \in Seq(R!ByteSet) /\ Len(<<>>) + Len(<<>>) = 0
  OBVIOUS
<1>3. Holds(r, m, 1 - 1)
  <2>1. r \in R!Receivers
    BY <1>1, <1>2 DEF R!Receivers
  <2> QED
    BY <1>1, <1>2, <2>1 DEF Holds
<1>4. R!NewReceiver(Sent(m, 1)) = R!ProcessChunk(r, Sent(m, 1))
  BY DEF R!NewReceiver, Sent
<1> HIDE DEF r
<1> QED
  BY <1>1, <1>3, <1>4, NextHolds

\* A phase depends on what concerns its message only.
LEMMA PhaseStays ==
  ASSUME NEW m, Phase(m), left'[m] = left[m], receivers'[m] = receivers[m],
         inbox'[m] = inbox[m], m \in refused' <=> m \in refused
  PROVE  Phase(m)'
BY DEF Phase, Untouched, Receiving, Delivered, GivenUp, Holds

-----------------------------------------------------------------------------
(* A request is handled.                                                   *)

\* What handling the n-th chunk of m does, and the answer.  Either the message
\* goes on, and is delivered with its last chunk, or it is refused.
GoesOn(m, n, a) ==
  /\ a.status = 200 /\ refused' = refused /\ m \notin refused /\ inbox[m] = <<>>
  /\ a.body = Piece(m, n) \/ (n = N(m) /\ a.body # <<>>)
  /\ IF n = N(m) THEN \E b \in Bodies : inbox' = [inbox EXCEPT ![m] = Append(@, b)]
                 ELSE inbox' = inbox
IsRefused(m, n, a) ==
  /\ a.status = 413 /\ refused' = refused \cup {m} /\ inbox[m] = <<>>
  /\ a.body = Piece(m, n) /\ inbox' = inbox

\* Everything about the other messages stays.
OnlyAbout(m) ==
  \A x \in Messages \ {m} :
    /\ left'[x] = left[x] /\ receivers'[x] = receivers[x]
    /\ inbox'[x] = inbox[x] /\ (x \in refused' <=> x \in refused)

Handled(m, n, a) ==
  /\ Phase(m)' /\ OnlyAbout(m) /\ ReceiverTypes'
  /\ a.chunk = ChunkAt(m, n) /\ a.body \in Bodies
  /\ GoesOn(m, n, a) \/ IsRefused(m, n, a)

\* The parts of a request's handling that do not depend on the phase.
LEMMA HandlingFrame ==
  ASSUME R!Uncut, ReceiverTypes, NEW m \in Messages, NEW n \in 1..N(m),
         R!ArriveWith(m, n, Size[m])
  PROVE  /\ n \in left[m] /\ (n = 1 \/ 1 \notin left[m])
         /\ DOMAIN left' = Messages /\ left'[m] = left[m] \ {n}
         /\ \A x \in Messages \ {m} : left'[x] = left[x]
         /\ R!Receive(m, Sent(m, n)) /\ UNCHANGED <<cut, expired>>
<1>1. R!Chunk(m, n, Size[m]) = Sent(m, n)
  <2>1. Parsed(ChunkAt(m, n)) = R!Chunk(m, n, Size[m])
    BY IndexFacts DEF Parsed, ChunkAt
  <2> QED
    BY <2>1, ChunkMeant DEF Sent
<1>2. R!Receive(m, Sent(m, n))
  BY <1>1 DEF R!ArriveWith
<1> QED
  BY <1>2 DEF R!ArriveWith, R!Begun, ReceiverTypes

LEMMA AnswerFacts ==
  ASSUME R!Uncut, NEW m \in Messages, NEW n \in 1..N(m), NEW r, receivers[m] = r
  PROVE  LET c == ChunkAt(m, n)
             s == R!ProcessChunk(r, Sent(m, n)) IN
         /\ Answer(c).chunk = c
         /\ StopSending(c) <=> n # 1 /\ (r = NoReceiver \/ R!Fails(r, Sent(m, n)))
         /\ StopSending(c) => Answer(c).status = 413 /\ Answer(c).body = Piece(m, n)
         /\ ~StopSending(c) =>
              /\ Answer(c).status = 200
              /\ Answer(c).body = IF n # 1 /\ R!IsComplete(s) THEN s.buffer ELSE Piece(m, n)
<1> DEFINE c == ChunkAt(m, n)
<1>1. c.msg = m /\ c.start = R!ChunkStart(n)
  BY DEF ChunkAt
<1>2. Parsed(c) = Sent(m, n) /\ Sent(m, n).body = Piece(m, n)
  BY ChunkMeant DEF Sent
<1>3. c.start > 1 <=> n # 1
  <2>1. /\ R!ChunkStart(n) = (n - 1) * ChunkSize + 1 /\ n \in Nat \ {0}
        /\ ChunkSize \in Nat \ {0} /\ n - 1 \in Nat /\ (n - 1) * ChunkSize \in Nat
        /\ n = n - 1 + 1
    BY StartFacts, BothConstants, LastReach
  <2>2. \A a \in Nat, b \in Nat \ {0} : a * b > 0 <=> a # 0
    BY Z3
  <2>3. (n - 1) * ChunkSize > 0 <=> n - 1 # 0
    BY <2>1, <2>2
  <2> QED
    BY <1>1, <2>1, <2>3
<1> HIDE DEF c
<1>4. StopSending(c) <=> n # 1 /\ (r = NoReceiver \/ R!Fails(r, Sent(m, n)))
  BY <1>1, <1>2, <1>3 DEF StopSending
<1>5. BodyLater(c) = LET s == R!ProcessChunk(r, Sent(m, n)) IN
                     IF n # 1 /\ R!IsComplete(s) THEN s.buffer ELSE Piece(m, n)
  BY <1>1, <1>2, <1>3 DEF BodyLater
<1> QED
  BY <1>2, <1>4, <1>5 DEF Answer, c

\* Typed as it was: a body may be added to the inbox.
LEMMA InboxType ==
  ASSUME inbox \in [Messages -> Seq(Bodies)], NEW m \in Messages, NEW b \in Bodies,
         inbox' = [inbox EXCEPT ![m] = Append(@, b)]
  PROVE  /\ inbox' \in [Messages -> Seq(Bodies)] /\ inbox'[m] # <<>>
         /\ \A x \in Messages \ {m} : inbox'[x] = inbox[x]
<1>1. inbox[m] \in Seq(Bodies) /\ inbox'[m] = Append(inbox[m], b)
  OBVIOUS
<1>2. Append(inbox[m], b) \in Seq(Bodies) /\ Append(inbox[m], b) # <<>>
  <2> DEFINE q == Append(inbox[m], b)
  <2>1. q \in Seq(Bodies) /\ Len(q) = Len(inbox[m]) + 1 /\ Len(inbox[m]) \in Nat
    BY <1>1, AppendProperties, LenProperties
  <2>2. Len(<<>>) = 0
    OBVIOUS
  <2> HIDE DEF q
  <2>3. Len(q) # 0
    BY <2>1
  <2>4. q # <<>>
    BY <2>2, <2>3
  <2> QED
    BY <2>1, <2>4 DEF q
<1> QED
  BY <1>1, <1>2

LEMMA HandleUntouched ==
  ASSUME R!Uncut, ReceiverTypes, NEW m \in Messages, NEW n \in 1..N(m), Untouched(m),
         R!ArriveWith(m, n, Size[m])
  PROVE  Handled(m, n, Answer(ChunkAt(m, n)))
<1> DEFINE a == Answer(ChunkAt(m, n))
<1>1. /\ n = 1 /\ DOMAIN left' = Messages /\ left'[m] = left[m] \ {1}
      /\ \A x \in Messages \ {m} : left'[x] = left[x]
      /\ R!Receive(m, Sent(m, 1)) /\ UNCHANGED <<cut, expired>>
      /\ N(m) \in Nat \ {0} /\ left[m] = 1..N(m) /\ receivers[m] = NoReceiver
      /\ inbox[m] = <<>> /\ m \notin refused
  BY HandlingFrame, LastReach DEF Untouched
<1>2. /\ Sent(m, 1).start = 1 /\ Sent(m, 1).body = Piece(m, 1)
      /\ (Sent(m, 1).flag = "end" <=> 1 = N(m))
  <2>1. R!ChunkStart(1) = Reach(m, 0) + 1 /\ Reach(m, 0) = 0 /\ 1 - 1 = 0
    BY <1>1, StartFacts, LastReach
  <2> QED
    BY <2>1 DEF Sent
<1>3. /\ a.chunk = ChunkAt(m, n) /\ a.status = 200 /\ a.body = Piece(m, n)
      /\ Piece(m, n) \in Bodies
  BY <1>1, AnswerFacts, PieceFacts
<1> HIDE DEF a
<1>4. CASE 1 = N(m)
  <2>1. R!NotChunked(m, Sent(m, 1))
    BY <1>1, <1>2, <1>4 DEF R!Receive, R!FirstChunk, R!UnknownMessage, R!FailingChunk,
       R!NextChunk
  <2>2. /\ inbox' = [inbox EXCEPT ![m] = Append(@, Piece(m, n))]
        /\ UNCHANGED <<receivers, stale, polling, refused>>
    BY <1>1, <1>2, <2>1 DEF R!NotChunked
  <2>3. /\ inbox' \in [Messages -> Seq(Bodies)] /\ inbox'[m] # <<>>
        /\ \A x \in Messages \ {m} : inbox'[x] = inbox[x]
    BY <1>3, <2>2, InboxType DEF ReceiverTypes
  <2>4. Phase(m)'
    <3>1. left'[m] = {}
      BY <1>1, <1>4
    <3> QED
      BY <1>1, <2>2, <2>3, <3>1 DEF Phase, Delivered
  <2>5. ReceiverTypes'
    BY <1>1, <2>2, <2>3 DEF ReceiverTypes, R!Received
  <2>6. GoesOn(m, n, a)
    BY <1>1, <1>3, <1>4, <2>2 DEF GoesOn
  <2> QED
    BY <1>1, <1>3, <2>2, <2>3, <2>4, <2>5, <2>6 DEF Handled, OnlyAbout, a
<1>5. CASE 1 # N(m)
  <2>1. R!FirstChunk(m, Sent(m, 1))
    BY <1>1, <1>2, <1>5 DEF R!Receive, R!NotChunked, R!UnknownMessage, R!FailingChunk,
       R!NextChunk
  <2>2. /\ receivers' = [receivers EXCEPT ![m] = R!NewReceiver(Sent(m, 1))]
        /\ stale' = stale \ {m} /\ polling' = TRUE /\ UNCHANGED <<inbox, refused>>
    BY <2>1 DEF R!FirstChunk
  <2>3. /\ DOMAIN receivers' = Messages /\ Holds(receivers'[m], m, 1)
        /\ \A x \in Messages \ {m} : receivers'[x] = receivers[x]
    BY <1>5, <2>2, FirstHolds DEF ReceiverTypes
  <2>4. Phase(m)'
    <3>1. left'[m] = 1 + 1..N(m) /\ 1 \in 1..N(m) - 1
      BY <1>1, <1>5
    <3> QED
      BY <1>1, <2>2, <2>3, <3>1 DEF Phase, Receiving, Holds
  <2>5. ReceiverTypes'
    <3> DEFINE s == R!NewReceiver(Sent(m, 1))
    <3>1. s \in R!Receivers
      BY <1>5, FirstHolds DEF Holds
    <3>2. receivers' = [receivers EXCEPT ![m] = s]
      BY <2>2
    <3> HIDE DEF s
    <3>3. receivers' \in [Messages -> R!Receivers \cup {NoReceiver}]
      BY <3>1, <3>2 DEF ReceiverTypes
    <3> QED
      BY <1>1, <2>2, <2>3, <3>3 DEF ReceiverTypes, R!Received
  <2>6. GoesOn(m, n, a)
    BY <1>1, <1>3, <1>5, <2>2 DEF GoesOn
  <2> QED
    BY <1>1, <1>3, <2>2, <2>3, <2>4, <2>5, <2>6 DEF Handled, OnlyAbout, a
<1> QED
  BY <1>4, <1>5

LEMMA HandleReceiving ==
  ASSUME R!Uncut, ReceiverTypes, NEW m \in Messages, NEW n \in 1..N(m), Receiving(m),
         \A q \in 1..n - 1 : q \notin left[m], R!ArriveWith(m, n, Size[m])
  PROVE  Handled(m, n, Answer(ChunkAt(m, n)))
<1> DEFINE a == Answer(ChunkAt(m, n))
           r == receivers[m]
           s == R!ProcessChunk(r, Sent(m, n))
<1>1. PICK p \in 1..N(m) - 1 :
        /\ left[m] = p + 1..N(m) /\ Holds(r, m, p)
        /\ inbox[m] = <<>> /\ m \notin refused
  BY DEF Receiving
<1>2. /\ n \in left[m] /\ DOMAIN left' = Messages /\ left'[m] = left[m] \ {n}
      /\ \A x \in Messages \ {m} : left'[x] = left[x]
      /\ R!Receive(m, Sent(m, n)) /\ UNCHANGED <<cut, expired>>
      /\ N(m) \in Nat \ {0}
  BY HandlingFrame, LastReach
<1>3. n = p + 1 /\ n - 1 = p /\ n # 1
  <2>1. n \in Nat /\ p \in Nat /\ p + 1 <= n /\ p >= 1 /\ n <= N(m)
    BY <1>1, <1>2
  <2>2. ~(p + 1 < n)
    <3> SUFFICES ASSUME p + 1 < n PROVE FALSE
      OBVIOUS
    <3>1. p + 1 \in 1..n - 1 /\ p + 1 \in left[m]
      BY <1>1, <1>2, <2>1
    <3> QED
      BY <3>1
  <2> QED
    BY <2>1, <2>2
<1>4. /\ ~R!Fails(r, Sent(m, n)) /\ Holds(s, m, n)
      /\ R!IsComplete(s) <=> n = N(m)
      /\ n = N(m) => Len(s.buffer) = Size[m]
  BY <1>1, <1>3, NextHolds
<1>5. r # NoReceiver /\ s.buffer \in Bodies
  BY <1>1, <1>4, BothConstants DEF Holds, R!Receivers, Bodies
<1>6. /\ Sent(m, n).start > 1 /\ Piece(m, n) \in Bodies
  <2>1. /\ R!ChunkStart(n) = Reach(m, p) + 1 /\ Reach(m, p) = p * ChunkSize
        /\ p * ChunkSize \in Nat /\ ChunkSize \in Nat \ {0} /\ p \in Nat \ {0}
    BY <1>1, <1>3, StartFacts, LastReach, BothConstants
  <2>2. \A x, y \in Nat \ {0} : x * y > 0
    BY Z3
  <2>3. p * ChunkSize > 0
    BY <2>1, <2>2
  <2> QED
    BY <2>1, <2>3, PieceFacts DEF Sent
<1>7. /\ R!NextChunk(m, Sent(m, n))
  BY <1>2, <1>4, <1>5, <1>6 DEF R!Receive, R!NotChunked, R!FirstChunk, R!UnknownMessage,
     R!FailingChunk
<1>8. /\ a.chunk = ChunkAt(m, n) /\ a.status = 200
      /\ a.body = IF n = N(m) THEN s.buffer ELSE Piece(m, n)
  BY <1>3, <1>4, <1>5, AnswerFacts
<1>9. /\ IF n = N(m)
         THEN /\ receivers' = [receivers EXCEPT ![m] = NoReceiver]
              /\ inbox' = [inbox EXCEPT ![m] = Append(@, s.buffer)]
         ELSE /\ receivers' = [receivers EXCEPT ![m] = s]
              /\ UNCHANGED inbox
      /\ stale' = stale \ {m} /\ UNCHANGED <<polling, refused>>
  BY <1>4, <1>7 DEF R!NextChunk
<1> HIDE DEF a, s
<1>10. CASE n = N(m)
  <2>1. /\ inbox' \in [Messages -> Seq(Bodies)] /\ inbox'[m] # <<>>
        /\ \A x \in Messages \ {m} : inbox'[x] = inbox[x]
    BY <1>5, <1>9, <1>10, InboxType DEF ReceiverTypes
  <2>2. /\ DOMAIN receivers' = Messages /\ receivers'[m] = NoReceiver
        /\ \A x \in Messages \ {m} : receivers'[x] = receivers[x]
    BY <1>9, <1>10 DEF ReceiverTypes
  <2>3. Phase(m)'
    <3>1. left'[m] = {}
      BY <1>1, <1>2, <1>3, <1>10
    <3> QED
      BY <1>1, <1>9, <2>1, <2>2, <3>1 DEF Phase, Delivered
  <2>4. ReceiverTypes'
    <3>1. receivers' \in [Messages -> R!Receivers \cup {NoReceiver}]
      BY <1>9, <1>10 DEF ReceiverTypes
    <3>2. stale' \subseteq R!Received'
      <4>1. \A x \in stale \ {m} : x \in Messages /\ receivers[x] # NoReceiver
        BY DEF ReceiverTypes, R!Received
      <4> QED
        BY <1>9, <2>2, <4>1 DEF R!Received
    <3>3. /\ DOMAIN left' = Messages /\ cut' = {} /\ polling' \in BOOLEAN
          /\ {refused', expired'} \subseteq SUBSET Messages
      BY <1>2, <1>9 DEF ReceiverTypes
    <3> QED
      BY <2>1, <3>1, <3>2, <3>3 DEF ReceiverTypes
  <2>5. s.buffer # <<>>
    <3>1. 0 < Size[m]
      <4>1. p \in 0..N(m) - 1 /\ p > 0
        BY <1>1, <1>2
      <4>2. Reach(m, p) < Size[m] /\ Reach(m, p) \in Nat
        BY <4>1, LastReach
      <4> QED
        BY <4>2, BodyType
    <3>2. Len(s.buffer) > 0
      BY <1>4, <1>10, <3>1, BodyType
    <3> QED
      BY <3>2
  <2>6. GoesOn(m, n, a)
    BY <1>1, <1>5, <1>8, <1>9, <1>10, <2>5 DEF GoesOn
  <2> QED
    BY <1>2, <1>5, <1>8, <1>9, <1>10, <2>1, <2>2, <2>3, <2>4, <2>6 DEF Handled, OnlyAbout, a
<1>11. CASE n # N(m)
  <2>1. /\ DOMAIN receivers' = Messages /\ receivers'[m] = s
        /\ \A x \in Messages \ {m} : receivers'[x] = receivers[x]
    BY <1>9, <1>11 DEF ReceiverTypes
  <2>2. Phase(m)'
    <3>1. left'[m] = n + 1..N(m) /\ n \in 1..N(m) - 1
      BY <1>1, <1>2, <1>3, <1>11
    <3>2. Receiving(m)'
      BY <1>1, <1>4, <1>9, <1>11, <2>1, <3>1 DEF Receiving, Holds
    <3> QED
      BY <3>2 DEF Phase
  <2>3. ReceiverTypes'
    <3>1. s \in R!Receivers
      BY <1>4 DEF Holds
    <3>2. receivers' \in [Messages -> R!Receivers \cup {NoReceiver}]
      BY <1>9, <1>11, <3>1 DEF ReceiverTypes
    <3> QED
      BY <1>2, <1>9, <1>11, <2>1, <3>2 DEF ReceiverTypes, R!Received
  <2>4. GoesOn(m, n, a)
    BY <1>1, <1>8, <1>9, <1>11 DEF GoesOn
  <2> QED
    BY <1>2, <1>6, <1>8, <1>9, <1>11, <2>1, <2>2, <2>3, <2>4 DEF Handled, OnlyAbout, a
<1> QED
  BY <1>10, <1>11

LEMMA HandleGivenUp ==
  ASSUME R!Uncut, ReceiverTypes, NEW m \in Messages, NEW n \in 1..N(m), GivenUp(m),
         R!ArriveWith(m, n, Size[m])
  PROVE  Handled(m, n, Answer(ChunkAt(m, n)))
<1> DEFINE a == Answer(ChunkAt(m, n))
<1>1. /\ n \in left[m] /\ DOMAIN left' = Messages /\ left'[m] = left[m] \ {n}
      /\ \A x \in Messages \ {m} : left'[x] = left[x]
      /\ R!Receive(m, Sent(m, n)) /\ UNCHANGED <<cut, expired>>
  BY HandlingFrame
<1>2. /\ left[m] \subseteq 2..N(m) /\ n # 1 /\ receivers[m] = NoReceiver /\ inbox[m] = <<>>
  BY <1>1 DEF GivenUp
<1>3. /\ a.chunk = ChunkAt(m, n) /\ a.status = 413 /\ a.body = Piece(m, n)
      /\ Piece(m, n) \in Bodies
  BY <1>2, AnswerFacts, PieceFacts
<1>4. Sent(m, n).start # 1
  <2>1. /\ R!ChunkStart(n) = (n - 1) * ChunkSize + 1 /\ n - 1 \in Nat \ {0}
        /\ ChunkSize \in Nat \ {0}
    BY <1>2, StartFacts, LastReach, BothConstants
  <2>2. \A x, y \in Nat \ {0} : x * y \in Nat /\ x * y > 0
    BY Z3
  <2>3. (n - 1) * ChunkSize > 0 /\ (n - 1) * ChunkSize \in Nat
    BY <2>1, <2>2
  <2> QED
    BY <2>1, <2>3 DEF Sent
<1>5. R!UnknownMessage(m, Sent(m, n))
  BY <1>1, <1>2, <1>4 DEF R!Receive, R!NotChunked, R!FirstChunk, R!FailingChunk, R!NextChunk
<1>6. refused' = refused \cup {m} /\ UNCHANGED <<receivers, stale, polling, inbox>>
  BY <1>5 DEF R!UnknownMessage
<1> HIDE DEF a
<1>7. Phase(m)'
  BY <1>1, <1>2, <1>6 DEF Phase, GivenUp
<1>8. ReceiverTypes'
  BY <1>1, <1>6 DEF ReceiverTypes, R!Received
<1>9. IsRefused(m, n, a)
  BY <1>2, <1>3, <1>6 DEF IsRefused
<1> QED
  BY <1>1, <1>3, <1>6, <1>7, <1>8, <1>9 DEF Handled, OnlyAbout, a

\* A request for the next chunk of its message is handled in one of two ways,
\* and the answer is that of the code.
LEMMA HandleNext ==
  ASSUME R!Uncut, ReceiveInv, NEW m \in Messages, NEW n \in 1..N(m),
         \A q \in 1..n - 1 : q \notin left[m], R!ArriveWith(m, n, Size[m])
  PROVE  Handled(m, n, Answer(ChunkAt(m, n))) /\ ReceiveInv'
<1>1. ReceiverTypes /\ Phase(m) /\ n \in left[m]
  BY DEF ReceiveInv, R!ArriveWith
<1>2. Handled(m, n, Answer(ChunkAt(m, n)))
  BY <1>1, HandleUntouched, HandleReceiving, HandleGivenUp DEF Phase, Delivered
<1>3. \A x \in Messages : Phase(x)'
  BY <1>2, PhaseStays DEF Handled, OnlyAbout, ReceiveInv
<1> QED
  BY <1>2, <1>3 DEF Handled, ReceiveInv

\* Time passes for the receiver: the poll gives up what it has received in part.
LEMMA TimesHold ==
  ASSUME ReceiveInv, R!Poll \/ \E m \in Messages : R!Wait(m)
  PROVE  ReceiveInv' /\ UNCHANGED <<left, inbox, refused>>
<1>1. UNCHANGED <<left, cut, inbox, refused>>
  BY DEF R!Poll, R!Wait
<1>2. CASE R!Poll
  <2>1. /\ receivers' = [m \in Messages |-> IF m \in stale THEN NoReceiver ELSE receivers[m]]
        /\ expired' = expired \cup (stale \cap R!Received) /\ stale' = {}
        /\ polling' \in BOOLEAN
    BY <1>2 DEF R!Poll
  <2>2. ReceiverTypes'
    BY <1>1, <2>1 DEF ReceiveInv, ReceiverTypes, R!Received
  <2>3. ASSUME NEW m \in Messages PROVE Phase(m)'
    <3>1. CASE m \notin stale
      <4>1. receivers'[m] = receivers[m]
        BY <2>1, <3>1
      <4> QED
        BY <1>1, <4>1, PhaseStays DEF ReceiveInv
    <3>2. CASE m \in stale
      <4>1. receivers[m] # NoReceiver /\ receivers'[m] = NoReceiver
        BY <2>1, <3>2 DEF ReceiveInv, ReceiverTypes, R!Received
      <4>2. Receiving(m)
        BY <4>1 DEF ReceiveInv, Phase, Untouched, Delivered, GivenUp
      <4>3. PICK p \in 1..N(m) - 1 : left[m] = p + 1..N(m) /\ inbox[m] = <<>>
        BY <4>2 DEF Receiving
      <4>4. left[m] \subseteq 2..N(m)
        BY <4>3, LastReach
      <4> QED
        BY <1>1, <4>1, <4>3, <4>4 DEF Phase, GivenUp
    <3> QED
      BY <3>1, <3>2
  <2> QED
    BY <1>1, <2>2, <2>3 DEF ReceiveInv
<1>3. CASE \E m \in Messages : R!Wait(m)
  <2>1. ReceiverTypes' /\ receivers' = receivers
    BY <1>1, <1>3 DEF R!Wait, ReceiveInv, ReceiverTypes, R!Received
  <2> QED
    BY <1>1, <2>1, PhaseStays DEF ReceiveInv
<1> QED
  BY <1>1, <1>2, <1>3

-----------------------------------------------------------------------------
(* The sender.                                                             *)

\* What the sender may do here: no listener throws.
Orderly ==
  \/ LoopStep \/ UNCHANGED vars
  \/ \E m \in Messages : SendMessage(m)
  \/ \E k \in Sockets : Destroy(k)
  \/ \E m \in Messages : Refusal(m) \/ \E r \in ChunkRanges(m) : Report(m, r)

\* What is not about the queue: the reports and the ends of connections.
LEMMA OutsideTheQueue ==
  ASSUME SendInv, frames = <<>>, UNCHANGED <<queue, frames, written>>, Awaited'
  PROVE  SendInv'
<1>1. queue = <<>> /\ ToSet(queue') = {} /\ frames' = <<>>
  BY DEF SendInv, Emptied, ToSet
<1>2. WholeChunks'
  BY DEF SendInv, WholeChunks, ChunkAt, Reach
<1>3. Placed'
  BY <1>1 DEF Placed
<1> QED
  BY <1>1, <1>2, <1>3 DEF SendInv, Emptied

LEMMA AwaitedOutside ==
  ASSUME IInv, CarefulInv, SendInv, [Next]_vars,
         \/ UNCHANGED vars
         \/ \E k \in Sockets : Destroy(k)
         \/ \E m \in Messages : Refusal(m) \/ \E r \in ChunkRanges(m) : Report(m, r)
  PROVE  Awaited'
<1>1. senders \subseteq sent /\ Awaited
  BY DEF CarefulInv, QueueShape, SendInv
<1>2. CASE UNCHANGED vars
  BY <1>1, <1>2 DEF Awaited, vars, senderVars, reportVars
<1>3. CASE \E k \in Sockets : Destroy(k)
  BY <1>1, <1>3 DEF Awaited, Destroy, senderVars, reportVars
<1>4. ASSUME NEW m \in Messages, Refusal(m)
      PROVE  Awaited'
  <2>1. m \in senders /\ aborted' = aborted \cup {m} /\ UNCHANGED <<sentBytes, sent>>
    BY <1>4 DEF Refusal, MayReport
  <2>2. senders' = senders \ {m} /\ reported' = reported \cup {m}
    BY <1>4, <2>1 DEF Refusal, Notify, IsComplete
  <2> QED
    BY <1>1, <2>1, <2>2 DEF Awaited
<1>5. ASSUME NEW m \in Messages, NEW r \in ChunkRanges(m), Report(m, r)
      PROVE  Awaited'
  <2>1. /\ m \in senders /\ UNCHANGED <<aborted, sent>>
        /\ \/ senders' = senders \ {m} /\ reported' = reported \cup {m}
           \/ UNCHANGED <<senders, reported>>
    BY <1>5 DEF Report, MayReport, Notify
  <2>2. \A x \in Messages \ {m} : sentBytes'[x] = sentBytes[x]
    <3>1. sentBytes' = sentBytes \/ sentBytes' = [sentBytes EXCEPT ![m] = ackedBytes[m]]
      BY <1>5 DEF Report, ContiguousReport, TooManyReports, IncontiguousReport
    <3>2. DOMAIN sentBytes = Messages
      BY DEF IInv, TypeOK
    <3> QED
      BY <3>1, <3>2
  <2> QED
    BY <1>1, <2>1, <2>2 DEF Awaited
<1> QED
  BY <1>2, <1>3, <1>4, <1>5

\* The end of a turn, of a callback or of a loop.
LEMMA TurnEnds ==
  ASSUME IInv, SendInv,
         UNCHANGED <<senders, aborted, sentBytes, sent, written, reported>>,
         \A m \in ToSet(queue') :
           m \in ToSet(queue) /\ (InTurn(m) => sentBytes[m] < Size[m]),
         frames' # <<>> \/ queue' = <<>>
  PROVE  SendInv'
<1>1. ASSUME NEW m \in ToSet(queue')
      PROVE  \E n \in 0..N(m) : sentBytes'[m] = Reach(m, n) /\ n # N(m)
  <2>1. m \in ToSet(queue) /\ m \in Messages
    <3>1. queue \in Seq(Messages) /\ m \in ToSet(queue)
      BY <1>1 DEF IInv, TypeOK
    <3> QED
      BY <3>1 DEF ToSet
  <2>2. PICK n \in 0..N(m) : sentBytes[m] = Reach(m, n) /\ (n = N(m) => InTurn(m))
    BY <2>1 DEF SendInv, Placed
  <2>3. n # N(m)
    <3> SUFFICES ASSUME n = N(m) PROVE FALSE
      OBVIOUS
    <3>1. sentBytes[m] < Size[m] /\ sentBytes[m] = Size[m] /\ Size[m] \in Nat
      BY <1>1, <2>1, <2>2, LastReach, BodyType
    <3> QED
      BY <3>1
  <2> QED
    BY <2>2, <2>3
<1>2. Placed'
  BY <1>1 DEF Placed, N, Reach
<1>3. WholeChunks' /\ Awaited'
  BY DEF SendInv, WholeChunks, Awaited, ChunkAt, Reach
<1>4. Emptied'
  BY DEF Emptied
<1> QED
  BY <1>2, <1>3, <1>4 DEF SendInv

LEMMA TurnEndsWell ==
  ASSUME IInv, CarefulInv, SendInv,
         LoopEnds \/ FailedReturns \/ ChunkSent \/ CallbackReturns
  PROVE  SendInv'
<1>1. UNCHANGED <<senders, aborted, sentBytes, sent, written, reported>>
  BY DEF LoopEnds, FailedReturns, ChunkSent, CallbackReturns, senderVars, reportVars
<1>2. CASE LoopEnds
  <2>1. queue' = queue /\ queue = <<>> /\ ToSet(queue') = {}
    BY <1>2 DEF LoopEnds, ToSet
  <2> QED
    BY <1>1, <2>1, TurnEnds
<1>3. CASE FailedReturns \/ ChunkSent \/ CallbackReturns
  <2>1. PICK c \in Messages : c = Current
    BY <1>3, FramesFacts DEF FailedReturns, ChunkSent, CallbackReturns, Running, IInv
  <2>2. frames' # <<>>
    <3>1. frames # <<>> /\ \E at \in {"loop", "done"} : GoTo(at, c)
      BY <1>3, <2>1 DEF FailedReturns, ChunkSent, CallbackReturns, Running
    <3> QED
      BY <3>1, LoopGoes DEF CarefulInv, Calls, Running
  <2>3. queue \in Seq(Messages) /\ NoRepetition(queue)
    BY DEF IInv, TypeOK, CarefulInv, QueueShape
  <2>4. CASE CallbackReturns
    <3>1. Running("done") /\ queue' = queue
      BY <2>4 DEF CallbackReturns
    <3>2. \A m : ~InTurn(m)
      BY <3>1, OnePoint DEF InTurn
    <3> QED
      BY <1>1, <2>2, <3>1, <3>2, TurnEnds
  <2>5. CASE ChunkSent /\ ~IsSendComplete(c)
    <3>1. Running("sent") /\ queue # <<>>
      BY <2>5 DEF ChunkSent, CarefulInv, FramesShape
    <3>2. queue' = IF Len(queue) > 1 THEN Append(Tail(queue), Head(queue)) ELSE queue
      BY <2>1, <2>5 DEF ChunkSent
    <3>3. ToSet(queue') = ToSet(queue)
      BY <2>3, <3>1, <3>2, RotatedQueue
    <3>4. \A m : InTurn(m) => sentBytes[m] < Size[m]
      <4>1. sentBytes[c] \in Nat /\ Size[c] \in Nat
        BY ConstantFacts DEF IInv, TypeOK
      <4> QED
        BY <2>1, <2>5, <4>1 DEF IsSendComplete, InTurn
    <3> QED
      BY <1>1, <2>2, <3>3, <3>4, TurnEnds
  <2>6. CASE FailedReturns \/ (ChunkSent /\ IsSendComplete(c))
    <3>1. /\ Running("sent") \/ Running("failed")
          /\ queue' = Shift(queue) /\ queue # <<>> /\ Head(queue) = c
      BY <2>1, <2>6 DEF FailedReturns, ChunkSent, CarefulInv, FramesShape
    <3>2. queue' = Tail(queue)
      BY <3>1 DEF Shift
    <3>3. ToSet(queue') = ToSet(queue) \ {c}
      BY <2>3, <3>1, <3>2, TailOfQueue
    <3>4. \A m : m # c => ~InTurn(m)
      BY <2>1 DEF InTurn
    <3> QED
      BY <1>1, <2>2, <3>3, <3>4, TurnEnds
  <2> QED
    BY <1>3, <2>4, <2>5, <2>6
<1> QED
  BY <1>2, <1>3

\* A sender goes on with the next chunk of its message.
LEMMA NextFacts ==
  ASSUME TypeOK, NEW m \in Messages, m \notin aborted,
         NEW n \in 0..N(m) - 1, sentBytes[m] = Reach(m, n)
  PROVE  /\ n + 1 \in 1..N(m) /\ NextEnd(m) = Reach(m, n + 1)
         /\ NextChunk(m) = ChunkAt(m, n + 1)
<1>1. /\ ChunkSize \in Nat \ {0} /\ Size[m] \in Nat /\ N(m) \in Nat \ {0} /\ n \in Nat
      /\ Reach(m, n) = n * ChunkSize /\ n * ChunkSize \in Nat
  BY BothConstants, BodyType, LastReach
<1>2. n + 1 \in Nat \ {0} /\ n + 1 - 1 = n /\ n + 1 \in 1..N(m)
  BY <1>1
<1>3. (n + 1) * ChunkSize \in Nat /\ n * ChunkSize + ChunkSize = (n + 1) * ChunkSize
  <2>1. \A i \in Nat \ {0} : (i - 1) * ChunkSize + ChunkSize = i * ChunkSize /\ i * ChunkSize \in Nat
    BY <1>1, PreviousMultiple
  <2> QED
    BY <1>2, <2>1
<1>4. NextEnd(m) = Reach(m, n + 1)
  <2>1. NextEnd(m) = Min({(n + 1) * ChunkSize, Size[m]})
    BY <1>1, <1>3 DEF NextEnd
  <2> QED
    BY <1>1, <1>3, <2>1, SmallerOfTwo DEF Reach
<1>5. R!ChunkStart(n + 1) = sentBytes[m] + 1
  BY <1>1, <1>2 DEF R!ChunkStart
<1> QED
  BY <1>2, <1>4, <1>5 DEF NextChunk, ChunkAt

LEMMA TurnGoes ==
  ASSUME IInv, CarefulInv, SendInv, SendChunk \/ SocketUnavailable
  PROVE  SendInv'
<1>0. PICK c \in Messages : c = Head(queue)
  BY QueueFacts DEF SendChunk, SocketUnavailable, IInv
<1>1. /\ Running("loop") /\ frames # <<>> /\ queue # <<>> /\ GetNextChunk(c)
      /\ UNCHANGED <<senders, aborted, sent, reported>>
      /\ written' = Append(written, NextChunk(c)) \/ written' = written
      /\ GoTo("sent", c) \/ GoTo("failed", c)
  BY <1>0 DEF SendChunk, SocketUnavailable, Running, reportVars
<1>2. queue \in Seq(Messages) /\ NoRepetition(queue) /\ ToSet(queue) \subseteq sent \ aborted
  BY DEF IInv, TypeOK, CarefulInv, QueueShape
<1>3. c \in ToSet(queue) /\ c \in sent /\ c \notin aborted /\ ToSet(queue) \subseteq Messages
  BY <1>0, <1>1, <1>2, TailOfQueue DEF ToSet
<1>4. queue' = queue
  BY <1>0, <1>3 DEF SendChunk, SocketUnavailable, WithoutAborted
<1>5. /\ \E a \in {"sent", "failed"} : Running(a)'
      /\ frames' # <<>> /\ Current' = c
  BY <1>1, LoopGoes DEF CarefulInv, Calls, Running
<1>6. \A m : ~InTurn(m)
  BY <1>1, OnePoint DEF InTurn
<1>7. PICK n \in 0..N(c) - 1 : sentBytes[c] = Reach(c, n)
  <2>1. PICK n \in 0..N(c) : sentBytes[c] = Reach(c, n) /\ n # N(c)
    BY <1>3, <1>6 DEF SendInv, Placed
  <2>2. n \in 0..N(c) - 1
    BY <2>1, LastReach
  <2> QED
    BY <2>1, <2>2
<1>8. n + 1 \in 1..N(c) /\ NextEnd(c) = Reach(c, n + 1) /\ NextChunk(c) = ChunkAt(c, n + 1)
  BY <1>3, <1>7, NextFacts DEF IInv
<1>9. /\ sentBytes'[c] = Reach(c, n + 1)
      /\ \A m \in Messages \ {c} : sentBytes'[m] = sentBytes[m]
  BY <1>1, <1>3, <1>8 DEF GetNextChunk, IInv, TypeOK
<1>10. WholeChunks'
  <2>1. CASE written' = written
    BY <2>1 DEF SendInv, WholeChunks, ChunkAt, Reach
  <2>2. CASE written' = Append(written, NextChunk(c))
    <3>1. sentBytes[c] <= Size[c]
      BY DEF IInv, Position
    <3>2. /\ written'[Len(written) + 1] = ChunkAt(c, n + 1)
          /\ \A i \in DOMAIN written : written'[i] = written[i]
          /\ DOMAIN written' = DOMAIN written \cup {Len(written) + 1}
      BY <1>8, <2>2, <3>1, NewChunk DEF IInv
    <3>3. ChunkAt(c, n + 1).msg = c
      BY DEF ChunkAt
    <3>4. ASSUME NEW i \in DOMAIN written'
          PROVE  \E p \in 1..N(written'[i].msg) : written'[i] = ChunkAt(written'[i].msg, p)
      <4>1. CASE i = Len(written) + 1
        BY <1>8, <3>2, <3>3, <4>1
      <4>2. CASE i \in DOMAIN written
        BY <3>2, <4>2 DEF SendInv, WholeChunks
      <4> QED
        BY <3>2, <4>1, <4>2
    <3> QED
      BY <3>4 DEF WholeChunks, N, ChunkAt, Reach
  <2> QED
    BY <1>1, <2>1, <2>2
<1>11. Placed'
  <2>1. \A m \in Messages : N(m)' = N(m) /\ \A p : Reach(m, p)' = Reach(m, p)
    BY DEF N, Reach
  <2>2. InTurn(c)'
    BY <1>5 DEF InTurn
  <2>3. ASSUME NEW m \in ToSet(queue')
        PROVE  \E p \in 0..N(m) : sentBytes'[m] = Reach(m, p) /\ (p = N(m) => InTurn(m)')
    <3>1. m \in ToSet(queue) /\ m \in Messages
      BY <1>3, <1>4
    <3>2. CASE m = c
      <4>1. n + 1 \in 0..N(c)
        BY <1>8
      <4> QED
        BY <1>9, <2>2, <3>2, <4>1
    <3>3. CASE m # c
      <4>1. PICK p \in 0..N(m) : sentBytes[m] = Reach(m, p) /\ p # N(m)
        BY <1>6, <3>1 DEF SendInv, Placed
      <4> QED
        BY <1>9, <3>1, <3>3, <4>1
    <3> QED
      BY <3>2, <3>3
  <2> QED
    BY <2>1, <2>3 DEF Placed, N, Reach
<1>12. Awaited'
  <2>1. \A m \in Messages \ sent : m # c
    BY <1>3
  <2> QED
    BY <1>1, <1>9, <2>1 DEF SendInv, Awaited
<1> QED
  BY <1>5, <1>10, <1>11, <1>12 DEF SendInv, Emptied

LEMMA MessageSent ==
  ASSUME Careful, IInv, CarefulInv, SendInv, NEW c \in Messages, SendMessage(c)
  PROVE  SendInv'
<1>1. /\ c \notin sent /\ sent' = sent \cup {c} /\ queue' = Append(queue, c)
      /\ senders' = senders \cup {c} /\ UNCHANGED <<sentBytes, aborted, written, reported>>
      /\ frames' = Append(frames, [at |-> "loop", msg |-> c])
  BY DEF SendMessage, senderVars, reportVars
<1>2. queue \in Seq(Messages) /\ NoRepetition(queue) /\ c \notin ToSet(queue)
  BY <1>1 DEF IInv, TypeOK, CarefulInv, QueueShape
<1>3. ToSet(queue') = ToSet(queue) \cup {c} /\ ToSet(queue) \subseteq Messages
  <2>1. ToSet(Append(queue, c)) = ToSet(queue) \cup {c}
    BY <1>2, AppendToQueue
  <2> QED
    BY <1>1, <1>2, <2>1 DEF ToSet
<1>4. \A m : ~InTurn(m)
  <2>1. frames = <<>> \/ Running("done")
    BY CarefulPoints DEF SendMessage, Idle
  <2> QED
    BY <2>1, OnePoint DEF InTurn, Running
<1>5. frames' # <<>>
  <2> DEFINE f == [at |-> "loop", msg |-> c]
  <2>1. frames \in Seq(Frames) /\ f \in Frames
    BY DEF IInv, TypeOK, Frames
  <2>2. frames' = Append(frames, f)
    BY <1>1
  <2> HIDE DEF f
  <2>3. Len(frames') = Len(frames) + 1 /\ Len(frames) \in Nat
    BY <2>1, <2>2, AppendProperties, LenProperties
  <2>4. Len(<<>>) = 0
    OBVIOUS
  <2> QED
    BY <2>3, <2>4
<1>6. WholeChunks'
  BY <1>1 DEF SendInv, WholeChunks, ChunkAt, Reach
<1>7. Placed'
  <2>1. ASSUME NEW m \in ToSet(queue')
        PROVE  \E p \in 0..N(m) : sentBytes'[m] = Reach(m, p) /\ p # N(m)
    <3>1. CASE m = c
      <4>1. sentBytes[c] = 0 /\ Reach(c, 0) = 0 /\ 0 \in 0..N(c) /\ 0 # N(c)
        BY <1>1, LastReach DEF SendInv, Awaited
      <4> QED
        BY <1>1, <3>1, <4>1
    <3>2. CASE m \in ToSet(queue)
      BY <1>1, <1>4, <3>2 DEF SendInv, Placed
    <3> QED
      BY <1>3, <3>1, <3>2
  <2> QED
    BY <2>1 DEF Placed, N, Reach
<1>8. Awaited'
  BY <1>1 DEF SendInv, Awaited
<1> QED
  BY <1>5, <1>6, <1>7, <1>8 DEF SendInv, Emptied

\* The invariant of the sender is kept by what it does here.
LEMMA SendStep ==
  ASSUME Careful, IInv, CarefulInv, SendInv, Orderly
  PROVE  [Next]_vars /\ SendInv'
<1>1. [Next]_vars
  BY DEF Orderly, Next
<1> SUFFICES SendInv'
  BY <1>1
<1>2. CASE LoopStep
  BY <1>2, TurnEndsWell, TurnGoes DEF LoopStep
<1>3. CASE \E m \in Messages : SendMessage(m)
  BY <1>3, MessageSent
<1>4. CASE UNCHANGED vars
  BY <1>4 DEF SendInv, WholeChunks, Placed, Emptied, Awaited, InTurn, Running, Current,
     ChunkAt, Reach, vars, senderVars, reportVars
<1>5. CASE \/ \E k \in Sockets : Destroy(k)
           \/ \E m \in Messages : Refusal(m) \/ \E r \in ChunkRanges(m) : Report(m, r)
  <2>1. frames = <<>> /\ UNCHANGED <<queue, frames, written>>
    BY <1>5 DEF Destroy, Refusal, Report, MayReport, Idle
  <2>2. Awaited'
    BY <1>1, <1>5, AwaitedOutside
  <2> QED
    BY <2>1, <2>2, OutsideTheQueue
<1> QED
  BY <1>2, <1>3, <1>4, <1>5 DEF Orderly

-----------------------------------------------------------------------------
(* The connections.                                                        *)

\* What only grows: the chunks written, the sessions removed, the messages
\* refused and those delivered.
Growing ==
  /\ DOMAIN written \subseteq DOMAIN written'
  /\ \A i \in DOMAIN written : written'[i] = written[i]
  /\ removed \subseteq removed' /\ refused \subseteq refused'
  /\ \A m \in Messages : inbox[m] # <<>> => inbox'[m] # <<>>

LEMMA WrittenGrows ==
  ASSUME IInv, [Next]_vars
  PROVE  /\ DOMAIN written \subseteq DOMAIN written'
         /\ \A i \in DOMAIN written : written'[i] = written[i]
<1>1. CASE written' = written
  BY <1>1
<1>2. CASE SendChunk
  <2>1. PICK c \in Messages : written' = Append(written, NextChunk(c))
    BY <1>2, QueueFacts DEF SendChunk, IInv
  <2>2. sentBytes[c] <= Size[c]
    BY DEF IInv, Position
  <2> QED
    BY <2>1, <2>2, NewChunk DEF IInv
<1>3. written' = written \/ SendChunk
  BY StepCases DEF Quiet, SocketUnavailable, Destroy, Refusal, Report
<1> QED
  BY <1>1, <1>2, <1>3

LEMMA Kept ==
  ASSUME TypeOK, Growing, NEW k
  PROVE  Seq(Answers(k)) \subseteq Seq(Answers(k)') /\ Seq(Notices) \subseteq Seq(Notices')
<1>1. \A i \in DOMAIN written : written[i].msg \in Messages
  BY WrittenFacts
<1>2. \A a \in Answers(k) : a.chunk.msg \in Messages
  BY <1>1 DEF Answers
<1>3. {written[i] : i \in DOMAIN written} \subseteq {written'[i] : i \in DOMAIN written'}
  BY DEF Growing
<1>4. \A m \in Messages : \A e : TellsTheTruth(m, e) => TellsTheTruth(m, e)'
  BY DEF TellsTheTruth, Growing
<1>5. Answers(k) \subseteq Answers(k)'
  <2> SUFFICES ASSUME NEW a \in Answers(k) PROVE a \in Answers(k)'
    OBVIOUS
  <2>1. /\ a \in [chunk : {written[i] : i \in DOMAIN written}, body : Bodies,
                  status : {200, 413, 481}]
        /\ a.status = 481 => k \in removed
        /\ a.status # 481 => ReportEnd(a) = a.chunk.end
        /\ a.status = 413 => a.chunk.msg \in refused
        /\ a.status = 200 => TellsTheTruth(a.chunk.msg, a.chunk.end)
    BY DEF Answers
  <2>2. a \in [chunk : {written'[i] : i \in DOMAIN written'}, body : Bodies,
               status : {200, 413, 481}]
    BY <1>3, <2>1
  <2>3. a.status = 200 => TellsTheTruth(a.chunk.msg, a.chunk.end)'
    BY <1>2, <1>4, <2>1
  <2>4. ReportEnd(a)' = ReportEnd(a)
    BY DEF ReportEnd, StringLength
  <2> QED
    BY <2>1, <2>2, <2>3, <2>4 DEF Answers, Growing
<1>6. Notices \subseteq Notices'
  <2>1. \A m : ChunkRanges(m) \subseteq ChunkRanges(m)'
    BY DEF ChunkRanges, ChunksOf, Growing
  <2> QED
    BY <1>4, <2>1 DEF Notices, Growing
<1> QED
  BY <1>5, <1>6

\* What has been read stays, as it has been written.
LEMMA ReadStays ==
  ASSUME TypeOK, TypeOK', Growing, NEW k, taken[k] \in 0..Len(written), taken'[k] = taken[k]
  PROVE  /\ Read(k)' = Read(k) /\ taken'[k] \in 0..Len(written')
         /\ \A i \in Read(k) : written'[i] = written[i]
<1>0. DOMAIN written = 1..Len(written) /\ Len(written) \in Nat
  BY DEF TypeOK
<1>1. \A i \in 1..taken[k] : written'[i] = written[i] /\ i \in DOMAIN written
  BY <1>0 DEF Growing
<1>2. Read(k)' = Read(k) /\ \A i \in Read(k) : written'[i] = written[i]
  BY <1>1 DEF Read
<1>3. taken[k] \in 0..Len(written')
  <2>1. DOMAIN written' = 1..Len(written') /\ Len(written') \in Nat
    BY DEF TypeOK
  <2> QED
    BY <1>0, <2>1 DEF Growing
<1> QED
  BY <1>2, <1>3

LEMMA WireTypesStep ==
  ASSUME TypeOK, TypeOK', WireTypes, Growing,
         DOMAIN taken' = Sockets, DOMAIN owed' = Sockets, DOMAIN back' = Sockets,
         removed' \subseteq Removable, crashed' \in BOOLEAN,
         \A k \in Sockets :
           \/ taken'[k] = taken[k] /\ owed'[k] = owed[k] /\ back'[k] = back[k]
           \/ Connection(k)'
  PROVE  WireTypes'
<1>1. ASSUME NEW k \in Sockets, taken'[k] = taken[k], owed'[k] = owed[k], back'[k] = back[k]
      PROVE  Connection(k)'
  <2>1. Connection(k)
    BY DEF WireTypes
  <2>2. Read(k)' = Read(k) /\ taken'[k] \in 0..Len(written')
    BY <1>1, <2>1, ReadStays DEF Connection
  <2>3. Seq(Answers(k)) \subseteq Seq(Answers(k)') /\ Seq(Notices) \subseteq Seq(Notices')
    BY Kept
  <2> QED
    BY <1>1, <2>1, <2>2, <2>3 DEF Connection, Counts
<1> QED
  BY <1>1 DEF WireTypes

\* Steps that leave the connections alone.
LEMMA WireKept ==
  ASSUME TypeOK, TypeOK', WireInv, Growing,
         UNCHANGED <<taken, owed, back, left, acked>>,
         removed' \subseteq Removable, crashed' \in BOOLEAN
  PROVE  WireInv'
<1>1. WireTypes'
  BY WireTypesStep DEF WireInv, WireTypes
<1>2. ReadArrives'
  BY ReadStays DEF WireInv, WireTypes, Connection, ReadArrives, Growing, Index
<1>3. AckedTruly'
  BY DEF WireInv, AckedTruly, TellsTheTruth, Growing
<1> QED
  BY <1>1, <1>2, <1>3 DEF WireInv

\* The chunk a request carries: the first one that has not been read.
LEMMA FirstUnread ==
  ASSUME TypeOK, NEW k \in Sockets, taken[k] \in 0..Len(written), Unread(k) # {},
         NEW i, i = Min(Unread(k)), taken'[k] = i, written' = written
  PROVE  /\ i \in DOMAIN written /\ SocketOf[written[i].msg] = k
         /\ taken'[k] \in 0..Len(written)
         /\ Read(k)' = Read(k) \cup {i} /\ i \notin Read(k)
         /\ \A j \in DOMAIN written : j < i /\ SocketOf[written[j].msg] = k => j \in Read(k)
         /\ IsFiniteSet(Read(k)) /\ Cardinality(Read(k)') = Cardinality(Read(k)) + 1
<1>1. DOMAIN written = 1..Len(written) /\ Len(written) \in Nat /\ taken[k] \in Nat
  BY DEF TypeOK
<1>2. i \in Unread(k) /\ \A j \in Unread(k) : i <= j
  <2>1. Unread(k) \in SUBSET Nat
    BY <1>1 DEF Unread
  <2> QED
    BY <2>1, MinOfNaturals
<1>3. i \in 1..Len(written) /\ i > taken[k] /\ SocketOf[written[i].msg] = k
  BY <1>1, <1>2 DEF Unread
<1>4. \A j \in DOMAIN written : j < i /\ SocketOf[written[j].msg] = k => j \in Read(k)
  <2> SUFFICES ASSUME NEW j \in DOMAIN written, j < i, SocketOf[written[j].msg] = k
               PROVE  j \in Read(k)
    OBVIOUS
  <2>1. j \in 1..Len(written) /\ i \in Nat /\ j \notin Unread(k)
    BY <1>1, <1>2, <1>3
  <2>2. ~(j > taken[k])
    BY <2>1 DEF Unread
  <2>3. j \in 1..taken[k]
    BY <1>1, <2>1, <2>2
  <2> QED
    BY <2>3 DEF Read
<1>5. Read(k)' = {j \in 1..i : SocketOf[written[j].msg] = k}
  BY DEF Read
<1>6. Read(k)' = Read(k) \cup {i} /\ i \notin Read(k)
  <2>1. \A j \in 1..i : SocketOf[written[j].msg] = k => j \in Read(k) \cup {i}
    BY <1>1, <1>3, <1>4
  <2>2. Read(k) \subseteq 1..i /\ i \in 1..i /\ i \notin Read(k)
    BY <1>1, <1>3 DEF Read
  <2>3. \A j \in Read(k) : SocketOf[written[j].msg] = k
    BY DEF Read
  <2> QED
    BY <1>3, <1>5, <2>1, <2>2, <2>3
<1>7. IsFiniteSet(Read(k))
  <2>1. \A t \in Nat : IsFiniteSet(1..t)
    BY FS_Interval
  <2>2. Read(k) \subseteq 1..taken[k]
    BY DEF Read
  <2> QED
    BY <1>1, <2>1, <2>2, FS_Subset
<1>8. Cardinality(Read(k) \cup {i}) = Cardinality(Read(k)) + 1
  BY <1>6, <1>7, FS_AddElement
<1> QED
  BY <1>1, <1>3, <1>4, <1>6, <1>7, <1>8

\* It is the next one of its message, as the chunks of a message follow each
\* other and every one before it has arrived.
LEMMA NextOfMessage ==
  ASSUME IInv, SendInv, ReadArrives, NEW k \in Sockets \ removed,
         NEW i \in DOMAIN written, SocketOf[written[i].msg] = k,
         \A j \in DOMAIN written : j < i /\ SocketOf[written[j].msg] = k => j \in Read(k),
         NEW m \in Messages, m = written[i].msg,
         NEW n \in 1..N(m), written[i] = ChunkAt(m, n)
  PROVE  \A q \in 1..n - 1 : q \notin left[m]
<1> SUFFICES ASSUME NEW q \in 1..n - 1 PROVE q \notin left[m]
  OBVIOUS
<1>1. q \in 1..N(m) /\ q < n /\ q \in Nat /\ n \in Nat
  BY LastReach
<1>2. written[i].flag # "abort"
  BY DEF ChunkAt
<1>3. i \in ChunksOf(m)
  BY <1>2 DEF ChunksOf
<1>4. R!ChunkStart(q) \in 1..written[i].start - 1
  <2>1. /\ \A p \in 1..N(m) : R!ChunkStart(p) \in Nat \ {0}
                              /\ R!ChunkStart(p) = (p - 1) * ChunkSize + 1
        /\ ChunkSize \in Nat \ {0}
    BY StartFacts, BothConstants
  <2>2. q - 1 \in Nat /\ n - 1 \in Nat /\ q - 1 < n - 1
    BY <1>1
  <2>3. /\ (q - 1) * ChunkSize \in Nat /\ (n - 1) * ChunkSize \in Nat
        /\ (q - 1) * ChunkSize + ChunkSize <= (n - 1) * ChunkSize
    BY <2>1, <2>2, Multiples
  <2>4. written[i].start = R!ChunkStart(n)
    BY DEF ChunkAt
  <2> QED
    BY <1>1, <2>1, <2>3, <2>4
<1>5. PICK j \in ChunksOf(m) : j < i /\ R!ChunkStart(q) \in Bytes(written[j])
  <2>1. \A b \in 1..written[i].start - 1 :
          \E j \in {x \in ChunksOf(m) : x < i} : b \in Bytes(written[j])
    BY <1>3 DEF IInv, ChunksFollow
  <2>2. \E j \in {x \in ChunksOf(m) : x < i} : R!ChunkStart(q) \in Bytes(written[j])
    BY <1>4, <2>1
  <2> QED
    BY <2>2
<1>6. j \in DOMAIN written /\ written[j].msg = m /\ j \in Read(k)
  BY <1>5 DEF ChunksOf
<1>7. PICK p \in 1..N(m) : written[j] = ChunkAt(m, p)
  BY <1>6 DEF SendInv, WholeChunks
<1>8. p = q
  BY <1>1, <1>5, <1>7, OneChunk
<1>9. Index(written[j]) = q
  BY <1>7, <1>8, IndexFacts
<1> QED
  BY <1>6, <1>9 DEF ReadArrives

\* The answer to a request of a session names its chunk and tells the truth.
LEMMA AnswerKept ==
  ASSUME Narrow, TypeOK, NEW k, NEW i \in DOMAIN written, UNCHANGED written,
         NEW m \in Messages, NEW n \in 1..N(m), written[i] = ChunkAt(m, n),
         NEW a, Handled(m, n, a), a = Answer(ChunkAt(m, n)),
         inbox \in [Messages -> Seq(Bodies)]
  PROVE  a \in Answers(k)'
<1>1. /\ a.chunk = ChunkAt(m, n) /\ a.body \in Bodies /\ a.chunk.msg = m
      /\ a.chunk.end = Reach(m, n) /\ a.chunk = written[i]
  BY DEF Handled, ChunkAt
<1>2. a.status \in {200, 413} /\ (a.status = 413 => m \in refused')
  BY DEF Handled, GoesOn, IsRefused
<1>3. ReportEnd(a) = a.chunk.end
  <2>1. a.body = Piece(m, n) \/ (n = N(m) /\ a.body # <<>>)
    BY DEF Handled, GoesOn, IsRefused
  <2> QED
    BY <1>1, <2>1, EndNamed
<1>4. a.status = 200 => TellsTheTruth(m, a.chunk.end)'
  <2> SUFFICES ASSUME a.status = 200, Reach(m, n) = Size[m]
               PROVE  inbox'[m] # <<>>
    BY <1>1 DEF TellsTheTruth
  <2>1. GoesOn(m, n, a)
    BY DEF Handled, IsRefused
  <2>2. n = N(m)
    <3> SUFFICES ASSUME n # N(m) PROVE FALSE
      OBVIOUS
    <3>1. n \in 0..N(m) - 1 /\ n > 0
      BY LastReach
    <3>2. Reach(m, n) < Size[m] /\ Size[m] \in Nat
      BY <3>1, LastReach, BodyType
    <3> QED
      BY <3>2
  <2>3. PICK b \in Bodies : inbox' = [inbox EXCEPT ![m] = Append(@, b)]
    BY <2>1, <2>2 DEF GoesOn
  <2> QED
    BY <2>3, InboxType
<1>5. a \in [chunk : {written[j] : j \in DOMAIN written}, body : Bodies,
             status : {200, 413, 481}]
  <2>1. a = [chunk |-> a.chunk, body |-> a.body, status |-> a.status]
    BY DEF Answer
  <2> QED
    BY <1>1, <1>2, <2>1
<1>6. ReportEnd(a)' = ReportEnd(a)
  BY DEF ReportEnd, StringLength
<1> QED
  BY <1>1, <1>2, <1>3, <1>4, <1>5, <1>6 DEF Answers

\* The sender's own invariant is kept by every step of the sender.
LEMMA SenderKept ==
  ASSUME IInv, [Next]_vars
  PROVE  IInv'
<1>1. TypeOK' /\ Counted'
  BY TypeStep
<1> QED
  BY <1>1, ChunksStep, ReportsStep DEF IInv

\* One more answer waits for one more request that has been read.
LEMMA OneMoreAnswer ==
  ASSUME TypeOK, WireTypes, Growing, UNCHANGED <<written, back>>,
         NEW k \in Sockets, Unread(k) # {}, taken' = [taken EXCEPT ![k] = Min(Unread(k))],
         NEW a, a \in Answers(k)', owed' = [owed EXCEPT ![k] = Append(@, a)]
  PROVE  /\ DOMAIN taken' = Sockets /\ DOMAIN owed' = Sockets /\ Connection(k)'
         /\ \A x \in Sockets \ {k} :
              taken'[x] = taken[x] /\ owed'[x] = owed[x] /\ back'[x] = back[x]
<1> DEFINE o == owed[k]
           b == back[k]
<1>1. /\ DOMAIN taken' = Sockets /\ DOMAIN owed' = Sockets
      /\ taken'[k] = Min(Unread(k)) /\ owed'[k] = Append(o, a) /\ back'[k] = b
      /\ \A x \in Sockets \ {k} :
           taken'[x] = taken[x] /\ owed'[x] = owed[x] /\ back'[x] = back[x]
  BY DEF WireTypes
<1>2. Connection(k)
  BY DEF WireTypes
<1>3. /\ taken'[k] \in 0..Len(written) /\ IsFiniteSet(Read(k))
      /\ Cardinality(Read(k)') = Cardinality(Read(k)) + 1
  BY <1>1, <1>2, FirstUnread DEF Connection
<1>4. o \in Seq(Answers(k)') /\ b \in Seq(Notices')
  BY <1>2, Kept DEF Connection
<1>5. Append(o, a) \in Seq(Answers(k)') /\ Len(Append(o, a)) = Len(o) + 1
  BY <1>4, AppendProperties
<1>6. Len(o) \in Nat /\ Len(b) \in Nat /\ Len(o) + Len(b) <= Cardinality(Read(k))
  BY <1>2, <1>4, LenProperties DEF Connection, Counts
<1>7. Cardinality(Read(k)) \in Nat
  BY <1>3, FS_CardinalityType
<1> HIDE DEF o, b
<1>8. Len(owed'[k]) + Len(back'[k]) <= Cardinality(Read(k)')
  BY <1>1, <1>3, <1>5, <1>6, <1>7
<1> QED
  BY <1>1, <1>3, <1>4, <1>5, <1>8 DEF Connection, Counts

\* What a step does to the messages: nothing, or one is delivered or refused.
Progress ==
  \/ UNCHANGED <<inbox, refused>>
  \/ \E m \in Messages :
       \/ /\ m \notin refused /\ inbox[m] = <<>> /\ refused' = refused
          /\ \E b \in Bodies : inbox' = [inbox EXCEPT ![m] = Append(@, b)]
       \/ inbox[m] = <<>> /\ inbox' = inbox /\ refused' = refused \cup {m}

LEMMA ProgressGrows ==
  ASSUME Progress, inbox \in [Messages -> Seq(Bodies)]
  PROVE  refused \subseteq refused' /\ \A m \in Messages : inbox[m] # <<>> => inbox'[m] # <<>>
<1>1. ASSUME NEW m \in Messages, NEW b \in Bodies, inbox[m] = <<>>,
             inbox' = [inbox EXCEPT ![m] = Append(@, b)]
      PROVE  \A x \in Messages : inbox[x] # <<>> => inbox'[x] # <<>>
  BY <1>1, InboxType
<1> QED
  BY <1>1 DEF Progress

LEMMA HandledProgress ==
  ASSUME NEW m \in Messages, NEW n, NEW a, Handled(m, n, a)
  PROVE  Progress
BY DEF Handled, GoesOn, IsRefused, Progress

LEMMA RequestHolds ==
  ASSUME Fitting, BothInv, NEW k \in Sockets, Request(k)
  PROVE  UNCHANGED vars /\ Progress /\ ReceiveInv' /\ WireInv'
<1> DEFINE i == Min(Unread(k))
           c == written[i]
<1>1. /\ UNCHANGED <<vars, back, removed, crashed>> /\ Unread(k) # {} /\ Handle(k, c)
      /\ taken' = [taken EXCEPT ![k] = i]
  BY DEF Request, MayRead
<1>2. /\ TypeOK /\ TypeOK' /\ WireTypes /\ Connection(k) /\ UNCHANGED <<written, acked>>
      /\ ReadArrives /\ WholeChunks /\ ReceiverTypes
  <2>1. TypeOK /\ TypeOK'
    BY <1>1, SenderKept DEF BothInv, IInv
  <2> QED
    BY <1>1, <2>1 DEF BothInv, WireInv, WireTypes, SendInv, ReceiveInv, vars, reportVars
<1>3. taken'[k] = i
  BY <1>1, <1>2 DEF WireTypes
<1>4. /\ i \in DOMAIN written /\ SocketOf[c.msg] = k /\ Read(k)' = Read(k) \cup {i}
      /\ \A j \in DOMAIN written : j < i /\ SocketOf[written[j].msg] = k => j \in Read(k)
  <2> HIDE DEF i
  <2>1. i = Min(Unread(k))
    BY DEF i
  <2> QED
    BY <1>1, <1>2, <1>3, <2>1, FirstUnread DEF Connection
<1> HIDE DEF i
<1>5. PICK m \in Messages : m = c.msg
  BY <1>2, <1>4, WrittenFacts
<1>6. PICK n \in 1..N(m) : c = ChunkAt(m, n)
  BY <1>2, <1>4, <1>5 DEF WholeChunks
<1>7. Index(c) = n
  BY <1>6, IndexFacts
<1>8. CASE k \in removed
  <2>1. UNCHANGED receiveVars /\ owed' = [owed EXCEPT ![k] = Append(@, NoSession(c))]
    BY <1>1, <1>8 DEF Handle
  <2>2. Growing
    BY <1>1, <1>2, <2>1 DEF Growing, receiveVars
  <2>3. NoSession(c) \in Answers(k)'
    <3>1. <<>> \in Bodies
      BY DEF Bodies
    <3> QED
      BY <1>1, <1>2, <1>4, <1>8, <3>1 DEF Answers, NoSession
  <2>4. /\ DOMAIN taken' = Sockets /\ DOMAIN owed' = Sockets /\ Connection(k)'
        /\ \A x \in Sockets \ {k} :
             taken'[x] = taken[x] /\ owed'[x] = owed[x] /\ back'[x] = back[x]
    <3> DEFINE a == NoSession(c)
    <3>1. a \in Answers(k)' /\ owed' = [owed EXCEPT ![k] = Append(@, a)]
      BY <2>1, <2>3
    <3> HIDE DEF a, c
    <3> QED
      BY <1>1, <1>2, <2>2, <3>1, OneMoreAnswer DEF i
  <2>5. WireTypes'
    BY <1>1, <1>2, <2>2, <2>4, WireTypesStep DEF WireTypes
  <2>6. ReadArrives'
    <3>1. \A x \in Sockets \ removed : x # k /\ Read(x)' = Read(x)
      BY <1>2, <1>8, <2>2, <2>4, ReadStays DEF WireTypes, Connection
    <3> QED
      BY <1>1, <1>2, <2>1, <3>1 DEF ReadArrives, receiveVars, Index
  <2>7. AckedTruly'
    BY <1>2, <2>1 DEF BothInv, WireInv, AckedTruly, TellsTheTruth, receiveVars
  <2>8. ReceiveInv'
    BY <2>1, PhaseStays DEF BothInv, ReceiveInv, ReceiverTypes, R!Received, receiveVars
  <2> QED
    BY <1>1, <2>1, <2>5, <2>6, <2>7, <2>8 DEF WireInv, Progress, receiveVars
<1>9. CASE k \notin removed
  <2>1. R!ArriveWith(m, n, Size[m]) /\ owed' = [owed EXCEPT ![k] = Append(@, Answer(c))]
    BY <1>1, <1>5, <1>7, <1>9 DEF Handle
  <2>2. \A q \in 1..n - 1 : q \notin left[m]
    <3>1. written[i] = ChunkAt(m, n) /\ m = written[i].msg
      BY <1>5, <1>6
    <3> HIDE DEF c
    <3> QED
      BY <1>2, <1>4, <1>9, <3>1, NextOfMessage DEF BothInv, c
  <2>3. Handled(m, n, Answer(ChunkAt(m, n))) /\ ReceiveInv'
    BY <2>1, <2>2, HandleNext DEF Fitting, BothInv
  <2>4. Progress
    BY <2>3, HandledProgress
  <2>5. Growing
    BY <1>1, <1>2, <2>4, ProgressGrows DEF Growing, ReceiverTypes
  <2>6. Answer(c) \in Answers(k)'
    BY <1>2, <1>4, <1>6, <2>3, AnswerKept DEF ReceiverTypes, Fitting
  <2>7. /\ DOMAIN taken' = Sockets /\ DOMAIN owed' = Sockets /\ Connection(k)'
        /\ \A x \in Sockets \ {k} :
             taken'[x] = taken[x] /\ owed'[x] = owed[x] /\ back'[x] = back[x]
    <3> DEFINE a == Answer(c)
    <3>1. a \in Answers(k)' /\ owed' = [owed EXCEPT ![k] = Append(@, a)]
      BY <2>1, <2>6
    <3> HIDE DEF a, c
    <3> QED
      BY <1>1, <1>2, <2>5, <3>1, OneMoreAnswer DEF i
  <2>8. WireTypes'
    BY <1>1, <1>2, <2>5, <2>7, WireTypesStep DEF WireTypes
  <2>9. /\ n \notin left'[m] /\ \A x \in Messages : left'[x] \subseteq left[x]
    BY <1>2, <2>1 DEF R!ArriveWith, ReceiverTypes
  <2>10. ReadArrives'
    <3>1. \A x \in Sockets : Read(x)' \subseteq Read(x) \cup {i} /\ (x # k => Read(x)' = Read(x))
      BY <1>2, <1>4, <2>5, <2>7, ReadStays DEF WireTypes, Connection
    <3>2. SUFFICES ASSUME NEW x \in Sockets \ removed, NEW j \in Read(x)'
                   PROVE  Index(written[j]) \notin left'[written[j].msg]
      BY <1>1, <1>2 DEF ReadArrives, Index
    <3>3. CASE j = i
      BY <1>5, <1>7, <2>9, <3>3
    <3>4. CASE j # i
      <4>1. j \in Read(x)
        BY <3>1, <3>2, <3>4
      <4>2. j \in DOMAIN written
        <5>1. DOMAIN written = 1..Len(written) /\ Len(written) \in Nat
          BY <1>2 DEF TypeOK
        <5>2. j \in 1..taken[x] /\ taken[x] \in 0..Len(written)
          BY <1>2, <4>1 DEF Read, WireTypes, Connection
        <5> QED
          BY <5>1, <5>2
      <4> QED
        BY <1>2, <2>9, <4>1, <4>2, WrittenFacts DEF ReadArrives
    <3> QED
      BY <3>3, <3>4
  <2>11. AckedTruly'
    BY <1>2, <2>5 DEF BothInv, WireInv, AckedTruly, TellsTheTruth, Growing
  <2> QED
    BY <1>1, <2>3, <2>4, <2>8, <2>10, <2>11 DEF WireInv
<1> QED
  BY <1>8, <1>9

\* The callback of an answer's write makes a report that tells the truth.
LEMMA ReportMade ==
  ASSUME TypeOK, WholeChunks, NEW k, k \notin removed, NEW a \in Answers(k)
  PROVE  ReportFor(a) \in Notices
<1>1. PICK i \in DOMAIN written : a.chunk = written[i]
  BY DEF Answers
<1>2. /\ written[i].msg \in Messages /\ written[i].start \in Nat /\ written[i].end \in Nat
  BY WrittenFacts
<1>3. written[i].flag # "abort"
  <2>1. PICK n \in 1..N(written[i].msg) : written[i] = ChunkAt(written[i].msg, n)
    BY DEF WholeChunks
  <2> QED
    BY <2>1 DEF ChunkAt
<1>4. /\ a.status \in {200, 413} /\ ReportEnd(a) = a.chunk.end
      /\ a.status = 413 => a.chunk.msg \in refused
      /\ a.status = 200 => TellsTheTruth(a.chunk.msg, a.chunk.end)
  <2>1. \A s \in {200, 413, 481} : s # 481 => s \in {200, 413}
    OBVIOUS
  <2> QED
    BY <2>1 DEF Answers
<1>5. ReportFor(a) = [msg |-> written[i].msg, start |-> written[i].start,
                      end |-> written[i].end, status |-> a.status]
  BY <1>1, <1>4 DEF ReportFor
<1>6. [start |-> written[i].start, end |-> written[i].end] \in ChunkRanges(written[i].msg)
  BY <1>3 DEF ChunkRanges, ChunksOf
<1> QED
  BY <1>1, <1>2, <1>4, <1>5, <1>6 DEF Notices

LEMMA ResponseHolds ==
  ASSUME BothInv, NEW k \in Sockets, ResponseWritten(k)
  PROVE  UNCHANGED <<vars, receiveVars>> /\ WireInv'
<1>1. UNCHANGED <<vars, receiveVars, taken, removed>> /\ owed[k] # <<>>
  BY DEF ResponseWritten
<1>2. /\ TypeOK /\ TypeOK' /\ WireTypes /\ Connection(k) /\ Growing
      /\ WholeChunks /\ UNCHANGED <<written, left, acked>>
  <2>1. TypeOK /\ TypeOK'
    BY <1>1, SenderKept DEF BothInv, IInv
  <2> QED
    BY <1>1, <2>1 DEF BothInv, WireInv, WireTypes, SendInv, Growing, vars, receiveVars,
       reportVars
<1>3. CASE k \in removed
  <2>1. crashed' = TRUE /\ UNCHANGED <<owed, back>>
    BY <1>3 DEF ResponseWritten
  <2> QED
    BY <1>1, <1>2, <2>1, WireKept DEF BothInv, WireTypes
<1>4. CASE k \notin removed
  <2> DEFINE o == owed[k]
             b == back[k]
             n == ReportFor(Head(o))
  <2>1. /\ owed' = [owed EXCEPT ![k] = Tail(o)] /\ back' = [back EXCEPT ![k] = Append(b, n)]
        /\ UNCHANGED crashed
    BY <1>4 DEF ResponseWritten
  <2>2. o \in Seq(Answers(k)) /\ b \in Seq(Notices) /\ o # <<>>
    BY <1>1, <1>2 DEF Connection
  <2>3. /\ Head(o) \in Answers(k) /\ Tail(o) \in Seq(Answers(k))
        /\ Len(Tail(o)) = Len(o) - 1 /\ Len(o) \in Nat
    BY <2>2, HeadTailProperties, LenProperties
  <2>4. n \in Notices
    BY <1>2, <1>4, <2>3, ReportMade
  <2>5. Append(b, n) \in Seq(Notices) /\ Len(Append(b, n)) = Len(b) + 1 /\ Len(b) \in Nat
    <3> HIDE DEF n, b
    <3> QED BY <2>2, <2>4, AppendProperties, LenProperties
  <2> HIDE DEF o, b, n
  <2>6. /\ DOMAIN taken' = Sockets /\ DOMAIN owed' = Sockets /\ DOMAIN back' = Sockets
        /\ taken'[k] = taken[k] /\ owed'[k] = Tail(o) /\ back'[k] = Append(b, n)
        /\ \A x \in Sockets \ {k} :
             taken'[x] = taken[x] /\ owed'[x] = owed[x] /\ back'[x] = back[x]
    BY <1>1, <1>2, <2>1 DEF WireTypes
  <2>7. Connection(k)'
    <3>1. Len(o) + Len(b) <= Cardinality(Read(k))
      BY <1>2 DEF Connection, Counts, o, b
    <3>2. /\ Read(k)' = Read(k) /\ taken'[k] \in 0..Len(written')
      BY <1>2, <2>6, ReadStays DEF Connection
    <3>3. /\ Tail(o) \in Seq(Answers(k)') /\ Append(b, n) \in Seq(Notices')
      BY <1>2, <2>3, <2>5, Kept
    <3>4. Len(Tail(o)) + Len(Append(b, n)) = Len(o) + Len(b)
      BY <2>3, <2>5
    <3> QED
      BY <2>6, <3>1, <3>2, <3>3, <3>4 DEF Connection, Counts
  <2>8. WireTypes'
    BY <1>1, <1>2, <2>1, <2>6, <2>7, WireTypesStep DEF WireTypes
  <2>9. ReadArrives'
    BY <1>1, <1>2 DEF BothInv, WireInv, ReadArrives, Read, Index
  <2>10. AckedTruly'
    BY <1>2 DEF BothInv, WireInv, AckedTruly, TellsTheTruth, Growing
  <2> QED
    BY <1>1, <2>8, <2>9, <2>10 DEF WireInv
<1> QED
  BY <1>1, <1>3, <1>4

\* What a REPORT does to the sender is what SendQueue takes it to be.
LEMMA NoticeTaken ==
  ASSUME NEW k \in Sockets, ReportArrives(k), NEW b, b = Head(back[k]), b \in Notices
  PROVE  \/ UNCHANGED vars
         \/ \E r \in ChunkRanges(b.msg) :
              b.status = 200 /\ Report(b.msg, r) /\ r.end = b.end
         \/ b.status = 413 /\ Refusal(b.msg)
<1>1. b.status \in {200, 413} /\ [start |-> b.start, end |-> b.end] \in ChunkRanges(b.msg)
  BY DEF Notices
<1>2. IF b.msg \notin senders THEN UNCHANGED vars
      ELSE IF b.status = 200 THEN Report(b.msg, [start |-> b.start, end |-> b.end])
      ELSE Refusal(b.msg)
  BY DEF ReportArrives
<1>3. \A s \in {200, 413} : s # 200 => s = 413
  OBVIOUS
<1> QED
  BY <1>1, <1>2, <1>3

LEMMA ReportHolds ==
  ASSUME BothInv, NEW k \in Sockets, ReportArrives(k)
  PROVE  /\ Orderly /\ UNCHANGED receiveVars /\ (TypeOK' => WireInv')
         /\ Head(back[k]) \in Notices
<1> DEFINE n == Head(back[k])
           b == back[k]
<1>1. /\ UNCHANGED <<receiveVars, taken, owed, removed, crashed>> /\ b # <<>>
      /\ back' = [back EXCEPT ![k] = Tail(b)]
  BY DEF ReportArrives
<1>2. TypeOK /\ WireTypes /\ Connection(k) /\ b \in Seq(Notices)
  BY DEF BothInv, WireInv, WireTypes, IInv, Connection
<1>3. /\ n \in Notices /\ Tail(b) \in Seq(Notices)
      /\ Len(Tail(b)) = Len(b) - 1 /\ Len(b) \in Nat
  BY <1>1, <1>2, HeadTailProperties, LenProperties
<1>4. n = Head(back[k]) /\ n.msg \in Messages
  BY <1>3 DEF Notices
<1> HIDE DEF n, b
<1>5. \/ UNCHANGED vars
      \/ \E r \in ChunkRanges(n.msg) : n.status = 200 /\ Report(n.msg, r) /\ r.end = n.end
      \/ n.status = 413 /\ Refusal(n.msg)
  BY <1>3, <1>4, NoticeTaken
<1>6. Orderly
  BY <1>4, <1>5 DEF Orderly
<1>7. ASSUME TypeOK'
      PROVE  WireInv'
  <2>1. written' = written /\ Growing
    <3>1. written' = written
      BY <1>5 DEF vars, Report, Refusal
    <3> QED
      BY <1>1, <3>1 DEF Growing, receiveVars
  <2>2. /\ DOMAIN taken' = Sockets /\ DOMAIN owed' = Sockets /\ DOMAIN back' = Sockets
        /\ taken'[k] = taken[k] /\ owed'[k] = owed[k] /\ back'[k] = Tail(b)
        /\ \A x \in Sockets \ {k} :
             taken'[x] = taken[x] /\ owed'[x] = owed[x] /\ back'[x] = back[x]
    BY <1>1, <1>2 DEF WireTypes
  <2>3. Connection(k)'
    <3> DEFINE o == owed[k]
    <3>1. o \in Seq(Answers(k)) /\ Len(o) + Len(b) <= Cardinality(Read(k)) /\ Len(o) \in Nat
      BY <1>2, LenProperties DEF Connection, Counts, b
    <3>2. Read(k)' = Read(k) /\ taken'[k] \in 0..Len(written')
      BY <1>2, <1>7, <2>1, <2>2, ReadStays DEF Connection
    <3>3. o \in Seq(Answers(k)') /\ Tail(b) \in Seq(Notices')
      BY <1>2, <1>3, <2>1, <3>1, Kept
    <3>4. IsFiniteSet(Read(k))
      <4>1. \A t \in Nat : IsFiniteSet(1..t)
        BY FS_Interval
      <4>2. Read(k) \subseteq 1..taken[k] /\ taken[k] \in Nat
        BY <1>2 DEF Read, Connection
      <4> QED
        BY <4>1, <4>2, FS_Subset
    <3>5. Cardinality(Read(k)) \in Nat
      BY <3>4, FS_CardinalityType
    <3>6. owed'[k] = o
      BY <2>2
    <3> HIDE DEF o
    <3>7. Len(o) + Len(Tail(b)) <= Cardinality(Read(k))
      BY <1>3, <3>1, <3>5
    <3> QED
      BY <2>2, <3>2, <3>3, <3>6, <3>7 DEF Connection, Counts
  <2>4. WireTypes'
    BY <1>1, <1>2, <1>7, <2>1, <2>2, <2>3, WireTypesStep DEF WireTypes
  <2>5. ReadArrives'
    BY <1>1, <2>1 DEF BothInv, WireInv, ReadArrives, Read, Index, receiveVars
  <2>6. AckedTruly'
    <3>1. \A m \in Messages : \A r \in acked'[m] : r \in acked[m] \/ TellsTheTruth(m, r.end)
      <4>1. CASE acked' = acked
        BY <4>1
      <4>2. CASE \E r \in ChunkRanges(n.msg) :
                   n.status = 200 /\ Report(n.msg, r) /\ r.end = n.end
        <5>1. PICK r : /\ n.status = 200 /\ r.end = n.end
                       /\ acked' = [acked EXCEPT ![n.msg] = @ \cup {r}]
          BY <4>2 DEF Report
        <5>2. TellsTheTruth(n.msg, r.end)
          BY <1>3, <5>1 DEF Notices
        <5> QED
          BY <1>2, <1>4, <5>1, <5>2 DEF TypeOK
      <4> QED
        BY <1>5, <4>1, <4>2 DEF Refusal, vars, reportVars
    <3> QED
      BY <1>1, <3>1 DEF BothInv, WireInv, AckedTruly, TellsTheTruth, receiveVars
  <2> QED
    BY <2>4, <2>5, <2>6 DEF WireInv
<1> QED
  BY <1>1, <1>3, <1>4, <1>6, <1>7

-----------------------------------------------------------------------------
(* The invariant of both ends.                                             *)

LEMMA InitBothInv ==
  ASSUME BothInit
  PROVE  BothInv
<1>1. IInv /\ CarefulInv /\ Init /\ R!Init
  BY InitIInv, InitCareful DEF BothInit
<1>2. /\ queue = <<>> /\ written = <<>> /\ senders = {} /\ aborted = {} /\ reported = {}
      /\ sent = {} /\ frames = <<>> /\ sentBytes = [m \in Messages |-> 0]
      /\ acked = [m \in Messages |-> {}]
  BY <1>1 DEF Init
<1>3. ToSet(queue) = {} /\ DOMAIN written = {} /\ Len(written) = 0
  BY <1>2 DEF ToSet
<1>4. SendInv
  BY <1>2, <1>3 DEF SendInv, WholeChunks, Placed, Emptied, Awaited
<1>5. ReceiveInv
  <2>1. ReceiverTypes
    <3>1. <<>> \in Seq(Bodies)
      OBVIOUS
    <3> QED
      BY <1>1, <3>1 DEF R!Init, ReceiverTypes, R!Received
  <2>2. \A m \in Messages : Phase(m)
    BY <1>1 DEF R!Init, Phase, Untouched, N
  <2> QED
    BY <2>1, <2>2 DEF ReceiveInv
<1>6. ASSUME NEW k \in Sockets
      PROVE  taken[k] = 0 /\ owed[k] = <<>> /\ back[k] = <<>> /\ Read(k) = {}
  <2>1. taken[k] = 0 /\ owed[k] = <<>> /\ back[k] = <<>>
    BY DEF BothInit
  <2>2. 1..0 = {}
    OBVIOUS
  <2> QED
    BY <2>1, <2>2 DEF Read
<1>7. WireTypes
  <2>1. ASSUME NEW k \in Sockets PROVE Connection(k)
    <3>1. Cardinality({}) = 0 /\ Len(<<>>) = 0
      BY FS_EmptySet
    <3>2. <<>> \in Seq(Answers(k)) /\ <<>> \in Seq(Notices)
      BY EmptySeq
    <3>3. Len(owed[k]) = 0 /\ Len(back[k]) = 0 /\ Cardinality(Read(k)) = 0
      BY <1>6, <3>1, Zenon
    <3>4. Counts(k)
      <4>1. \A x, y, z : x = 0 /\ y = 0 /\ z = 0 => x + y <= z
        OBVIOUS
      <4> QED
        BY <3>3, <4>1 DEF Counts
    <3>5. taken[k] \in 0..Len(written)
      BY <1>3, <1>6
    <3> QED
      BY <1>6, <3>2, <3>4, <3>5, Zenon DEF Connection
  <2> QED
    BY <2>1 DEF WireTypes, BothInit
<1>8. ReadArrives /\ AckedTruly
  BY <1>2, <1>6 DEF ReadArrives, AckedTruly
<1> QED
  BY <1>1, <1>4, <1>5, <1>7, <1>8 DEF BothInv, WireInv

\* A step that leaves the receiver alone.
LEMMA ReceiverKept ==
  ASSUME ReceiveInv, UNCHANGED receiveVars
  PROVE  ReceiveInv'
BY PhaseStays DEF ReceiveInv, ReceiverTypes, R!Received, receiveVars

\* A step of the sender that brings no report.
LEMMA SenderStepHolds ==
  ASSUME Careful, BothInv, LoopStep \/ UNCHANGED vars
           \/ (\E m \in Messages : SendMessage(m)) \/ \E k \in Sockets : Destroy(k),
         UNCHANGED <<receiveVars, wireVars>>
  PROVE  Orderly /\ WireInv'
<1>1. Orderly
  BY DEF Orderly
<1>2. IInv /\ IInv' /\ [Next]_vars
  BY <1>1, SendStep, SenderKept DEF BothInv
<1>3. UNCHANGED acked
  BY DEF LoopStep, LoopEnds, SendChunk, SocketUnavailable, FailedReturns, ChunkSent,
     CallbackReturns, SendMessage, Destroy, vars, reportVars
<1>4. Growing
  BY <1>2, WrittenGrows DEF Growing, receiveVars, wireVars
<1>5. WireInv'
  BY <1>2, <1>3, <1>4, WireKept DEF BothInv, IInv, WireInv, WireTypes, receiveVars, wireVars
<1> QED
  BY <1>1, <1>5

\* Every step of both ends is one of the sender, or of the receiver.
LEMMA BothStep ==
  ASSUME Fitting, BothInv, [BothNext]_bothVars
  PROVE  BothInv' /\ [Next]_vars /\ Progress
<1> SUFFICES Orderly /\ ReceiveInv' /\ WireInv' /\ Progress
  <2>1. [Next]_vars /\ SendInv'
    BY SendStep DEF Fitting, BothInv
  <2>2. IInv' /\ CarefulInv'
    BY <2>1, SenderKept, CarefulStep DEF Fitting, BothInv
  <2> QED
    BY <2>1, <2>2 DEF BothInv
<1>1. CASE SenderStep \/ UNCHANGED bothVars
  <2>1. UNCHANGED <<receiveVars, wireVars>>
    BY <1>1 DEF SenderStep, bothVars
  <2>2. Orderly /\ WireInv'
    BY <1>1, <2>1, SenderStepHolds DEF Fitting, SenderStep, bothVars
  <2>3. ReceiveInv' /\ Progress
    BY <2>1, ReceiverKept DEF BothInv, Progress, receiveVars
  <2> QED
    BY <2>2, <2>3
<1>2. CASE ReceiverTimes
  <2>1. UNCHANGED <<vars, wireVars>> /\ (R!Poll \/ \E m \in Messages : R!Wait(m))
    BY <1>2 DEF ReceiverTimes
  <2>2. ReceiveInv' /\ UNCHANGED <<left, inbox, refused>>
    BY <2>1, TimesHold DEF BothInv
  <2>3. TypeOK /\ TypeOK'
    BY <2>1, SenderKept DEF BothInv, IInv
  <2>4. Growing /\ UNCHANGED <<taken, owed, back, left, acked, removed, crashed>>
    BY <2>1, <2>2 DEF Growing, vars, reportVars, wireVars
  <2>5. WireInv'
    BY <2>3, <2>4, WireKept DEF BothInv, WireInv, WireTypes
  <2> QED
    BY <2>1, <2>2, <2>5 DEF Orderly, Progress
<1>3. ASSUME NEW k \in Sockets, Request(k)
      PROVE  Orderly /\ ReceiveInv' /\ WireInv' /\ Progress
  BY <1>3, RequestHolds DEF Orderly
<1>4. ASSUME NEW k \in Sockets, ResponseWritten(k)
      PROVE  Orderly /\ ReceiveInv' /\ WireInv' /\ Progress
  <2>1. UNCHANGED vars /\ UNCHANGED receiveVars /\ WireInv'
    BY <1>4, ResponseHolds
  <2> QED
    BY <2>1, ReceiverKept DEF BothInv, Orderly, Progress, receiveVars
<1>5. ASSUME NEW k \in Sockets, RemoveSession(k)
      PROVE  Orderly /\ ReceiveInv' /\ WireInv' /\ Progress
  <2>1. /\ UNCHANGED <<vars, receiveVars, taken, owed, back, crashed>>
        /\ removed' = removed \cup {k} /\ k \in Removable
    BY <1>5 DEF RemoveSession
  <2>2. TypeOK /\ TypeOK'
    BY <2>1, SenderKept DEF BothInv, IInv
  <2>3. Growing /\ UNCHANGED <<left, acked>>
    BY <2>1 DEF Growing, vars, reportVars, receiveVars
  <2>4. removed' \subseteq Removable /\ crashed' \in BOOLEAN
    BY <2>1 DEF BothInv, WireInv, WireTypes
  <2>5. WireInv'
    BY <2>1, <2>2, <2>3, <2>4, WireKept DEF BothInv
  <2> QED
    BY <2>1, <2>5, ReceiverKept DEF BothInv, Orderly, Progress, receiveVars
<1>6. ASSUME NEW k \in Sockets, ReportArrives(k)
      PROVE  Orderly /\ ReceiveInv' /\ WireInv' /\ Progress
  <2>1. Orderly /\ UNCHANGED receiveVars /\ (TypeOK' => WireInv')
    BY <1>6, ReportHolds
  <2>2. TypeOK'
    BY <2>1, SendStep, SenderKept DEF Fitting, BothInv, IInv
  <2> QED
    BY <2>1, <2>2, ReceiverKept DEF BothInv, Progress, receiveVars
<1> QED
  BY <1>1, <1>2, <1>3, <1>4, <1>5, <1>6 DEF BothNext

LEMMA BothInvariance ==
  ASSUME Fitting
  PROVE  BothSpec => []BothInv
BY InitBothInv, BothStep, PTL DEF BothSpec

\* The two ends and the connections keep their types, and no report comes for
\* a chunk that has not been read.
THEOREM BothTypesKept ==
  ASSUME Fitting
  PROVE  BothSpec => []BothTypeOK
<1>1. ASSUME BothInv PROVE BothTypeOK
  <2>1. TypeOK /\ ReceiverTypes /\ WireTypes /\ \A m \in Messages : Phase(m)
    BY <1>1 DEF BothInv, IInv, ReceiveInv, WireInv
  <2>2. ASSUME NEW m \in Messages
        PROVE  left[m] \subseteq 1..N(m)
    <3>1. CASE Receiving(m)
      <4>1. PICK p \in 1..N(m) - 1 : left[m] = p + 1..N(m)
        BY <3>1 DEF Receiving
      <4> QED
        BY <4>1, LastReach
    <3>2. CASE ~Receiving(m)
      <4>1. left[m] \in {1..N(m), {}} \/ left[m] \subseteq 2..N(m)
        BY <2>1, <3>2 DEF Phase, Untouched, Delivered, GivenUp
      <4>2. 2..N(m) \subseteq 1..N(m)
        BY LastReach
      <4> QED
        BY <4>1, <4>2
    <3> QED
      BY <3>1, <3>2
  <2>3. R!TypeOK
    BY <2>1, <2>2 DEF R!TypeOK, ReceiverTypes, Bodies, N
  <2> QED
    BY <2>1, <2>3 DEF BothTypeOK, WireTypes, Connection, Counts
<1> QED
  BY <1>1, BothInvariance, PTL

\* The receiver keeps to what the sender's correctness rests on, so that what
\* SendQueue_proofs proves of the sender holds when it talks to this receiver.
THEOREM KeptToSendQueue ==
  ASSUME Fitting
  PROVE  BothSpec => KeepsToSendQueue
<1>1. BothInit => Init
  BY DEF BothInit
<1>2. BothInv /\ [BothNext]_bothVars => [Next]_vars
  BY BothStep
<1> QED
  BY <1>1, <1>2, BothInvariance, PTL DEF BothSpec, KeepsToSendQueue, Spec

-----------------------------------------------------------------------------
(* What the sender hears is what has become of the message.                *)

Got == {m \in Messages : inbox[m] # <<>>}

\* A message whose last byte is acknowledged has been delivered: the report of
\* its last chunk was made after that.
CompleteIsDelivered ==
  \A m \in Messages : ackedBytes[m] >= Size[m] /\ acked[m] # {} => inbox[m] # <<>>

LEMMA CompleteMeansDelivered ==
  ASSUME IInv, AckedTruly
  PROVE  CompleteIsDelivered
<1> SUFFICES ASSUME NEW m \in Messages, ackedBytes[m] >= Size[m], acked[m] # {}
             PROVE  inbox[m] # <<>>
  BY DEF CompleteIsDelivered
<1>1. ASSUME NEW r \in acked[m]
      PROVE  /\ r.start \in Nat /\ r.end \in Nat /\ r.end <= Size[m]
             /\ r.end = Size[m] => inbox[m] # <<>>
  <2>1. r \in ChunkRanges(m)
    BY <1>1 DEF IInv, Acknowledged
  <2>2. r.start \in Nat /\ r.end \in Nat
    BY <2>1, ChunkRangesFacts DEF IInv, Ranges
  <2>3. PICK i \in ChunksOf(m) : r = [start |-> written[i].start, end |-> written[i].end]
    BY <2>1 DEF ChunkRanges
  <2>4. r.end <= Size[m]
    BY <2>3 DEF IInv, ChunksShape
  <2> QED
    BY <1>1, <2>2, <2>4 DEF AckedTruly, TellsTheTruth
<1>2. Size[m] \in Nat /\ ackedBytes[m] \in Nat
  BY ConstantFacts DEF IInv, TypeOK
<1>3. CASE Size[m] = 0
  <2>1. PICK r \in acked[m] : TRUE
    OBVIOUS
  <2>2. r.end = Size[m]
    BY <1>1, <1>3, <2>1
  <2> QED
    BY <1>1, <2>1, <2>2
<1>4. CASE Size[m] > 0
  <2>1. Size[m] \in 1..ackedBytes[m]
    BY <1>2, <1>4
  <2>2. PICK r \in acked[m] : Size[m] \in Bytes(r)
    BY <2>1 DEF IInv, Acknowledged
  <2>3. r.end = Size[m]
    BY <1>1, <1>2, <2>2 DEF Bytes
  <2> QED
    BY <1>1, <2>2, <2>3
<1> QED
  BY <1>2, <1>3, <1>4

\* What the application of the sender is told by a step of the sender.
LEMMA Hearing ==
  ASSUME BothInv, CompleteIsDelivered', NEW k \in Sockets, ReportArrives(k)
  PROVE  \/ UNCHANGED <<reported, aborted>>
         \/ \E m \in Messages :
              /\ m \notin reported \cup aborted /\ reported' = reported \cup {m}
              /\ \/ aborted' = aborted /\ inbox[m] # <<>>
                 \/ aborted' = aborted \cup {m} /\ m \in refused
<1> DEFINE b == Head(back[k])
<1>1. b \in Notices /\ b.msg \in Messages /\ UNCHANGED receiveVars
  BY ReportHolds DEF Notices
<1> HIDE DEF b
<1>2. /\ senders \cap reported = {} /\ aborted \subseteq reported
  BY DEF BothInv, SendInv, Awaited
<1>3. CASE UNCHANGED vars
  BY <1>3 DEF vars, senderVars, reportVars
<1>4. ASSUME NEW r \in ChunkRanges(b.msg), b.status = 200, Report(b.msg, r)
      PROVE  \/ UNCHANGED <<reported, aborted>>
             \/ /\ b.msg \notin reported \cup aborted /\ reported' = reported \cup {b.msg}
                /\ aborted' = aborted /\ inbox[b.msg] # <<>>
  <2> DEFINE m == b.msg
  <2>1. /\ m \in senders /\ m \in Messages /\ aborted' = aborted
        /\ acked' = [acked EXCEPT ![m] = @ \cup {r}]
        /\ IF m \in aborted' \/ ackedBytes'[m] >= Size[m]
           THEN reported' = reported \cup {m} ELSE UNCHANGED reported
    BY <1>1, <1>4 DEF Report, MayReport, Notify, IsComplete
  <2>2. m \notin reported \cup aborted
    BY <1>2, <2>1
  <2>3. acked'[m] # {}
    BY <2>1 DEF BothInv, IInv, TypeOK
  <2> HIDE DEF m
  <2>4. ASSUME ackedBytes'[m] >= Size[m]
        PROVE  inbox[m] # <<>>
    <3>1. inbox' = inbox
      BY <1>1 DEF receiveVars
    <3> QED
      BY <2>1, <2>3, <2>4, <3>1 DEF CompleteIsDelivered
  <2> QED
    BY <2>1, <2>2, <2>4 DEF m
<1>5. ASSUME b.status = 413, Refusal(b.msg)
      PROVE  /\ b.msg \notin reported \cup aborted /\ reported' = reported \cup {b.msg}
             /\ aborted' = aborted \cup {b.msg} /\ b.msg \in refused
  <2>1. /\ b.msg \in senders /\ aborted' = aborted \cup {b.msg}
        /\ reported' = reported \cup {b.msg}
    BY <1>5 DEF Refusal, MayReport, Notify, IsComplete
  <2> QED
    BY <1>1, <1>2, <1>5, <2>1 DEF Notices
<1>6. \/ UNCHANGED vars
      \/ \E r \in ChunkRanges(b.msg) : b.status = 200 /\ Report(b.msg, r) /\ r.end = b.end
      \/ b.status = 413 /\ Refusal(b.msg)
  BY <1>1, NoticeTaken DEF b
<1> QED
  BY <1>1, <1>3, <1>4, <1>5, <1>6

\* The receiver's steps say nothing to the sender's application, nor do those
\* of the sender that bring no report.
LEMMA NothingHeard ==
  ASSUME Fitting, BothInv, [BothNext]_bothVars, \A k \in Sockets : ~ReportArrives(k)
  PROVE  UNCHANGED <<reported, aborted>>
<1>1. CASE UNCHANGED vars
  BY <1>1 DEF vars, senderVars, reportVars
<1>2. CASE SenderStep
  BY <1>2 DEF SenderStep, LoopStep, LoopEnds, SendChunk, SocketUnavailable, FailedReturns,
     ChunkSent, CallbackReturns, SendMessage, Destroy, senderVars, reportVars
<1>3. UNCHANGED vars \/ SenderStep
  BY DEF BothNext, bothVars, ReceiverTimes, Request, ResponseWritten, RemoveSession
<1> QED
  BY <1>1, <1>2, <1>3

\* The two ends implement Outcome.
THEOREM OutcomeImplemented ==
  ASSUME Fitting
  PROVE  BothSpec => ImplementsOutcome
<1>1. ASSUME BothInit
      PROVE  Promise!Init
  <2>1. /\ \A m \in Messages : inbox[m] = <<>>
        /\ refused = {} /\ reported = {}
    BY <1>1 DEF BothInit, Init, R!Init
  <2>2. Heard = [m \in Messages |-> "nothing"]
    BY <2>1 DEF Heard
  <2> QED
    BY <2>1, <2>2 DEF Promise!Init
<1>2. ASSUME BothInv, CompleteIsDelivered', [BothNext]_bothVars
      PROVE  [Promise!Next]_<<Got, refused, Heard>>
  <2>1. CASE \E k \in Sockets : ReportArrives(k)
    <3>1. PICK k \in Sockets : ReportArrives(k)
      BY <2>1
    <3>2. Got' = Got /\ refused' = refused /\ UNCHANGED receiveVars
      BY <3>1 DEF ReportArrives, receiveVars, Got
    <3>3. CASE UNCHANGED <<reported, aborted>>
      <4>1. Heard' = Heard
        BY <3>3 DEF Heard
      <4> QED
        BY <3>2, <4>1
    <3>4. ASSUME NEW m \in Messages, m \notin reported \cup aborted,
                 reported' = reported \cup {m},
                 \/ aborted' = aborted /\ inbox[m] # <<>>
                 \/ aborted' = aborted \cup {m} /\ m \in refused
          PROVE  Promise!HearSuccess(m) \/ Promise!HearFailure(m)
      <4>1. Heard[m] = "nothing"
        BY <3>4 DEF Heard
      <4>2. CASE aborted' = aborted /\ inbox[m] # <<>>
        <5>1. Heard' = [Heard EXCEPT ![m] = "success"]
          BY <3>4, <4>2 DEF Heard
        <5> QED
          BY <3>2, <4>1, <4>2, <5>1 DEF Promise!HearSuccess, Got
      <4>3. CASE aborted' = aborted \cup {m} /\ m \in refused
        <5>1. Heard' = [Heard EXCEPT ![m] = "failure"]
          BY <3>4, <4>3 DEF Heard
        <5> QED
          BY <3>2, <4>1, <4>3, <5>1 DEF Promise!HearFailure, Got
      <4> QED
        BY <3>4, <4>2, <4>3
    <3> QED
      BY <1>2, <3>1, <3>3, <3>4, Hearing DEF Promise!Next
  <2>2. CASE \A k \in Sockets : ~ReportArrives(k)
    <3>1. Heard' = Heard
      BY <1>2, <2>2, NothingHeard DEF Heard
    <3>2. Progress /\ inbox \in [Messages -> Seq(Bodies)]
      BY <1>2, BothStep DEF BothInv, ReceiveInv, ReceiverTypes
    <3>3. CASE UNCHANGED <<inbox, refused>>
      BY <3>1, <3>3 DEF Got
    <3>4. ASSUME NEW m \in Messages, m \notin refused, inbox[m] = <<>>, refused' = refused,
                 NEW b \in Bodies, inbox' = [inbox EXCEPT ![m] = Append(@, b)]
          PROVE  Promise!Deliver(m)
      <4>1. inbox'[m] # <<>> /\ \A x \in Messages \ {m} : inbox'[x] = inbox[x]
        BY <3>2, <3>4, InboxType
      <4>2. Got' = Got \cup {m} /\ m \notin Got
        BY <3>4, <4>1 DEF Got
      <4> QED
        BY <3>1, <3>4, <4>2 DEF Promise!Deliver, Got
    <3>5. ASSUME NEW m \in Messages, inbox[m] = <<>>, inbox' = inbox,
                 refused' = refused \cup {m}
          PROVE  Promise!GiveUp(m)
      <4>1. m \notin Got /\ Got' = Got
        BY <3>5 DEF Got
      <4> QED
        BY <3>1, <3>5, <4>1 DEF Promise!GiveUp, Got
    <3> QED
      BY <3>2, <3>3, <3>4, <3>5 DEF Progress, Promise!Next
  <2> QED
    BY <2>1, <2>2
<1>3. BothInv => CompleteIsDelivered
  BY CompleteMeansDelivered DEF BothInv, WireInv
<1> QED
  BY <1>1, <1>2, <1>3, BothInvariance, PTL DEF BothSpec, ImplementsOutcome, Promise!Spec, Got

=============================================================================
