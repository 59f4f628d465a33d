-------------------------- MODULE Transfer_proofs --------------------------
(***************************************************************************)
(* Proofs about Transfer: whatever the order of the chunks and whichever   *)
(* of them are missing, the receiving side implements Delivery.            *)
(***************************************************************************)
EXTENDS Transfer, SequenceLemmas

\* AllKeptAppended computes a function by removing one chunk after the other.
KeptFold(r, f) ==
  f = [T \in SUBSET r.kept |->
         IF T = {} THEN r
         ELSE AppendKept(CHOOSE x \in T : TRUE, f[T \ {CHOOSE x \in T : TRUE}])]

LEMMA FoldIsKeptFold ==
  ASSUME NEW r, IsFiniteSet(r.kept)
  PROVE  \E f : KeptFold(r, f) /\ AllKeptAppended(r) = f[r.kept]
<1> DEFINE K == r.kept
           Pick(T) == CHOOSE x \in T : TRUE
           Following(f, T) == IF T = {} THEN r ELSE AppendKept(Pick(T), f[T \ {Pick(T)}])
           Dom(n) == {S \in SUBSET K : Cardinality(S) <= n}
           Has == {n \in Nat : \E f : f = [T \in Dom(n) |-> Following(f, T)]}
<1>1. \A S \in SUBSET K : /\ IsFiniteSet(S) /\ Cardinality(S) \in Nat
                          /\ Cardinality(S) <= Cardinality(K)
  BY FS_Subset, FS_CardinalityType
<1>2. \A S \in SUBSET K : S # {} => /\ Pick(S) \in S /\ S \ {Pick(S)} \in SUBSET K
                                    /\ Cardinality(S \ {Pick(S)}) = Cardinality(S) - 1
  BY <1>1, FS_RemoveElement
<1>3. 0 \in Has
  <2> DEFINE g == [T \in Dom(0) |-> r]
  <2>1. \A S \in Dom(0) : S = {}
    BY <1>1, FS_EmptySet
  <2>2. g = [T \in Dom(0) |-> Following(g, T)]
    BY <2>1
  <2> QED
    BY <2>2
<1>4. ASSUME NEW n \in Has PROVE n + 1 \in Has
  <2>1. PICK f : f = [T \in Dom(n) |-> Following(f, T)]
    OBVIOUS
  <2> DEFINE g == [T \in Dom(n + 1) |-> IF T \in Dom(n) THEN f[T] ELSE Following(f, T)]
  <2>2. n \in Nat /\ Dom(n) \subseteq Dom(n + 1)
    BY <1>1
  <2>3. ASSUME NEW T \in Dom(n + 1), T # {}
        PROVE  T \ {Pick(T)} \in Dom(n)
    BY <1>1, <1>2, <2>2, <2>3
  <2>4. ASSUME NEW T \in Dom(n + 1) PROVE g[T] = Following(g, T)
    <3>1. CASE T = {}
      <4>1. {} \in Dom(n)
        BY <2>2, FS_EmptySet
      <4> QED
        BY <2>1, <2>2, <3>1, <4>1
    <3>2. CASE T # {}
      <4>1. T \ {Pick(T)} \in Dom(n)
        BY <2>3, <3>2
      <4>2. g[T \ {Pick(T)}] = f[T \ {Pick(T)}]
        BY <2>2, <4>1
      <4>3. g[T] = Following(f, T)
        <5> HIDE DEF Dom, Following
        <5> QED BY <2>1, <2>2
      <4> QED
        BY <3>2, <4>2, <4>3
    <3> QED
      BY <3>1, <3>2
  <2>5. g = [T \in Dom(n + 1) |-> Following(g, T)]
    <3> HIDE DEF Following
    <3> QED BY <2>4
  <2> HIDE DEF Following, Dom, g
  <2> QED
    BY <2>2, <2>5
<1>5. Cardinality(K) \in Has
  <2> HIDE DEF Has
  <2>1. Has \in SUBSET Nat
    BY DEF Has
  <2> QED
    BY <1>1, <1>3, <1>4, <2>1, Induction, FS_CardinalityType
<1>6. Dom(Cardinality(K)) = SUBSET K
  BY <1>1
<1>7. \E f : f = [T \in SUBSET K |-> Following(f, T)]
  BY <1>5, <1>6
<1> DEFINE c == CHOOSE f : f = [T \in SUBSET K |-> Following(f, T)]
<1>8. KeptFold(r, c)
  BY <1>7 DEF KeptFold
<1>9. AllKeptAppended(r) = c[K]
  BY DEF AllKeptAppended, FoldSet, MapThenFoldSet
<1> QED
  BY <1>8, <1>9

-----------------------------------------------------------------------------
(* Types.                                                                  *)

\* What a peer with this library can send.
Chunks ==
  [start : Nat \ {0}, total : Nat \cup {Unknown},
   flag : {"continued", "end", "abort"}, body : Seq(ByteSet)]

LEMMA BodyType ==
  ASSUME NEW m \in Messages
  PROVE  Body[m] \in Seq(ByteSet) /\ Len(Body[m]) \in Nat
<1> DEFINE w == Widths[m]
           Coded(i) == [k \in 1..w[i] |-> [char |-> i, at |-> k]]
           q == [i \in DOMAIN w |-> Coded(i)]
<1>1. w \in Seq(Nat \ {0}) /\ Len(w) \in Nat /\ DOMAIN w = 1..Len(w)
  BY TransferAssumption
<1>2. ASSUME NEW i \in 1..Len(w) PROVE Coded(i) \in Seq(ByteSet)
  <2>1. w[i] \in Nat
    BY <1>1
  <2>2. \A k \in 1..w[i] : [char |-> i, at |-> k] \in ByteSet
    BY <2>1 DEF ByteSet
  <2> QED
    BY <2>1, <2>2
<1>3. q \in [1..Len(w) -> Seq(ByteSet)]
  <2> HIDE DEF Coded
  <2> QED BY <1>1, <1>2
<1>4. q \in Seq(Seq(ByteSet))
  <2> HIDE DEF q
  <2> QED BY <1>1, <1>3
<1>5. FlattenSeq(q) \in Seq(ByteSet)
  <2> HIDE DEF q
  <2> QED BY <1>4, FlattenType
<1>6. Body[m] = FlattenSeq(q)
  BY DEF Body, Bytes
<1> HIDE DEF q
<1> QED
  BY <1>5, <1>6

LEMMA GarbageType == Garbage \in ByteSet
BY DEF Garbage, ByteSet

\* What the conversions make of bytes is bytes.
LEMMA RecodeType ==
  ASSUME NEW m \in Messages, NEW bytes \in Seq(ByteSet)
  PROVE  Recode(m, bytes) \in Seq(ByteSet)
<1> DEFINE Has(i, k) == \E j \in DOMAIN bytes : bytes[j].char = i /\ bytes[j].at = k
           Whole(i) == \A k \in 1..Widths[m][i] : Has(i, k)
           Coded(b) == IF Whole(b.char) THEN <<b>>
                       ELSE IF b.at > 1 /\ Has(b.char, 1) THEN <<>>
                       ELSE <<Garbage, Garbage, Garbage>>
           q == [j \in DOMAIN bytes |-> Coded(bytes[j])]
<1>1. Len(bytes) \in Nat /\ DOMAIN bytes = 1..Len(bytes)
  OBVIOUS
<1>2. ASSUME NEW b \in ByteSet PROVE Coded(b) \in Seq(ByteSet)
  <2> HIDE DEF Whole, Has
  <2>1. <<b>> \in Seq(ByteSet) /\ <<Garbage, Garbage, Garbage>> \in Seq(ByteSet)
    BY GarbageType
  <2> QED
    BY <2>1
<1>3. q \in [1..Len(bytes) -> Seq(ByteSet)]
  <2> HIDE DEF Coded
  <2> QED BY <1>1, <1>2
<1>4. q \in Seq(Seq(ByteSet))
  <2> HIDE DEF q
  <2> QED BY <1>1, <1>3
<1>5. FlattenSeq(q) \in Seq(ByteSet)
  <2> HIDE DEF q
  <2> QED BY <1>4, FlattenType
<1> QED
  BY <1>5 DEF Recode

\* Where the i-th chunk of m ends.
Reach(m, i) == IF i * ChunkSize <= Len(Body[m]) THEN i * ChunkSize ELSE Len(Body[m])

Piece(m, i) == SubSeq(Body[m], ChunkStart(i), Reach(m, i))

LEMMA ReachType ==
  ASSUME NEW m \in Messages, NEW i \in Nat
  PROVE  /\ Reach(m, i) \in 0..Len(Body[m])
         /\ i > 0 => ChunkStart(i) \in Nat \ {0}
         /\ i > 0 => Piece(m, i) \in Seq(ByteSet)
<1>1. ChunkSize \in Nat \ {0} /\ i * ChunkSize \in Nat
  BY TransferAssumption
<1>2. Reach(m, i) \in 0..Len(Body[m])
  BY <1>1, BodyType DEF Reach
<1>3. ASSUME i > 0 PROVE ChunkStart(i) \in Nat \ {0} /\ Piece(m, i) \in Seq(ByteSet)
  <2>1. i - 1 \in Nat
    BY <1>3
  <2>2. (i - 1) * ChunkSize \in Nat
    BY <1>1, <2>1
  <2>3. ChunkStart(i) \in Nat \ {0}
    BY <2>2 DEF ChunkStart
  <2>4. \A j \in ChunkStart(i)..Reach(m, i) : Body[m][j] \in ByteSet
    BY <1>2, <2>3, BodyType
  <2> QED
    BY <1>2, <2>3, <2>4, SubSeqProperties DEF Piece
<1> QED
  BY <1>2, <1>3

\* A chunk, without the Min in its definition.
LEMMA ChunkShape ==
  ASSUME NEW m \in Messages, NEW i \in Nat \ {0}, NEW told
  PROVE  Chunk(m, i, told) =
           [start |-> ChunkStart(i), total |-> told,
            flag |-> IF Reach(m, i) < Len(Body[m]) THEN "continued" ELSE "end",
            body |-> Recode(m, Piece(m, i))]
<1>1. i * ChunkSize \in Int /\ Len(Body[m]) \in Int
  BY TransferAssumption, BodyType
<1>2. Min({i * ChunkSize, Len(Body[m])}) = Reach(m, i)
  BY <1>1, SmallerOfTwo DEF Reach
<1> QED
  BY <1>2 DEF Chunk, Piece

LEMMA ChunkType ==
  ASSUME NEW m \in Messages, NEW i \in Nat \ {0}, NEW told \in {Len(Body[m]), Unknown}
  PROVE  Chunk(m, i, told) \in Chunks
<1>1. Recode(m, Piece(m, i)) \in Seq(ByteSet) /\ ChunkStart(i) \in Nat \ {0}
  BY ReachType, RecodeType
<1>2. told \in Nat \cup {Unknown}
  BY BodyType
<1> QED
  BY <1>1, <1>2, ChunkShape DEF Chunks

LEMMA AbortType ==
  ASSUME NEW m \in Messages, left[m] \subseteq Nat \ {0}, NEW c \in AbortChunks(m)
  PROVE  c \in Chunks /\ c.flag = "abort"
<1>1. PICK s \in {1} \cup {ChunkStart(i) : i \in left[m]} :
        c = [start |-> s, total |-> Unknown, flag |-> "abort", body |-> <<>>]
  BY DEF AbortChunks
<1>2. s \in Nat \ {0}
  <2>1. \A i \in Nat \ {0} : ChunkStart(i) \in Nat \ {0}
    BY ReachType
  <2> QED
    BY <1>1, <2>1
<1>3. <<>> \in Seq(ByteSet)
  OBVIOUS
<1> QED
  BY <1>1, <1>2, <1>3 DEF Chunks

-----------------------------------------------------------------------------
(* ChunkReceiver.                                                          *)

\* Whatever is true of a receiver and stays true when a kept chunk is
\* appended is true once all are; by then none that comes next is left.
LEMMA AppendedStays ==
  ASSUME NEW r, IsFiniteSet(r.kept), NEW Good, r \in Good,
         \A s \in Good : s \in Receivers,
         \A k, s : s \in Good => AppendKept(k, s) \in Good
  PROVE  LET s == AllKeptAppended(r)
         IN /\ s \in Good
            /\ s.kept \subseteq r.kept
            /\ ~ \E c \in s.kept : c.start = NextStart(s)
<1> DEFINE K == r.kept
           None(s) == ~ \E c \in s.kept : c.start = NextStart(s)
           Fine(s, n) == /\ s \in Good /\ s.kept \subseteq K
                         /\ None(s) \/ Cardinality(s.kept) + n <= Cardinality(K)
<1>1. PICK f : KeptFold(r, f) /\ AllKeptAppended(r) = f[K]
  BY FoldIsKeptFold
<1>2. \A S \in SUBSET K : IsFiniteSet(S) /\ Cardinality(S) \in Nat
  BY FS_Subset, FS_CardinalityType
<1>3. f[{}] = r /\ \A T \in SUBSET K : T # {} =>
        \E x \in T : f[T] = AppendKept(x, f[T \ {x}])
  BY <1>1 DEF KeptFold
<1>4. ASSUME NEW s, NEW n \in Nat, NEW k, Fine(s, n)
      PROVE  Fine(AppendKept(k, s), n + 1)
  <2>1. AppendKept(k, s) \in Good /\ s \in Receivers
    BY <1>4
  <2>2. CASE None(s)
    BY <1>4, <2>2, <2>1 DEF AppendKept
  <2>3. CASE ~None(s)
    <3> DEFINE c == CHOOSE c \in s.kept : c.start = NextStart(s)
    <3>1. c \in s.kept
      BY <2>3
    <3>2. AppendKept(k, s) = [s EXCEPT !.buffered = @ \o c.body, !.kept = @ \ {c}]
      BY <2>3 DEF AppendKept
    <3>3. AppendKept(k, s).kept = s.kept \ {c}
      <4> HIDE DEF c
      <4> QED BY <2>1, <3>2 DEF Receivers
    <3>4. Cardinality(s.kept \ {c}) = Cardinality(s.kept) - 1
      <4> HIDE DEF c
      <4> QED BY <1>2, <1>4, <3>1, FS_RemoveElement
    <3>5. Cardinality(s.kept) \in Nat /\ Cardinality(K) \in Nat
      BY <1>2, <1>4
    <3>6. Cardinality(s.kept) + n <= Cardinality(K)
      BY <1>4, <2>3
    <3>7. Cardinality(s.kept \ {c}) + (n + 1) <= Cardinality(K)
      <4> HIDE DEF c, K
      <4> QED BY <3>4, <3>5, <3>6
    <3> HIDE DEF c, None
    <3> QED
      BY <1>4, <2>1, <3>3, <3>7
  <2> QED
    BY <2>2, <2>3
<1> DEFINE Counted == {n \in Nat : \A T \in SUBSET K :
                                    Cardinality(T) = n => Fine(f[T], n)}
<1>5. 0 \in Counted
  <2>1. \A T \in SUBSET K : Cardinality(T) = 0 => T = {}
    BY <1>2, FS_EmptySet
  <2>2. Fine(r, 0)
    BY <1>2
  <2> HIDE DEF Fine
  <2> QED
    BY <1>3, <2>1, <2>2
<1>6. ASSUME NEW n \in Counted PROVE n + 1 \in Counted
  <2>1. n \in Nat
    OBVIOUS
  <2>2. ASSUME NEW T \in SUBSET K, Cardinality(T) = n + 1
        PROVE  Fine(f[T], n + 1)
    <3>1. T # {}
      <4>1. Cardinality(T) # 0
        BY <2>1, <2>2
      <4> QED
        BY <4>1, FS_EmptySet
    <3>2. PICK x \in T : f[T] = AppendKept(x, f[T \ {x}])
      BY <1>3, <3>1
    <3>3. Cardinality(T \ {x}) = n /\ T \ {x} \in SUBSET K
      BY <1>2, <2>1, <2>2, FS_RemoveElement
    <3>4. Fine(f[T \ {x}], n)
      <4> HIDE DEF Fine
      <4> QED BY <3>3
    <3> HIDE DEF Fine
    <3> QED
      BY <1>4, <2>1, <3>2, <3>4
  <2> HIDE DEF Fine
  <2> QED
    BY <2>1, <2>2
<1>7. Fine(f[K], Cardinality(K))
  <2>1. Cardinality(K) \in Counted
    <3>1. Counted \in SUBSET Nat
      OBVIOUS
    <3> HIDE DEF Counted
    <3> QED BY <1>2, <1>5, <1>6, <3>1, Induction
  <2> HIDE DEF Fine
  <2> QED
    BY <2>1
<1> DEFINE s == f[K]
<1> HIDE DEF s
<1>8. Fine(s, Cardinality(K))
  BY <1>7 DEF s
<1>9. None(s)
  <2> SUFFICES ASSUME Cardinality(s.kept) + Cardinality(K) <= Cardinality(K)
               PROVE  None(s)
    BY <1>8
  <2>1. Cardinality(s.kept) \in Nat /\ Cardinality(K) \in Nat /\ IsFiniteSet(s.kept)
    BY <1>2, <1>8
  <2>2. Cardinality(s.kept) = 0
    <3> HIDE DEF K
    <3> QED BY <2>1
  <2>3. s.kept = {}
    BY <2>1, <2>2, FS_EmptySet
  <2> QED
    BY <2>3
<1>10. AllKeptAppended(r) = s
  BY <1>1 DEF s
<1> QED
  BY <1>8, <1>9, <1>10

\* The chunks a receiver keeps are finitely many.
FineReceivers == {r \in Receivers : IsFiniteSet(r.kept)}

LEMMA AppendKeptType ==
  ASSUME NEW k, NEW r \in FineReceivers
  PROVE  AppendKept(k, r) \in FineReceivers
<1>1. CASE ~ \E c \in r.kept : c.start = NextStart(r)
  BY <1>1 DEF AppendKept
<1>2. CASE \E c \in r.kept : c.start = NextStart(r)
  <2> DEFINE c == CHOOSE c \in r.kept : c.start = NextStart(r)
             s == [r EXCEPT !.buffered = @ \o c.body, !.kept = @ \ {c}]
  <2>1. c \in r.kept
    BY <1>2
  <2>2. AppendKept(k, r) = s
    BY <1>2 DEF AppendKept
  <2> HIDE DEF c
  <2>3. r \in Receivers /\ c.body \in Seq(ByteSet) /\ IsFiniteSet(r.kept)
    BY <2>1 DEF FineReceivers, Receivers
  <2>4. r.buffered \o c.body \in Seq(ByteSet)
    BY <2>3, ConcatProperties DEF Receivers
  <2>5. IsFiniteSet(r.kept \ {c}) /\ r.kept \ {c} \in SUBSET r.kept
    BY <2>3, FS_RemoveElement
  <2>6. s \in Receivers /\ s.kept = r.kept \ {c}
    BY <2>3, <2>4 DEF Receivers
  <2> QED
    BY <2>2, <2>5, <2>6 DEF FineReceivers
<1> QED
  BY <1>1, <1>2

LEMMA WrittenType ==
  ASSUME NEW r \in FineReceivers
  PROVE  Written(r) \in FineReceivers
<1>1. r \in Receivers /\ IsFiniteSet(r.kept)
  BY DEF FineReceivers
<1>2. r.buffer \in Seq(ByteSet) /\ r.buffered \in Seq(ByteSet)
  BY <1>1 DEF Receivers
<1>3. r.buffer \o r.buffered \in Seq(ByteSet) /\ <<>> \in Seq(ByteSet)
  BY <1>2, ConcatProperties, EmptySeq
<1> DEFINE joined == r.buffer \o r.buffered
<1>4. Written(r) = [r EXCEPT !.buffer = joined, !.buffered = <<>>]
  BY DEF Written
<1> HIDE DEF joined
<1>5. Written(r) \in Receivers /\ Written(r).kept = r.kept
  BY <1>1, <1>3, <1>4 DEF Receivers, joined
<1> QED
  BY <1>1, <1>5 DEF FineReceivers

LEMMA ExpectedType ==
  ASSUME NEW r \in FineReceivers, NEW body \in Seq(ByteSet), NEW c, c.body = body
  PROVE  Expected(r, c) \in FineReceivers
<1> DEFINE s == [r EXCEPT !.buffered = @ \o c.body]
           a == AllKeptAppended(s)
<1>1. r \in Receivers /\ IsFiniteSet(r.kept)
  BY DEF FineReceivers
<1>2. r.buffered \o c.body \in Seq(ByteSet)
  BY <1>1, ConcatProperties DEF Receivers
<1>3. s \in Receivers /\ s.kept = r.kept
  BY <1>1, <1>2 DEF Receivers
<1>4. s \in FineReceivers
  BY <1>1, <1>3 DEF FineReceivers
<1>5. \A q \in FineReceivers : q \in Receivers
  BY DEF FineReceivers
<1>6. \A k, q : q \in FineReceivers => AppendKept(k, q) \in FineReceivers
  BY AppendKeptType
<1>7. a \in FineReceivers
  <2> HIDE DEF s
  <2> QED BY <1>1, <1>3, <1>4, <1>5, <1>6, AppendedStays
<1>8. WrittenIfDue(a) \in FineReceivers
  <2> HIDE DEF a
  <2> QED BY <1>7, WrittenType DEF WrittenIfDue
<1> QED
  BY <1>8 DEF Expected

LEMMA KeptForLaterType ==
  ASSUME NEW r \in FineReceivers, NEW c \in Chunks
  PROVE  KeptForLater(r, c) \in FineReceivers
<1> DEFINE others == {k \in r.kept : k.start # c.start}
           new == [start |-> c.start, body |-> c.body]
<1>1. r \in Receivers /\ IsFiniteSet(r.kept)
  BY DEF FineReceivers
<1>2. IsFiniteSet(others)
  BY <1>1, FS_Subset
<1>3. IsFiniteSet(others \cup {new})
  <2> HIDE DEF others, new
  <2> QED BY <1>2, FS_AddElement
<1>4. new \in [start : Nat, body : Seq(ByteSet)]
  BY DEF Chunks
<1>5. others \cup {new} \in SUBSET [start : Nat, body : Seq(ByteSet)]
  <2> HIDE DEF new
  <2> QED BY <1>1, <1>4 DEF Receivers
<1>6. KeptForLater(r, c) = [r EXCEPT !.kept = others \cup {new}]
  BY <1>1 DEF KeptForLater, Receivers
<1> HIDE DEF others, new
<1>7. KeptForLater(r, c) \in Receivers /\ KeptForLater(r, c).kept = others \cup {new}
  BY <1>1, <1>5, <1>6 DEF Receivers
<1> QED
  BY <1>3, <1>7 DEF FineReceivers

LEMMA OverlappingType ==
  ASSUME NEW r \in FineReceivers, NEW c \in Chunks
  PROVE  Overlapping(r, c) \in FineReceivers
<1> DEFINE w == Written(r)
           before == IF c.start > 1 THEN 1 ELSE 0
           after == IF c.start + Len(c.body) <= ReceivedSize(w) THEN 1 ELSE 0
           new == [j \in 1..before + 1 + after |-> Garbage]
<1>1. w \in FineReceivers
  BY WrittenType
<1>2. before + 1 + after \in Nat
  OBVIOUS
<1>3. new \in Seq(ByteSet)
  <2> HIDE DEF before, after
  <2> QED BY <1>2, GarbageType
<1>4. Overlapping(r, c) = [w EXCEPT !.buffer = new]
  BY DEF Overlapping
<1> HIDE DEF w, new
<1>5. w \in Receivers /\ IsFiniteSet(w.kept)
  BY <1>1 DEF FineReceivers
<1>6. Overlapping(r, c) \in Receivers /\ Overlapping(r, c).kept = w.kept
  BY <1>3, <1>4, <1>5 DEF Receivers
<1> QED
  BY <1>5, <1>6 DEF FineReceivers

LEMMA ProcessType ==
  ASSUME NEW r \in FineReceivers, NEW c \in Chunks
  PROVE  ProcessChunk(r, c) \in FineReceivers
<1> DEFINE t == IF c.flag = "end" THEN [r EXCEPT !.total = c.start + Len(c.body) - 1]
                                  ELSE r
<1>1. r \in Receivers /\ IsFiniteSet(r.kept)
  BY DEF FineReceivers
<1>2. c.start + Len(c.body) - 1 \in Nat
  <2>1. c.start \in Nat \ {0} /\ c.body \in Seq(ByteSet)
    BY DEF Chunks
  <2>2. Len(c.body) \in Nat
    BY <2>1, LenProperties
  <2> QED
    BY <2>1, <2>2
<1>3. t \in Receivers /\ t.kept = r.kept
  BY <1>1, <1>2 DEF Receivers
<1>4. t \in FineReceivers
  <2> HIDE DEF t
  <2> QED BY <1>1, <1>3 DEF FineReceivers
<1>5. c.body \in Seq(ByteSet)
  BY DEF Chunks
<1>6. [r EXCEPT !.aborted = TRUE] \in FineReceivers
  <2>1. /\ [r EXCEPT !.aborted = TRUE] \in Receivers
        /\ [r EXCEPT !.aborted = TRUE].kept = r.kept
    BY <1>1 DEF Receivers
  <2> QED
    BY <1>1, <2>1 DEF FineReceivers
<1>7. /\ Expected(t, c) \in FineReceivers
      /\ KeptForLater(t, c) \in FineReceivers
      /\ Overlapping(t, c) \in FineReceivers
  <2> HIDE DEF t
  <2> QED BY <1>4, <1>5, ExpectedType, KeptForLaterType, OverlappingType
<1>8. ProcessChunk(r, c) =
        IF Fails(r, c) THEN [r EXCEPT !.aborted = TRUE]
        ELSE IF c.start = NextStart(r) THEN Expected(t, c)
        ELSE IF c.start > NextStart(r) THEN KeptForLater(t, c)
        ELSE Overlapping(t, c)
  BY DEF ProcessChunk
<1> HIDE DEF t
<1> QED
  BY <1>6, <1>7, <1>8

LEMMA NewReceiverType ==
  ASSUME NEW c \in Chunks
  PROVE  NewReceiver(c) \in FineReceivers
<1> DEFINE r == [total |-> c.total, buffer |-> <<>>, buffered |-> <<>>, kept |-> {},
                 aborted |-> FALSE]
<1>1. c.total \in Nat \cup {Unknown} /\ <<>> \in Seq(ByteSet)
  BY DEF Chunks
<1>2. r \in Receivers /\ r.kept = {}
  BY <1>1 DEF Receivers
<1>3. r \in FineReceivers
  <2> HIDE DEF r
  <2> QED BY <1>2, FS_EmptySet DEF FineReceivers
<1>4. NewReceiver(c) = ProcessChunk(r, c)
  BY DEF NewReceiver
<1> HIDE DEF r
<1> QED
  BY <1>3, <1>4, ProcessType

-----------------------------------------------------------------------------
(* Type correctness.                                                       *)

TypeInv ==
  /\ TypeOK
  /\ \A m \in Received : IsFiniteSet(receivers[m].kept)

LEMMA ReceivedFine ==
  ASSUME TypeInv, NEW m \in Messages, receivers[m] # NoReceiver
  PROVE  receivers[m] \in FineReceivers
<1>1. receivers[m] \in Receivers /\ m \in Received
  BY DEF TypeInv, TypeOK, Received
<1> QED
  BY <1>1 DEF TypeInv, FineReceivers

\* A chunk that arrives leaves every type as it was.
LEMMA ReceiveType ==
  ASSUME TypeInv, NEW m \in Messages, NEW c \in Chunks, Receive(m, c)
  PROVE  /\ receivers' \in [Messages -> Receivers \cup {NoReceiver}]
         /\ \A n \in Messages : receivers'[n] # NoReceiver =>
              IsFiniteSet(receivers'[n].kept)
         /\ \A n \in stale' : n \in Messages /\ receivers'[n] # NoReceiver
         /\ polling' \in BOOLEAN
         /\ inbox' \in [Messages -> Seq(Seq(ByteSet))]
         /\ refused' \subseteq Messages
<1>1. /\ receivers \in [Messages -> Receivers \cup {NoReceiver}]
      /\ \A n \in stale : n \in Messages /\ receivers[n] # NoReceiver
      /\ polling \in BOOLEAN
      /\ inbox \in [Messages -> Seq(Seq(ByteSet))]
      /\ refused \subseteq Messages
      /\ \A n \in Messages : receivers[n] # NoReceiver => IsFiniteSet(receivers[n].kept)
  BY DEF TypeInv, TypeOK, Received
<1>2. \A r \in FineReceivers : r \in Receivers /\ IsFiniteSet(r.kept) /\ r # NoReceiver
  BY NullAssumption DEF FineReceivers
<1>3. ASSUME NEW body \in Seq(ByteSet)
      PROVE  [inbox EXCEPT ![m] = Append(@, body)] \in [Messages -> Seq(Seq(ByteSet))]
  <2>1. Append(inbox[m], body) \in Seq(Seq(ByteSet))
    BY <1>1
  <2> QED
    BY <1>1, <2>1
<1>4. CASE NotChunked(m, c)
  <2>1. c.body \in Seq(ByteSet)
    BY DEF Chunks
  <2> QED
    BY <1>1, <1>3, <1>4, <2>1 DEF NotChunked
<1>5. CASE FirstChunk(m, c)
  <2>1. NewReceiver(c) \in FineReceivers
    BY NewReceiverType
  <2> QED
    BY <1>1, <1>2, <1>5, <2>1 DEF FirstChunk
<1>6. CASE UnknownMessage(m, c)
  BY <1>1, <1>6 DEF UnknownMessage
<1>7. CASE FailingChunk(m, c)
  BY <1>1, <1>7 DEF FailingChunk
<1>8. CASE NextChunk(m, c)
  <2> DEFINE r == ProcessChunk(receivers[m], c)
  <2>1. r \in FineReceivers
    BY <1>8, ReceivedFine, ProcessType DEF NextChunk
  <2>2. r.buffer \in Seq(ByteSet)
    BY <1>2, <2>1 DEF Receivers
  <2>3. /\ \/ receivers' = [receivers EXCEPT ![m] = NoReceiver]
           \/ receivers' = [receivers EXCEPT ![m] = r]
        /\ \/ inbox' = [inbox EXCEPT ![m] = Append(@, r.buffer)]
           \/ inbox' = inbox
        /\ stale' = stale \ {m}
        /\ polling' = polling /\ refused' = refused
    BY <1>8 DEF NextChunk
  <2> HIDE DEF r
  <2> QED
    BY <1>1, <1>2, <1>3, <2>1, <2>2, <2>3
<1> QED
  BY <1>4, <1>5, <1>6, <1>7, <1>8 DEF Receive

LEMMA NumChunksType ==
  ASSUME NEW m \in Messages
  PROVE  NumChunks(m) \in Int
BY BodyType, TransferAssumption DEF NumChunks

LEMMA TypeInit == Init => TypeInv
<1> SUFFICES ASSUME Init PROVE TypeInv
  OBVIOUS
<1>1. Received = {}
  BY DEF Init, Received
<1>2. DOMAIN left = Messages /\ \A m \in Messages : left[m] \subseteq 1..NumChunks(m)
  BY DEF Init
<1>3. inbox \in [Messages -> Seq(Seq(ByteSet))]
  BY DEF Init
<1>4. receivers \in [Messages -> Receivers \cup {NoReceiver}]
  BY DEF Init
<1> QED
  BY <1>1, <1>2, <1>3, <1>4 DEF Init, TypeInv, TypeOK

LEMMA TypeStep == TypeInv /\ [Next]_vars => TypeInv'
<1> SUFFICES ASSUME TypeInv, [Next]_vars PROVE TypeInv'
  OBVIOUS
<1>1. \A m \in Messages : left[m] \subseteq Nat \ {0}
  BY NumChunksType DEF TypeInv, TypeOK
<1>2. ASSUME NEW m \in Messages, NEW c \in Chunks, Receive(m, c),
             DOMAIN left' = Messages,
             \A n \in Messages : left'[n] \subseteq 1..NumChunks(n),
             cut' \subseteq Messages, expired' = expired
      PROVE  TypeInv'
  <2>1. expired \subseteq Messages
    BY DEF TypeInv, TypeOK
  <2>2. /\ receivers' \in [Messages -> Receivers \cup {NoReceiver}]
        /\ \A n \in Messages : receivers'[n] # NoReceiver =>
             IsFiniteSet(receivers'[n].kept)
        /\ \A n \in stale' : n \in Messages /\ receivers'[n] # NoReceiver
        /\ polling' \in BOOLEAN
        /\ inbox' \in [Messages -> Seq(Seq(ByteSet))]
        /\ refused' \subseteq Messages
    BY <1>2, ReceiveType
  <2> QED
    BY <1>2, <2>1, <2>2 DEF TypeInv, TypeOK, Received
<1>3. ASSUME NEW m \in Messages, NEW i \in 1..NumChunks(m), Arrive(m, i)
      PROVE  TypeInv'
  <2>1. PICK told \in {Len(Body[m]), Unknown} : ArriveWith(m, i, told)
    BY <1>3 DEF Arrive
  <2>2. Chunk(m, i, told) \in Chunks
    BY NumChunksType, ChunkType
  <2> QED
    BY <1>2, <2>1, <2>2 DEF ArriveWith, TypeInv, TypeOK
<1>4. ASSUME NEW m \in Messages, NEW i \in 1..NumChunks(m), ArriveAgain(m, i)
      PROVE  TypeInv'
  <2>1. Chunk(m, i, Len(Body[m])) \in Chunks
    BY NumChunksType, ChunkType
  <2> QED
    BY <1>2, <1>4, <2>1 DEF ArriveAgain, TypeInv, TypeOK
<1>5. ASSUME NEW m \in Messages, Abort(m) PROVE TypeInv'
  <2>1. PICK c \in AbortChunks(m) : Receive(m, c)
    BY <1>5 DEF Abort
  <2>2. c \in Chunks
    BY <1>1, AbortType
  <2> QED
    BY <1>2, <1>5, <2>1, <2>2 DEF Abort, TypeInv, TypeOK
<1>6. ASSUME NEW m \in Messages, Wait(m) PROVE TypeInv'
  BY <1>6 DEF Wait, TypeInv, TypeOK, Received
<1>7. CASE Poll
  BY <1>7 DEF Poll, TypeInv, TypeOK, Received
<1>8. CASE UNCHANGED vars
  BY <1>8 DEF vars, TypeInv, TypeOK, Received
<1> QED
  BY <1>3, <1>4, <1>5, <1>6, <1>7, <1>8 DEF Next

\* Every variable keeps its type whatever the network does, and only a
\* receiver can be stale.
THEOREM TypeCorrect == Spec => []TypeOK
<1>1. Init => TypeInv
  BY TypeInit
<1>2. TypeInv /\ [Next]_vars => TypeInv'
  BY TypeStep
<1>3. TypeInv => TypeOK
  BY DEF TypeInv
<1> QED
  BY <1>1, <1>2, <1>3, PTL DEF Spec

-----------------------------------------------------------------------------
(* The chunks of a message.                                                *)

\* All chunks but the last are full, and the last ends the message.
LEMMA LastReach ==
  ASSUME NEW m \in Messages
  PROVE  /\ NumChunks(m) \in Nat \ {0}
         /\ Reach(m, NumChunks(m)) = Len(Body[m])
         /\ \A i \in 0..NumChunks(m) - 1 :
              Reach(m, i) = i * ChunkSize /\ (i > 0 => Reach(m, i) < Len(Body[m]))
<1> DEFINE L == Len(Body[m])
           n == NumChunks(m)
<1>1. L \in Nat /\ ChunkSize \in Nat \ {0}
  BY BodyType, TransferAssumption
<1>2. n = IF L = 0 THEN 1 ELSE (L + ChunkSize - 1) \div ChunkSize
  BY Zenon DEF NumChunks
<1>3. /\ n \in Nat \ {0} /\ n * ChunkSize \in Nat /\ L <= n * ChunkSize
      /\ \A i \in 0..n - 1 :
           i * ChunkSize \in Nat /\ i * ChunkSize <= L /\ (i > 0 => i * ChunkSize < L)
  <2> HIDE DEF L, n
  <2> QED BY <1>1, <1>2, Pieces
<1> QED
  BY <1>1, <1>3 DEF Reach

\* Each chunk starts where the one before it ends.
LEMMA StartIsNext ==
  ASSUME NEW m \in Messages, NEW i \in 1..NumChunks(m)
  PROVE  /\ ChunkStart(i) = Reach(m, i - 1) + 1
         /\ Reach(m, i - 1) \in Nat /\ Reach(m, i) \in Nat
         /\ Reach(m, i - 1) <= Reach(m, i)
         /\ Reach(m, i) <= Len(Body[m])
<1>1. /\ NumChunks(m) \in Nat \ {0} /\ i \in Nat \ {0} /\ i - 1 \in 0..NumChunks(m) - 1
      /\ ChunkSize \in Nat \ {0} /\ Len(Body[m]) \in Nat
  BY LastReach, BodyType, TransferAssumption
<1>2. Reach(m, i - 1) = (i - 1) * ChunkSize
  BY <1>1, LastReach
<1>3. /\ (i - 1) * ChunkSize \in Nat /\ i * ChunkSize \in Nat
      /\ (i - 1) * ChunkSize + ChunkSize = i * ChunkSize
  BY <1>1, PreviousMultiple
<1>4. Reach(m, i - 1) \in 0..Len(Body[m]) /\ Reach(m, i) \in 0..Len(Body[m])
  <2>1. i - 1 \in Nat /\ i \in Nat
    BY <1>1
  <2>2. \A j \in Nat : Reach(m, j) \in 0..Len(Body[m])
    BY ReachType
  <2> QED
    BY <2>1, <2>2
<1>5. Reach(m, i - 1) <= Reach(m, i)
  <2>1. CASE i * ChunkSize <= Len(Body[m])
    BY <1>1, <1>2, <1>3, <2>1 DEF Reach
  <2>2. CASE ~(i * ChunkSize <= Len(Body[m]))
    BY <1>4, <2>2 DEF Reach
  <2> QED
    BY <2>1, <2>2
<1> QED
  BY <1>1, <1>2, <1>3, <1>4, <1>5 DEF ChunkStart

LEMMA StartsRise ==
  ASSUME NEW i \in Nat \ {0}, NEW j \in Nat \ {0}, i < j
  PROVE  ChunkStart(i) \in Nat /\ ChunkStart(j) \in Nat /\ ChunkStart(i) < ChunkStart(j)
<1>1. i - 1 \in Nat /\ j - 1 \in Nat /\ i - 1 < j - 1 /\ ChunkSize \in Nat \ {0}
  BY TransferAssumption
<1>2. /\ (i - 1) * ChunkSize \in Nat /\ (j - 1) * ChunkSize \in Nat
      /\ (i - 1) * ChunkSize + ChunkSize <= (j - 1) * ChunkSize
  BY <1>1, Multiples
<1> QED
  BY <1>1, <1>2 DEF ChunkStart

LEMMA StartsDiffer ==
  ASSUME NEW i \in Nat \ {0}, NEW j \in Nat \ {0}, ChunkStart(i) = ChunkStart(j)
  PROVE  i = j
<1>1. ~(i < j) /\ ~(j < i)
  BY StartsRise
<1> QED
  BY <1>1

\* What the first p chunks hold.
Prefix(m, p) == SubSeq(Body[m], 1, Reach(m, p))

LEMMA PrefixFacts ==
  ASSUME NEW m \in Messages, NEW p \in 1..NumChunks(m)
  PROVE  /\ Prefix(m, p) \in Seq(ByteSet) /\ Len(Prefix(m, p)) = Reach(m, p)
         /\ p = NumChunks(m) => Prefix(m, p) = Body[m]
         /\ p < NumChunks(m) => Prefix(m, p) \o Piece(m, p + 1) = Prefix(m, p + 1)
<1>1. Body[m] \in Seq(ByteSet) /\ Len(Body[m]) \in Nat
  BY BodyType
<1>2. Reach(m, p) \in Nat /\ Reach(m, p) <= Len(Body[m])
  BY StartIsNext
<1>3. \A j \in 1..Reach(m, p) : Body[m][j] \in ByteSet
  BY <1>1, <1>2
<1>4. Prefix(m, p) \in Seq(ByteSet) /\ Len(Prefix(m, p)) = Reach(m, p)
  <2>1. 1 \in Int /\ Reach(m, p) \in Int
    BY <1>2
  <2>2. /\ Prefix(m, p) \in Seq(ByteSet)
        /\ Len(Prefix(m, p)) = IF 1 <= Reach(m, p) THEN Reach(m, p) - 1 + 1 ELSE 0
    BY <1>3, <2>1, SubSeqProperties DEF Prefix
  <2> QED
    BY <1>2, <2>2
<1>5. ASSUME p = NumChunks(m) PROVE Prefix(m, p) = Body[m]
  BY <1>1, <1>5, LastReach, SubSeqFull DEF Prefix
<1>6. ASSUME p < NumChunks(m)
      PROVE  Prefix(m, p) \o Piece(m, p + 1) = Prefix(m, p + 1)
  <2>1. p + 1 \in 1..NumChunks(m) /\ p + 1 - 1 = p
    BY <1>6, LastReach
  <2>2. /\ ChunkStart(p + 1) = Reach(m, p) + 1
        /\ Reach(m, p + 1) \in Nat /\ Reach(m, p) <= Reach(m, p + 1)
        /\ Reach(m, p + 1) <= Len(Body[m])
    BY <2>1, StartIsNext
  <2>3. 1 \in 1..Len(Body[m]) + 1 /\ Reach(m, p) \in 1 - 1..Len(Body[m])
        /\ Reach(m, p + 1) \in Reach(m, p)..Len(Body[m])
    BY <1>1, <1>2, <2>2
  <2> QED
    BY <1>1, <2>2, <2>3, ConcatAdjacentSubSeq DEF Prefix, Piece
<1> QED
  BY <1>4, <1>5, <1>6

\* The conversions keep bytes that leave no character incomplete.
LEMMA RecodeWhole ==
  ASSUME Uncut, NEW m \in Messages, NEW i \in 1..NumChunks(m)
  PROVE  Recode(m, Piece(m, i)) = Piece(m, i)
<1> DEFINE b == Piece(m, i)
           Has(c, k) == \E j \in DOMAIN b : b[j].char = c /\ b[j].at = k
           Whole(c) == \A k \in 1..Widths[m][c] : Has(c, k)
           Coded(x) == IF Whole(x.char) THEN <<x>>
                       ELSE IF x.at > 1 /\ Has(x.char, 1) THEN <<>>
                       ELSE <<Garbage, Garbage, Garbage>>
<1>1. i \in Nat /\ i > 0 /\ i * ChunkSize \in Int /\ Len(Body[m]) \in Int
  BY LastReach, BodyType, TransferAssumption
<1>2. b = SubSeq(Body[m], ChunkStart(i), Min({i * ChunkSize, Len(Body[m])}))
  BY <1>1, SmallerOfTwo DEF Piece, Reach
<1>3. b \in Seq(ByteSet)
  BY <1>1, ReachType
<1> HIDE DEF b
<1>4. \A j \in DOMAIN b : Whole(b[j].char)
  <2> DEFINE piece == SubSeq(Body[m], ChunkStart(i), Min({i * ChunkSize, Len(Body[m])}))
  <2>1. \A j \in DOMAIN piece : \A k \in 1..Widths[m][piece[j].char] :
          \E l \in DOMAIN piece : piece[l].char = piece[j].char /\ piece[l].at = k
    BY Zenon DEF Uncut
  <2>2. b = piece
    BY <1>2
  <2> HIDE DEF piece
  <2> QED
    BY <2>1, <2>2
<1>5. \A j \in DOMAIN b : Coded(b[j]) = <<b[j]>>
  <2> HIDE DEF Whole
  <2> QED BY <1>4
<1>6. [j \in DOMAIN b |-> Coded(b[j])] = [j \in DOMAIN b |-> <<b[j]>>]
  <2> HIDE DEF Coded
  <2> QED BY <1>5
<1>7. Recode(m, b) = FlattenSeq([j \in DOMAIN b |-> Coded(b[j])])
  BY DEF Recode
<1>8. Recode(m, b) = b
  <2> HIDE DEF Coded
  <2> QED BY <1>3, <1>6, <1>7, FlattenSingles
<1> QED
  BY <1>8 DEF b

LEMMA ChunkMeant ==
  ASSUME Uncut, NEW m \in Messages, NEW i \in 1..NumChunks(m), NEW told
  PROVE  /\ Chunk(m, i, told) =
              [start |-> ChunkStart(i), total |-> told,
               flag |-> IF i = NumChunks(m) THEN "end" ELSE "continued",
               body |-> Piece(m, i)]
         /\ i = NumChunks(m) => ChunkStart(i) + Len(Piece(m, i)) - 1 = Len(Body[m])
<1>1. i \in Nat \ {0} /\ NumChunks(m) \in Nat /\ Len(Body[m]) \in Nat
  BY LastReach, BodyType
<1>2. Reach(m, i) < Len(Body[m]) <=> i # NumChunks(m)
  <2>1. CASE i = NumChunks(m)
    BY <1>1, <2>1, LastReach
  <2>2. CASE i # NumChunks(m)
    <3>1. i \in 0..NumChunks(m) - 1 /\ i > 0
      BY <1>1, <2>2
    <3> QED
      BY <2>2, <3>1, LastReach
  <2> QED
    BY <2>1, <2>2
<1>3. ASSUME i = NumChunks(m)
      PROVE  ChunkStart(i) + Len(Piece(m, i)) - 1 = Len(Body[m])
  <2>1. /\ ChunkStart(i) \in Nat \ {0} /\ Reach(m, i) = Len(Body[m])
        /\ ChunkStart(i) <= Reach(m, i) + 1
    <3>1. ChunkStart(i) \in Nat \ {0}
      BY <1>1, ReachType
    <3>2. Reach(m, i) = Len(Body[m])
      BY <1>3, LastReach
    <3>3. /\ ChunkStart(i) = Reach(m, i - 1) + 1 /\ Reach(m, i - 1) <= Reach(m, i)
          /\ Reach(m, i - 1) \in Nat /\ Reach(m, i) \in Nat
      BY StartIsNext
    <3> QED
      BY <3>1, <3>2, <3>3
  <2>2. \A j \in ChunkStart(i)..Reach(m, i) : Body[m][j] \in ByteSet
    BY <2>1, BodyType
  <2>3. Len(Piece(m, i)) = IF ChunkStart(i) <= Reach(m, i)
                           THEN Reach(m, i) - ChunkStart(i) + 1 ELSE 0
    BY <1>1, <2>1, <2>2, SubSeqProperties DEF Piece
  <2> QED
    BY <1>1, <2>1, <2>3
<1> QED
  BY <1>1, <1>2, <1>3, ChunkShape, RecodeWhole

-----------------------------------------------------------------------------
(* What a receiver holds.                                                  *)

Kept(m, i) == [start |-> ChunkStart(i), body |-> Piece(m, i)]

\* The buffers hold the first p chunks of m; those of the chunks in arrived
\* that come later are kept.
Holds(r, m, p, arrived) ==
  /\ r \in Receivers /\ ~r.aborted
  /\ p \in 1..NumChunks(m) /\ 1..p \subseteq arrived
  /\ r.buffer \o r.buffered = Prefix(m, p)
  /\ r.kept = {Kept(m, i) : i \in {j \in arrived : j > p}}

LEMMA HeldLength ==
  ASSUME NEW m \in Messages, NEW arrived, NEW p, NEW r, Holds(r, m, p, arrived)
  PROVE  /\ r.buffer \in Seq(ByteSet) /\ r.buffered \in Seq(ByteSet)
         /\ Len(r.buffer) \in Nat /\ Len(r.buffered) \in Nat
         /\ Len(r.buffer) + Len(r.buffered) = Reach(m, p)
         /\ NextStart(r) = Reach(m, p) + 1
<1>1. r.buffer \in Seq(ByteSet) /\ r.buffered \in Seq(ByteSet) /\ p \in 1..NumChunks(m)
  BY DEF Holds, Receivers
<1>2. Len(r.buffer) \in Nat /\ Len(r.buffered) \in Nat
  BY <1>1, LenProperties
<1>3. Len(r.buffer \o r.buffered) = Len(r.buffer) + Len(r.buffered)
  BY <1>1, ConcatProperties
<1>4. Len(r.buffer \o r.buffered) = Reach(m, p)
  BY <1>1, PrefixFacts DEF Holds
<1> QED
  BY <1>1, <1>2, <1>3, <1>4 DEF NextStart

\* The kept chunk that comes next is the next chunk of the message.
LEMMA HeldNext ==
  ASSUME NEW m \in Messages, NEW arrived \in SUBSET (1..NumChunks(m)),
         NEW p, NEW r, Holds(r, m, p, arrived)
  PROVE  /\ \A c \in r.kept : c.start = NextStart(r) =>
              p + 1 \in arrived /\ c = Kept(m, p + 1)
         /\ p + 1 \in arrived =>
              Kept(m, p + 1) \in r.kept /\ Kept(m, p + 1).start = NextStart(r)
<1>1. p \in Nat \ {0} /\ NumChunks(m) \in Nat /\ p \in 1..NumChunks(m)
  BY LastReach DEF Holds
<1>2. NextStart(r) = Reach(m, p) + 1
  BY HeldLength
<1>3. ASSUME NEW i \in arrived, i > p PROVE p + 1 \in 1..NumChunks(m)
  <2>1. i \in 1..NumChunks(m)
    OBVIOUS
  <2> QED
    BY <1>1, <1>3, <2>1
<1>4. ASSUME p + 1 \in 1..NumChunks(m) PROVE ChunkStart(p + 1) = NextStart(r)
  <2>1. PICK i \in 1..NumChunks(m) : i = p + 1
    BY <1>4
  <2>2. i - 1 = p
    BY <1>1, <2>1
  <2>3. ChunkStart(i) = Reach(m, i - 1) + 1
    BY StartIsNext
  <2> QED
    BY <1>2, <2>1, <2>2, <2>3
<1>5. ASSUME NEW c \in r.kept, c.start = NextStart(r)
      PROVE  p + 1 \in arrived /\ c = Kept(m, p + 1)
  <2>1. PICK i \in arrived : i > p /\ c = Kept(m, i)
    BY DEF Holds
  <2>2. ChunkStart(i) = ChunkStart(p + 1)
    BY <1>3, <1>4, <1>5, <2>1 DEF Kept
  <2>3. i \in Nat \ {0} /\ p + 1 \in Nat \ {0}
    BY <1>1, <2>1
  <2>4. i = p + 1
    BY <2>2, <2>3, StartsDiffer
  <2> QED
    BY <2>1, <2>4
<1>6. ASSUME p + 1 \in arrived
      PROVE  Kept(m, p + 1) \in r.kept /\ Kept(m, p + 1).start = NextStart(r)
  <2>1. p + 1 > p
    BY <1>1
  <2> QED
    BY <1>4, <1>6, <2>1 DEF Holds, Kept
<1> QED
  BY <1>5, <1>6

\* The next chunk of the message joined to what is held.
LEMMA JoinsNext ==
  ASSUME NEW m \in Messages, NEW arrived, NEW p, NEW r, Holds(r, m, p, arrived),
         p < NumChunks(m)
  PROVE  /\ Piece(m, p + 1) \in Seq(ByteSet)
         /\ r.buffered \o Piece(m, p + 1) \in Seq(ByteSet)
         /\ r.buffer \o (r.buffered \o Piece(m, p + 1)) = Prefix(m, p + 1)
<1> DEFINE piece == Piece(m, p + 1)
<1>1. p \in Nat \ {0} /\ p \in 1..NumChunks(m)
  BY LastReach DEF Holds
<1>2. piece \in Seq(ByteSet)
  <2>1. p + 1 \in Nat /\ p + 1 > 0
    BY <1>1
  <2> QED
    BY <2>1, ReachType
<1>3. Prefix(m, p) \o piece = Prefix(m, p + 1)
  BY <1>1, PrefixFacts
<1> HIDE DEF piece
<1>4. r.buffer \in Seq(ByteSet) /\ r.buffered \in Seq(ByteSet)
  BY HeldLength
<1>5. r.buffered \o piece \in Seq(ByteSet)
  BY <1>2, <1>4, ConcatProperties
<1>6. (r.buffer \o r.buffered) \o piece = r.buffer \o (r.buffered \o piece)
  <2>1. \A a, b, d \in Seq(ByteSet) : (a \o b) \o d = a \o (b \o d)
    BY ConcatAssociative
  <2> QED
    BY <1>2, <1>4, <2>1
<1>7. r.buffer \o (r.buffered \o piece) = Prefix(m, p + 1)
  BY <1>3, <1>6 DEF Holds
<1> QED
  BY <1>2, <1>5, <1>7 DEF piece

LEMMA AppendHolds ==
  ASSUME NEW m \in Messages, NEW arrived \in SUBSET (1..NumChunks(m)),
         NEW p, NEW r, Holds(r, m, p, arrived), NEW k
  PROVE  /\ AppendKept(k, r).total = r.total
         /\ \E q \in {p, p + 1} : Holds(AppendKept(k, r), m, q, arrived)
<1>1. CASE ~ \E c \in r.kept : c.start = NextStart(r)
  BY <1>1 DEF AppendKept
<1>2. CASE \E c \in r.kept : c.start = NextStart(r)
  <2> DEFINE c == CHOOSE c \in r.kept : c.start = NextStart(r)
             piece == Piece(m, p + 1)
             s == [r EXCEPT !.buffered = @ \o c.body, !.kept = @ \ {c}]
  <2>1. c \in r.kept /\ c.start = NextStart(r)
    BY <1>2
  <2>2. AppendKept(k, r) = s
    BY <1>2 DEF AppendKept
  <2>3. p + 1 \in arrived /\ c = Kept(m, p + 1)
    <3> HIDE DEF c
    <3> QED BY <2>1, HeldNext
  <2> HIDE DEF c
  <2>4. p \in Nat \ {0} /\ NumChunks(m) \in Nat /\ p \in 1..NumChunks(m) /\ r \in Receivers
    BY LastReach DEF Holds
  <2>5. p < NumChunks(m) /\ p + 1 \in 1..NumChunks(m)
    BY <2>3, <2>4
  <2>6. c.body = piece /\ piece \in Seq(ByteSet)
    BY <2>3, <2>5, JoinsNext DEF Kept
  <2>7. r.buffer \in Seq(ByteSet) /\ r.buffered \in Seq(ByteSet)
    BY HeldLength
  <2>8. r.buffered \o piece \in Seq(ByteSet)
    BY <2>5, JoinsNext
  <2>9. r.buffer \o (r.buffered \o piece) = Prefix(m, p + 1)
    BY <2>5, JoinsNext
  <2> HIDE DEF piece
  <2> DEFINE joined == r.buffered \o piece
             rest == r.kept \ {c}
  <2>10. s = [r EXCEPT !.buffered = joined, !.kept = rest]
    BY <2>6
  <2> HIDE DEF joined, rest
  <2>11. /\ s \in Receivers /\ s.aborted = r.aborted /\ s.total = r.total
         /\ s.buffer = r.buffer /\ s.buffered = joined /\ s.kept = rest
    <3>1. joined \in Seq(ByteSet)
      BY <2>8 DEF joined
    <3>2. rest \in SUBSET [start : Nat, body : Seq(ByteSet)]
      BY <2>4 DEF rest, Receivers
    <3> HIDE DEF s
    <3> QED BY <2>4, <2>10, <3>1, <3>2 DEF Receivers
  <2> HIDE DEF s
  <2>12. rest = {Kept(m, i) : i \in {j \in arrived : j > p + 1}}
    <3>1. \A i \in arrived : i \in Nat \ {0}
      BY <2>4
    <3>2. \A i \in arrived : Kept(m, i) = Kept(m, p + 1) => i = p + 1
      <4> TAKE i \in arrived
      <4>1. i \in Nat \ {0} /\ p + 1 \in Nat \ {0}
        BY <2>4, <3>1
      <4>2. Kept(m, i) = Kept(m, p + 1) => ChunkStart(i) = ChunkStart(p + 1)
        BY DEF Kept
      <4> QED
        BY <4>1, <4>2, StartsDiffer
    <3>3. \A i \in arrived : i > p + 1 <=> (i > p /\ i # p + 1)
      BY <2>4, <3>1
    <3>4. r.kept = {Kept(m, i) : i \in {j \in arrived : j > p}}
      BY DEF Holds
    <3> QED
      BY <2>3, <3>2, <3>3, <3>4 DEF rest
  <2>13. 1..p + 1 \subseteq arrived
    <3>1. 1..p \subseteq arrived
      BY DEF Holds
    <3> QED
      BY <2>3, <2>4, <3>1
  <2>14. Holds(s, m, p + 1, arrived)
    <3>1. s.buffer \o s.buffered = Prefix(m, p + 1)
      BY <2>9, <2>11 DEF joined
    <3>2. ~s.aborted
      BY <2>11 DEF Holds
    <3> QED
      BY <2>5, <2>11, <2>12, <2>13, <3>1, <3>2 DEF Holds
  <2> QED
    BY <2>2, <2>11, <2>14
<1> QED
  BY <1>1, <1>2

LEMMA WrittenHolds ==
  ASSUME NEW m \in Messages, NEW arrived, NEW p, NEW r, Holds(r, m, p, arrived)
  PROVE  /\ Holds(Written(r), m, p, arrived)
         /\ Written(r).total = r.total
         /\ Written(r).buffer = Prefix(m, p)
<1> DEFINE joined == r.buffer \o r.buffered
<1>1. r \in Receivers /\ r.buffer \in Seq(ByteSet) /\ r.buffered \in Seq(ByteSet)
  BY HeldLength DEF Holds
<1>2. joined \in Seq(ByteSet) /\ joined \o <<>> = joined /\ <<>> \in Seq(ByteSet)
  BY <1>1, ConcatProperties, ConcatEmptySeq, EmptySeq
<1>3. joined = Prefix(m, p)
  BY DEF Holds
<1>4. Written(r) = [r EXCEPT !.buffer = joined, !.buffered = <<>>]
  BY DEF Written
<1> HIDE DEF joined
<1>5. /\ Written(r) \in Receivers /\ Written(r).buffer = joined
      /\ Written(r).buffered = <<>> /\ Written(r).kept = r.kept
      /\ Written(r).total = r.total /\ Written(r).aborted = r.aborted
  BY <1>1, <1>2, <1>4 DEF Receivers
<1>6. Written(r).buffer \o Written(r).buffered = Prefix(m, p)
  BY <1>2, <1>3, <1>5
<1> QED
  BY <1>3, <1>5, <1>6 DEF Holds

\* A chunk that comes next brings every chunk that then comes next with it,
\* and the last chunk completes the body.
LEMMA AllAppendedHolds ==
  ASSUME NEW m \in Messages, NEW arrived \in SUBSET (1..NumChunks(m)),
         NEW p, NEW r, Holds(r, m, p, arrived), IsFiniteSet(r.kept)
  PROVE  LET w == WrittenIfDue(AllKeptAppended(r))
         IN /\ w.total = r.total
            /\ \E q \in 1..NumChunks(m) :
                 /\ Holds(w, m, q, arrived) /\ q + 1 \notin arrived
                 /\ q = NumChunks(m) /\ r.total = Len(Body[m]) => w.buffer = Body[m]
<1> DEFINE Good == {x \in Receivers : x.total = r.total /\
                      \E q \in 1..NumChunks(m) : Holds(x, m, q, arrived)}
           a == AllKeptAppended(r)
<1>3. r \in Good
  BY DEF Holds
<1>4. \A x \in Good : x \in Receivers
  OBVIOUS
<1>5. ASSUME NEW k, NEW x, x \in Good PROVE AppendKept(k, x) \in Good
  <2>1. PICK q \in 1..NumChunks(m) : Holds(x, m, q, arrived)
    BY <1>5
  <2>2. PICK q2 : Holds(AppendKept(k, x), m, q2, arrived) /\ AppendKept(k, x).total = x.total
    BY <2>1, AppendHolds
  <2> QED
    BY <1>5, <2>2 DEF Holds
<1>6. a \in Good /\ ~ \E d \in a.kept : d.start = NextStart(a)
  <2> HIDE DEF Good
  <2> QED BY <1>3, <1>4, <1>5, AppendedStays
<1> HIDE DEF a
<1>7. PICK q \in 1..NumChunks(m) : Holds(a, m, q, arrived) /\ a.total = r.total
  BY <1>6
<1>8. q + 1 \notin arrived
  <2>1. q + 1 \in arrived =>
          Kept(m, q + 1) \in a.kept /\ Kept(m, q + 1).start = NextStart(a)
    BY <1>7, HeldNext
  <2> QED
    BY <1>6, <2>1
<1>9. /\ Holds(WrittenIfDue(a), m, q, arrived)
      /\ WrittenIfDue(a).total = r.total
  BY <1>7, WrittenHolds DEF WrittenIfDue
<1>10. ASSUME q = NumChunks(m), r.total = Len(Body[m])
       PROVE  WrittenIfDue(a).buffer = Body[m]
  <2>1. Len(a.buffer) + Len(a.buffered) = Len(Body[m])
    <3>1. Len(a.buffer) + Len(a.buffered) = Reach(m, q)
      BY <1>7, HeldLength
    <3>2. Reach(m, NumChunks(m)) = Len(Body[m])
      BY LastReach
    <3> QED
      BY <1>10, <3>1, <3>2
  <2>2. WrittenIfDue(a) = Written(a)
    BY <1>7, <1>10, <2>1 DEF WrittenIfDue, ReceivedSize
  <2>3. Written(a).buffer = Prefix(m, q)
    BY <1>7, WrittenHolds
  <2>4. Prefix(m, q) = Body[m]
    BY <1>10, PrefixFacts
  <2> QED
    BY <2>2, <2>3, <2>4
<1> QED
  BY <1>8, <1>9, <1>10 DEF a

\* s is what chunk i of m makes of a receiver r.
Progress(m, arrived, i, r, s) ==
  /\ i = NumChunks(m) => s.total = Len(Body[m])
  /\ i # NumChunks(m) => s.total = r.total
  /\ \E q \in 1..NumChunks(m) :
       /\ Holds(s, m, q, arrived \cup {i}) /\ q + 1 \notin arrived \cup {i}
       /\ q = NumChunks(m) /\ s.total = Len(Body[m]) => s.buffer = Body[m]

\* What becomes of a receiver that waits for chunk p + 1 when chunk i comes.
LEMMA ProcessHolds ==
  ASSUME Uncut, NEW m \in Messages, NEW arrived \in SUBSET (1..NumChunks(m)),
         NEW r \in FineReceivers, NEW p, Holds(r, m, p, arrived), p + 1 \notin arrived,
         NEW i \in 1..NumChunks(m), i > p,
         NEW told, NEW c, c = Chunk(m, i, told), NEW s, s = ProcessChunk(r, c)
  PROVE  c.start > 1 /\ ~Fails(r, c) /\ Progress(m, arrived, i, r, s)
<1> DEFINE N == NumChunks(m)
           B == arrived \cup {i}
           t == IF c.flag = "end" THEN [r EXCEPT !.total = c.start + Len(c.body) - 1]
                                  ELSE r
<1>1. /\ p \in Nat \ {0} /\ N \in Nat /\ p \in 1..N /\ i \in Nat \ {0} /\ p < N
      /\ r \in Receivers /\ IsFiniteSet(r.kept) /\ ~r.aborted /\ Len(Body[m]) \in Nat
  <2>1. N \in Nat /\ Len(Body[m]) \in Nat
    BY LastReach, BodyType
  <2>2. p \in 1..N /\ i \in 1..N /\ ~r.aborted
    BY DEF Holds
  <2>3. r \in Receivers /\ IsFiniteSet(r.kept)
    BY DEF FineReceivers
  <2> HIDE DEF N
  <2> QED
    BY <2>1, <2>2, <2>3
<1>2. /\ c = [start |-> ChunkStart(i), total |-> told,
              flag |-> IF i = N THEN "end" ELSE "continued", body |-> Piece(m, i)]
      /\ i = N => ChunkStart(i) + Len(Piece(m, i)) - 1 = Len(Body[m])
  BY ChunkMeant
<1>3. /\ c.start = ChunkStart(i) /\ c.body = Piece(m, i)
      /\ c.flag = IF i = N THEN "end" ELSE "continued"
  BY <1>2
<1>4. /\ ChunkStart(p + 1) = NextStart(r) /\ ChunkStart(1) \in Nat \ {0}
      /\ NextStart(r) \in Nat
  <2>1. PICK k \in 1..N : k = p + 1
    BY <1>1
  <2>2. k - 1 = p /\ ChunkStart(k) = Reach(m, k - 1) + 1 /\ Reach(m, k - 1) \in Nat
    BY <1>1, <2>1, StartIsNext
  <2>3. NextStart(r) = Reach(m, p) + 1
    BY HeldLength
  <2>4. ChunkStart(1) \in Nat \ {0}
    BY ReachType
  <2> QED
    BY <2>1, <2>2, <2>3, <2>4
<1>5. c.start > 1
  <2>1. ChunkStart(1) < ChunkStart(i) /\ ChunkStart(i) \in Nat
    BY <1>1, StartsRise
  <2> QED
    BY <1>3, <1>4, <2>1
<1>6. ~Fails(r, c)
  BY <1>1, <1>3 DEF Fails
<1>7. /\ t = [r EXCEPT !.total = IF i = N THEN Len(Body[m]) ELSE r.total]
  BY <1>1, <1>2, <1>3 DEF Receivers
<1>8. s = IF c.start = NextStart(r) THEN Expected(t, c)
          ELSE IF c.start > NextStart(r) THEN KeptForLater(t, c)
          ELSE Overlapping(t, c)
  BY <1>6 DEF ProcessChunk
<1> HIDE DEF t
<1>9. /\ t \in Receivers /\ t.buffer = r.buffer /\ t.buffered = r.buffered
      /\ t.kept = r.kept /\ t.aborted = r.aborted
      /\ t.total = IF i = N THEN Len(Body[m]) ELSE r.total
  BY <1>1, <1>7 DEF Receivers
<1>10. \A j \in B : j \in Nat \ {0}
  BY <1>1
<1>11. B \in SUBSET (1..N) /\ 1..p \subseteq B
  BY DEF Holds
<1>12. CASE i = p + 1
  <2> DEFINE joined == r.buffered \o c.body
             u == [t EXCEPT !.buffered = @ \o c.body]
  <2>1. joined \in Seq(ByteSet) /\ r.buffer \o joined = Prefix(m, p + 1)
    BY <1>1, <1>3, <1>12, JoinsNext
  <2>2. u = [t EXCEPT !.buffered = joined]
    BY <1>9
  <2> HIDE DEF joined
  <2>3. /\ u \in Receivers /\ u.buffer = r.buffer /\ u.buffered = joined
        /\ u.kept = r.kept /\ ~u.aborted /\ u.total = t.total
    BY <1>1, <1>9, <2>1, <2>2 DEF Receivers
  <2>4. r.kept = {Kept(m, j) : j \in {k \in B : k > p + 1}}
    <3>1. {k \in B : k > p + 1} = {k \in arrived : k > p}
      <4>1. ASSUME NEW k \in arrived PROVE k > p <=> k > p + 1
        <5>1. k \in Nat /\ k # p + 1
          BY <1>10
        <5> QED
          BY <1>1, <5>1
      <4>2. ~(i > p + 1)
        BY <1>1, <1>12
      <4> QED
        BY <4>1, <4>2
    <3> QED
      BY <3>1 DEF Holds
  <2>5. p + 1 \in 1..N /\ 1..p + 1 \subseteq B
    BY <1>1, <1>11, <1>12
  <2>6. Holds(u, m, p + 1, B)
    <3> HIDE DEF u, B
    <3> QED BY <2>1, <2>3, <2>4, <2>5 DEF Holds
  <2>7. s = Expected(t, c)
    BY <1>3, <1>4, <1>8, <1>12
  <2>8. /\ Expected(t, c).total = t.total
        /\ \E q \in 1..N :
             /\ Holds(Expected(t, c), m, q, B) /\ q + 1 \notin B
             /\ q = N /\ t.total = Len(Body[m]) => Expected(t, c).buffer = Body[m]
    <3>1. IsFiniteSet(u.kept) /\ u.total = t.total
      BY <1>1, <1>9, <2>3
    <3>2. Expected(t, c) = WrittenIfDue(AllKeptAppended(u))
      BY DEF Expected
    <3> HIDE DEF B, u
    <3>3. LET w == WrittenIfDue(AllKeptAppended(u))
          IN /\ w.total = u.total
             /\ \E q \in 1..NumChunks(m) :
                  /\ Holds(w, m, q, B) /\ q + 1 \notin B
                  /\ q = NumChunks(m) /\ u.total = Len(Body[m]) => w.buffer = Body[m]
      BY <1>11, <2>6, <3>1, AllAppendedHolds
    <3> QED BY <3>1, <3>2, <3>3
  <2> HIDE DEF B, u
  <2>9. s.total = t.total
    BY <2>7, <2>8
  <2>10. \E q \in 1..N : /\ Holds(s, m, q, B) /\ q + 1 \notin B
                         /\ q = N /\ s.total = Len(Body[m]) => s.buffer = Body[m]
    BY <2>7, <2>8, <2>9
  <2> QED
    BY <1>5, <1>6, <1>9, <2>9, <2>10 DEF B, Progress
<1>13. CASE i > p + 1
  <2> DEFINE new == [start |-> c.start, body |-> c.body]
             kept == {k \in r.kept : k.start # c.start} \cup {new}
  <2>1. c.start > NextStart(r) /\ c.start # NextStart(r)
    <3>1. p + 1 \in Nat \ {0}
      BY <1>1
    <3>2. ChunkStart(p + 1) < ChunkStart(i) /\ ChunkStart(i) \in Nat
      BY <1>1, <1>13, <3>1, StartsRise
    <3> QED
      BY <1>3, <1>4, <3>2
  <2>2. s = [t EXCEPT !.kept = kept]
    BY <1>8, <1>9, <2>1 DEF KeptForLater
  <2>3. new = Kept(m, i)
    BY <1>3 DEF Kept
  <2>4. kept = {Kept(m, j) : j \in {k \in B : k > p}}
    <3>1. \A j \in B : Kept(m, j).start = c.start <=> j = i
      <4> TAKE j \in B
      <4>1. j \in Nat \ {0}
        BY <1>10
      <4>2. ChunkStart(j) = ChunkStart(i) => j = i
        BY <1>1, <4>1, StartsDiffer
      <4> QED
        BY <1>3, <4>2 DEF Kept
    <3>2. r.kept = {Kept(m, j) : j \in {k \in arrived : k > p}}
      BY DEF Holds
    <3> HIDE DEF new
    <3>3. ASSUME NEW x \in kept PROVE x \in {Kept(m, j) : j \in {k \in B : k > p}}
      BY <2>3, <3>2
    <3>4. ASSUME NEW j \in B, j > p PROVE Kept(m, j) \in kept
      <4>1. CASE j = i
        BY <2>3, <4>1
      <4>2. CASE j # i
        BY <3>1, <3>2, <3>4, <4>2
      <4> QED
        BY <4>1, <4>2
    <3> HIDE DEF kept, B
    <3> QED
      BY <3>3, <3>4
  <2>5. kept \in SUBSET [start : Nat, body : Seq(ByteSet)]
    <3>1. Piece(m, i) \in Seq(ByteSet) /\ ChunkStart(i) \in Nat
      BY <1>1, ReachType
    <3>2. new \in [start : Nat, body : Seq(ByteSet)]
      BY <1>3, <3>1
    <3> HIDE DEF new
    <3> QED
      BY <1>1, <3>2 DEF Receivers
  <2> HIDE DEF kept
  <2>6. /\ s \in Receivers /\ s.buffer = r.buffer /\ s.buffered = r.buffered
        /\ s.kept = kept /\ ~s.aborted /\ s.total = t.total
    BY <1>1, <1>9, <2>2, <2>5 DEF Receivers
  <2>7. Holds(s, m, p, B)
    <3>1. r.buffer \o r.buffered = Prefix(m, p)
      BY DEF Holds
    <3> HIDE DEF B
    <3> QED BY <1>1, <1>11, <2>4, <2>6, <3>1 DEF Holds
  <2>8. p + 1 \notin B /\ p # N
    BY <1>1, <1>13
  <2>9. \E q \in 1..N : /\ Holds(s, m, q, B) /\ q + 1 \notin B
                        /\ q = N /\ s.total = Len(Body[m]) => s.buffer = Body[m]
    <3> HIDE DEF B, N
    <3> QED BY <1>1, <2>7, <2>8
  <2> HIDE DEF B
  <2> QED
    BY <1>5, <1>6, <1>9, <2>6, <2>9 DEF B, Progress
<1>14. i = p + 1 \/ i > p + 1
  BY <1>1
<1> QED
  BY <1>12, <1>13, <1>14, Zenon

\* A receiver counts itself complete only when it has the whole body.
LEMMA CompleteHolds ==
  ASSUME NEW m \in Messages, NEW arrived \in SUBSET (1..NumChunks(m)),
         NEW p, NEW r, Holds(r, m, p, arrived), r.total \in {Len(Body[m]), Unknown}
  PROVE  /\ IsComplete(r) => p = NumChunks(m) /\ r.buffer = Body[m]
         /\ r.buffer = Body[m] /\ r.total = Len(Body[m]) => IsComplete(r)
<1>1. /\ p \in 1..NumChunks(m) /\ NumChunks(m) \in Nat \ {0} /\ Len(Body[m]) \in Nat
      /\ Body[m] \in Seq(ByteSet)
      /\ Reach(m, p) <= Len(Body[m]) /\ Reach(m, p) \in Nat
  BY LastReach, BodyType, StartIsNext DEF Holds
<1>2. /\ r.buffer \in Seq(ByteSet) /\ r.buffered \in Seq(ByteSet)
      /\ Len(r.buffer) \in Nat /\ Len(r.buffered) \in Nat
      /\ Len(r.buffer) + Len(r.buffered) = Reach(m, p)
  BY HeldLength
<1>3. ASSUME IsComplete(r) PROVE p = NumChunks(m) /\ r.buffer = Body[m]
  <2>1. Len(r.buffer) = Len(Body[m])
    BY <1>1, <1>2, <1>3 DEF IsComplete, ReceivedSize, Unknown, Holds
  <2>2. Reach(m, p) = Len(Body[m]) /\ Len(r.buffered) = 0
    <3>1. \A a, b, n \in Nat : n + a = b /\ b <= n => b = n /\ a = 0
      OBVIOUS
    <3>2. Len(Body[m]) + Len(r.buffered) = Reach(m, p)
      BY <1>2, <2>1
    <3> QED
      BY <1>1, <1>2, <3>1, <3>2
  <2>3. p = NumChunks(m)
    <3> SUFFICES ASSUME p # NumChunks(m) PROVE FALSE
      OBVIOUS
    <3>1. p \in 0..NumChunks(m) - 1 /\ p > 0
      BY <1>1
    <3>2. Reach(m, p) < Len(Body[m])
      BY <3>1, LastReach
    <3> QED
      BY <1>1, <2>2, <3>2
  <2>4. r.buffered = <<>>
    BY <1>2, <2>2, EmptySeq
  <2>5. r.buffer \o r.buffered = Body[m]
    BY <1>1, <2>3, PrefixFacts DEF Holds
  <2> QED
    BY <1>2, <2>3, <2>4, <2>5, ConcatEmptySeq
<1> QED
  BY <1>3 DEF IsComplete, ReceivedSize

-----------------------------------------------------------------------------
(* The invariant: each message is in one of four phases.                   *)

Arrived(m) == (1..NumChunks(m)) \ left[m]

Untouched(m) ==
  /\ left[m] = 1..NumChunks(m) /\ receivers[m] = NoReceiver
  /\ inbox[m] = <<>> /\ m \notin cut /\ m \notin refused

\* The receiver of m waits for chunk p + 1.
Receiving(m) ==
  /\ \E p \in 1..NumChunks(m) :
       p + 1 \in left[m] /\ Holds(receivers[m], m, p, Arrived(m))
  /\ receivers[m].total \in {Len(Body[m]), Unknown}
  /\ NumChunks(m) \notin left[m] => receivers[m].total = Len(Body[m])
  /\ inbox[m] = <<>> /\ m \notin cut /\ m \notin refused

Delivered(m) ==
  /\ left[m] = {} /\ receivers[m] = NoReceiver
  /\ inbox[m] = <<Body[m]>> /\ m \notin cut

\* m was aborted or given up.
GivenUp(m) ==
  /\ 1 \notin left[m] /\ inbox[m] = <<>> /\ (m \in cut \/ m \in expired)
  /\ \/ receivers[m] = NoReceiver
     \/ receivers[m].aborted = TRUE /\ receivers[m].kept = {}

Phase(m) == Untouched(m) \/ Receiving(m) \/ Delivered(m) \/ GivenUp(m)

\* What a step may show of m.
Shown(m) ==
  \/ inbox' = inbox /\ refused' = refused
  \/ Promise!Deliver(m)
  \/ Promise!Refuse(m)

\* A step that does not touch m leaves its phase.
LEMMA PhaseStays ==
  ASSUME NEW m \in Messages, Phase(m),
         left'[m] = left[m], receivers'[m] = receivers[m], inbox'[m] = inbox[m],
         m \in cut' <=> m \in cut, m \in refused' => m \in refused,
         m \in expired => m \in expired'
  PROVE  Phase(m)'
<1>1. CASE Untouched(m)
  BY <1>1 DEF Phase, Untouched
<1>2. CASE Receiving(m)
  BY <1>2 DEF Phase, Receiving, Arrived
<1>3. CASE Delivered(m)
  BY <1>3 DEF Phase, Delivered
<1>4. CASE GivenUp(m)
  BY <1>4 DEF Phase, GivenUp
<1> QED
  BY <1>1, <1>2, <1>3, <1>4 DEF Phase

\* A new receiver has what its first chunk holds; a receiver that begins
\* with an abort is aborted.
LEMMA NewReceiverHolds ==
  ASSUME Uncut, NEW m \in Messages, NumChunks(m) > 1,
         NEW told \in {Len(Body[m]), Unknown}
  PROVE  LET r == NewReceiver(Chunk(m, 1, told))
         IN Holds(r, m, 1, {1}) /\ r.total = told
<1> DEFINE c == Chunk(m, 1, told)
           r0 == [total |-> c.total, buffer |-> <<>>, buffered |-> <<>>, kept |-> {},
                  aborted |-> FALSE]
           u == [r0 EXCEPT !.buffered = @ \o c.body]
           r == NewReceiver(c)
<1>1. 1 \in 1..NumChunks(m) /\ NumChunks(m) \in Nat /\ 1 # NumChunks(m)
  BY LastReach
<1>2. c = [start |-> ChunkStart(1), total |-> told, flag |-> "continued",
           body |-> Piece(m, 1)]
  BY <1>1, ChunkMeant
<1>3. ChunkStart(1) = 1
  BY <1>1, TransferAssumption DEF ChunkStart
<1>4. c.start = 1 /\ c.total = told /\ c.flag = "continued" /\ c.body = Piece(m, 1)
  BY <1>2, <1>3
<1> HIDE DEF c
<1>5. Piece(m, 1) = Prefix(m, 1) /\ Piece(m, 1) \in Seq(ByteSet)
  BY <1>1, <1>3, PrefixFacts DEF Piece, Prefix
<1>6. <<>> \o Piece(m, 1) = Piece(m, 1) /\ <<>> \in Seq(ByteSet)
  BY <1>5, ConcatEmptySeq, EmptySeq
<1>7. NextStart(r0) = 1
  BY EmptySeq DEF NextStart
<1>8. ~Fails(r0, c)
  BY <1>4 DEF Fails
<1>9. ProcessChunk(r0, c) = Expected(r0, c)
  BY <1>4, <1>7, <1>8 DEF ProcessChunk
<1>10. told \in Nat \cup {Unknown}
  BY BodyType
<1>11. /\ u \in Receivers /\ u.total = told /\ u.buffer = <<>>
       /\ u.buffered = Piece(m, 1) /\ u.kept = {} /\ ~u.aborted
  <2> DEFINE joined == r0.buffered \o c.body
  <2>1. /\ r0 \in Receivers /\ r0.total = told /\ r0.buffer = <<>>
        /\ r0.buffered = <<>> /\ r0.kept = {} /\ ~r0.aborted
    BY <1>4, <1>6, <1>10 DEF Receivers
  <2> HIDE DEF r0
  <2>2. joined = Piece(m, 1)
    BY <1>4, <1>6, <2>1
  <2>3. u = [r0 EXCEPT !.buffered = joined]
    OBVIOUS
  <2> HIDE DEF joined
  <2> QED
    BY <1>5, <2>1, <2>2, <2>3 DEF Receivers
<1>12. Holds(u, m, 1, {1})
  <2>1. 1..1 \subseteq {1} /\ {Kept(m, i) : i \in {j \in {1} : j > 1}} = {}
    OBVIOUS
  <2> QED
    BY <1>1, <1>5, <1>6, <1>11, <2>1 DEF Holds
<1>13. u.kept = {} /\ u.total = told
  BY <1>11
<1>14. Expected(r0, c) = WrittenIfDue(AllKeptAppended(u))
  BY DEF Expected
<1>15. r = WrittenIfDue(AllKeptAppended(u))
  BY <1>9, <1>14 DEF NewReceiver
<1> HIDE DEF u
<1>16. IsFiniteSet(u.kept)
  BY <1>13, FS_EmptySet
<1>17. LET w == WrittenIfDue(AllKeptAppended(u))
       IN /\ w.total = u.total
          /\ \E q \in 1..NumChunks(m) :
               /\ Holds(w, m, q, {1}) /\ q + 1 \notin {1}
               /\ q = NumChunks(m) /\ u.total = Len(Body[m]) => w.buffer = Body[m]
  BY <1>1, <1>12, <1>16, AllAppendedHolds
<1>18. PICK q \in 1..NumChunks(m) : Holds(r, m, q, {1})
  BY <1>15, <1>17
<1>19. q = 1
  <2>1. q \in Nat /\ q >= 1 /\ 1..q \subseteq {1}
    BY <1>1, <1>18 DEF Holds
  <2>2. q \in 1..q
    BY <2>1
  <2> QED
    BY <2>1, <2>2
<1> QED
  BY <1>13, <1>15, <1>17, <1>18, <1>19 DEF c

LEMMA AbortedFromStart ==
  ASSUME NEW c, c.flag = "abort"
  PROVE  NewReceiver(c).aborted = TRUE /\ NewReceiver(c).kept = {}
BY DEF NewReceiver, ProcessChunk, Fails

-----------------------------------------------------------------------------
(* Each step keeps the phases and does what Delivery allows.               *)

PhaseInv == TypeInv /\ \A m \in Messages : Phase(m)

\* Only the message a request belongs to is touched by it.
LEMMA ReceiveFrame ==
  ASSUME TypeInv, NEW m \in Messages, NEW c, Receive(m, c)
  PROVE  \A n \in Messages \ {m} :
           /\ receivers'[n] = receivers[n] /\ inbox'[n] = inbox[n]
           /\ n \in refused' <=> n \in refused
<1>1. receivers \in [Messages -> Receivers \cup {NoReceiver}]
      /\ inbox \in [Messages -> Seq(Seq(ByteSet))]
  BY DEF TypeInv, TypeOK
<1>2. CASE NotChunked(m, c)
  BY <1>1, <1>2 DEF NotChunked
<1>3. CASE FirstChunk(m, c)
  BY <1>1, <1>3 DEF FirstChunk
<1>4. CASE UnknownMessage(m, c)
  BY <1>1, <1>4 DEF UnknownMessage
<1>5. CASE FailingChunk(m, c)
  BY <1>1, <1>5 DEF FailingChunk
<1>6. CASE NextChunk(m, c)
  BY <1>1, <1>6 DEF NextChunk
<1> QED
  BY <1>2, <1>3, <1>4, <1>5, <1>6 DEF Receive

LEMMA OthersStay ==
  ASSUME PhaseInv, NEW m \in Messages, NEW c, Receive(m, c),
         \A n \in Messages \ {m} : left'[n] = left[n],
         \A n \in Messages \ {m} : n \in cut' <=> n \in cut, expired' = expired
  PROVE  \A n \in Messages \ {m} : Phase(n)'
BY ReceiveFrame, PhaseStays DEF PhaseInv

\* A refused chunk of a message that has not been delivered.
LEMMA RefusedShown ==
  ASSUME NEW m \in Messages, inbox[m] = <<>>, inbox' = inbox,
         refused' = refused \cup {m}
  PROVE  Shown(m)
BY DEF Shown, Promise!Refuse

LEMMA DeliveredShown ==
  ASSUME TypeInv, NEW m \in Messages, inbox[m] = <<>>, m \notin refused,
         inbox' = [inbox EXCEPT ![m] = Append(@, Body[m])], refused' = refused
  PROVE  Shown(m) /\ inbox'[m] = <<Body[m]>>
<1>1. Append(<<>>, Body[m]) = <<Body[m]>>
  OBVIOUS
<1>2. inbox' = [inbox EXCEPT ![m] = <<Body[m]>>]
  BY <1>1
<1>3. inbox'[m] = <<Body[m]>>
  BY <1>2 DEF TypeInv, TypeOK
<1> QED
  BY <1>2, <1>3 DEF Shown, Promise!Deliver

\* The first chunk of an untouched message.
LEMMA FirstArrives ==
  ASSUME Uncut, PhaseInv, NEW m \in Messages, NEW told \in {Len(Body[m]), Unknown},
         Untouched(m), ArriveWith(m, 1, told)
  PROVE  Phase(m)' /\ Shown(m)
<1> DEFINE c == Chunk(m, 1, told)
           N == NumChunks(m)
<1>1. /\ receivers \in [Messages -> Receivers \cup {NoReceiver}]
      /\ DOMAIN left = Messages /\ left[m] = 1..N /\ N \in Nat \ {0}
      /\ inbox[m] = <<>> /\ m \notin cut /\ m \notin refused /\ receivers[m] = NoReceiver
  BY LastReach DEF PhaseInv, TypeInv, TypeOK, Untouched
<1>2. /\ c = [start |-> ChunkStart(1), total |-> told,
              flag |-> IF 1 = N THEN "end" ELSE "continued", body |-> Piece(m, 1)]
      /\ ChunkStart(1) = 1
  <2>1. ChunkStart(1) = 1
    BY TransferAssumption DEF ChunkStart
  <2>2. 1 \in 1..NumChunks(m)
    BY <1>1
  <2> QED
    BY <2>1, <2>2, ChunkMeant
<1>3. /\ c.start = 1 /\ c.flag = IF 1 = N THEN "end" ELSE "continued"
      /\ c.body = Piece(m, 1)
  BY <1>2
<1>4. /\ Receive(m, c) /\ left' = [left EXCEPT ![m] = @ \ {1}]
      /\ cut' = cut /\ expired' = expired
  BY DEF ArriveWith
<1>5. left'[m] = 2..N
  BY <1>1, <1>4
<1>6. NotChunked(m, c) \/ FirstChunk(m, c)
  BY <1>3, <1>4 DEF Receive, UnknownMessage, FailingChunk, NextChunk
<1> HIDE DEF c
<1>7. CASE NotChunked(m, c)
  <2>1. N = 1
    BY <1>3, <1>7 DEF NotChunked
  <2>2. c.body = Body[m]
    <3>1. 1 \in 1..NumChunks(m)
      BY <1>1
    <3>2. Prefix(m, 1) = Body[m]
      BY <2>1, <3>1, PrefixFacts
    <3> QED
      BY <1>2, <1>3, <3>2 DEF Piece, Prefix
  <2>3. /\ inbox' = [inbox EXCEPT ![m] = Append(@, Body[m])] /\ refused' = refused
        /\ receivers' = receivers
    BY <1>7, <2>2 DEF NotChunked
  <2>4. Shown(m) /\ inbox'[m] = <<Body[m]>>
    BY <1>1, <2>3, DeliveredShown DEF PhaseInv
  <2>5. left'[m] = {}
    BY <1>5, <2>1
  <2> QED
    BY <1>1, <1>4, <2>3, <2>4, <2>5 DEF Phase, Delivered
<1>8. CASE FirstChunk(m, c)
  <2>1. N > 1
    BY <1>1, <1>3, <1>8 DEF FirstChunk
  <2>2. Holds(NewReceiver(c), m, 1, {1}) /\ NewReceiver(c).total = told
    BY <2>1, NewReceiverHolds DEF c
  <2>3. receivers'[m] = NewReceiver(c) /\ inbox' = inbox /\ refused' = refused
    BY <1>1, <1>8 DEF FirstChunk
  <2>4. Arrived(m)' = {1} /\ 2 \in left'[m] /\ N \in left'[m]
    BY <1>1, <1>5, <2>1 DEF Arrived
  <2>5. /\ 1 \in 1..N /\ 1 + 1 \in left'[m]
        /\ Holds(receivers'[m], m, 1, Arrived(m)')
    BY <1>1, <2>2, <2>3, <2>4
  <2>6. Receiving(m)'
    BY <1>1, <1>4, <2>2, <2>3, <2>4, <2>5 DEF Receiving
  <2> QED
    BY <2>3, <2>6 DEF Phase, Shown
<1> QED
  BY <1>6, <1>7, <1>8

\* A later chunk of a message that is being received: new, or one that is
\* kept already.
LEMMA LaterArrives ==
  ASSUME Uncut, PhaseInv, NEW m \in Messages, Receiving(m),
         NEW i \in 1..NumChunks(m), NEW told,
         Receive(m, Chunk(m, i, told)),
         left'[m] = left[m] \ {i}, cut' = cut,
         i \in left[m] \/ \E k \in receivers[m].kept : k.start = ChunkStart(i)
  PROVE  Phase(m)' /\ Shown(m)
<1> DEFINE c == Chunk(m, i, told)
           N == NumChunks(m)
           r == receivers[m]
           s == ProcessChunk(r, c)
           B == Arrived(m) \cup {i}
<1>1. /\ receivers \in [Messages -> Receivers \cup {NoReceiver}]
      /\ DOMAIN left = Messages /\ left[m] \subseteq 1..N /\ N \in Nat \ {0}
      /\ inbox[m] = <<>> /\ m \notin cut /\ m \notin refused
      /\ Len(Body[m]) \in Nat
      /\ r.total \in {Len(Body[m]), Unknown}
      /\ N \notin left[m] => r.total = Len(Body[m])
  BY LastReach, BodyType DEF PhaseInv, TypeInv, TypeOK, Receiving
<1>2. PICK p \in 1..N : p + 1 \in left[m] /\ Holds(r, m, p, Arrived(m))
  BY DEF Receiving
<1>3. r # NoReceiver /\ r \in FineReceivers
  <2>1. r # NoReceiver
    BY <1>2, NullAssumption DEF Holds
  <2> QED
    BY <2>1, ReceivedFine DEF PhaseInv
<1>4. Arrived(m) \in SUBSET (1..N) /\ p + 1 \notin Arrived(m) /\ p \in Nat
  BY <1>1, <1>2 DEF Arrived
<1>5. i > p
  <2>1. CASE i \in left[m]
    <3>1. i \notin Arrived(m) /\ 1..p \subseteq Arrived(m)
      BY <1>2, <2>1 DEF Arrived, Holds
    <3> QED
      BY <1>1, <1>4, <3>1
  <2>2. CASE \E k \in r.kept : k.start = ChunkStart(i)
    <3>1. PICK j \in Arrived(m) : j > p /\ ChunkStart(j) = ChunkStart(i)
      BY <1>2, <2>2 DEF Holds, Kept
    <3>2. i \in Nat \ {0} /\ j \in Nat \ {0}
      BY <1>1, <1>4, <3>1
    <3>3. j = i
      BY <3>1, <3>2, StartsDiffer
    <3> QED
      BY <3>1, <3>3
  <2> QED
    BY <2>1, <2>2
<1>6. c.start > 1 /\ ~Fails(r, c) /\ Progress(m, Arrived(m), i, r, s)
  <2>1. \A x \in FineReceivers : \A a \in SUBSET (1..N) :
          Holds(x, m, p, a) /\ p + 1 \notin a =>
            /\ c.start > 1 /\ ~Fails(x, c)
            /\ Progress(m, a, i, x, ProcessChunk(x, c))
    BY <1>5, ProcessHolds
  <2> HIDE DEF r, N, c
  <2> QED
    BY <1>2, <1>3, <1>4, <2>1
<1>7. PICK q \in 1..N :
        /\ Holds(s, m, q, B) /\ q + 1 \notin B
        /\ q = N /\ s.total = Len(Body[m]) => s.buffer = Body[m]
  BY <1>6 DEF Progress
<1>8. NextChunk(m, c)
  <2>1. ~(c.start = 1)
    BY <1>6
  <2> QED
    BY <1>3, <1>6, <2>1
    DEF Receive, NotChunked, FirstChunk, UnknownMessage, FailingChunk
<1>9. /\ IF IsComplete(s)
         THEN /\ receivers' = [receivers EXCEPT ![m] = NoReceiver]
              /\ inbox' = [inbox EXCEPT ![m] = Append(@, s.buffer)]
         ELSE receivers' = [receivers EXCEPT ![m] = s] /\ inbox' = inbox
      /\ refused' = refused
  <2> HIDE DEF c
  <2> QED BY <1>8 DEF NextChunk
<1>10. left'[m] = left[m] \ {i} /\ Arrived(m)' = B
  BY <1>1 DEF Arrived
<1> HIDE DEF s, B, c
<1>11. B \in SUBSET (1..N) /\ s.total \in {Len(Body[m]), Unknown}
  BY <1>1, <1>4, <1>6 DEF B, Progress
<1>12. CASE IsComplete(s)
  <2>1. q = N /\ s.buffer = Body[m]
    BY <1>7, <1>11, <1>12, CompleteHolds
  <2>2. 1..N \subseteq B
    BY <1>7, <2>1 DEF Holds
  <2>3. left'[m] = {}
    BY <1>1, <1>10, <2>2 DEF B, Arrived
  <2>4. Shown(m) /\ inbox'[m] = <<Body[m]>>
    BY <1>1, <1>9, <1>12, <2>1, DeliveredShown DEF PhaseInv
  <2>5. receivers'[m] = NoReceiver
    BY <1>1, <1>9, <1>12
  <2> QED
    BY <1>1, <2>3, <2>4, <2>5 DEF Phase, Delivered
<1>13. CASE ~IsComplete(s)
  <2>1. receivers'[m] = s /\ inbox' = inbox
    BY <1>1, <1>9, <1>13
  <2>2. N \notin left'[m] => s.total = Len(Body[m])
    BY <1>1, <1>6, <1>10 DEF Progress
  <2>3. q # N
    <3> SUFFICES ASSUME q = N PROVE FALSE
      OBVIOUS
    <3>1. q \in Nat /\ q \in 1..q /\ 1..q \subseteq B
      BY <1>1, <1>7 DEF Holds
    <3>2. N \notin left'[m]
      BY <1>10, <3>1 DEF B, Arrived
    <3>3. s.total = Len(Body[m]) /\ s.buffer = Body[m]
      BY <1>7, <2>2, <3>2
    <3>4. IsComplete(s)
      BY <1>7, <1>11, <3>3, CompleteHolds
    <3> QED
      BY <1>13, <3>4
  <2>4. q + 1 \in left'[m]
    <3>1. q + 1 \in 1..N
      BY <1>1, <2>3
    <3> QED
      BY <1>7, <1>10, <3>1 DEF B, Arrived
  <2>5. Holds(receivers'[m], m, q, Arrived(m)')
    BY <1>7, <1>10, <2>1
  <2>6. Receiving(m)'
    BY <1>1, <1>9, <1>11, <2>1, <2>2, <2>4, <2>5 DEF Receiving
  <2> QED
    BY <1>9, <2>1, <2>6 DEF Phase, Shown
<1> QED
  BY <1>12, <1>13

\* A chunk of a message that was aborted or given up.
LEMMA GivenUpReceives ==
  ASSUME PhaseInv, NEW m \in Messages, GivenUp(m), NEW c, Receive(m, c), c.start > 1,
         left'[m] \subseteq left[m], cut' = cut, expired' = expired
  PROVE  GivenUp(m)' /\ Shown(m)
<1>1. /\ receivers \in [Messages -> Receivers \cup {NoReceiver}]
      /\ 1 \notin left'[m] /\ inbox[m] = <<>> /\ (m \in cut' \/ m \in expired')
      /\ \/ receivers[m] = NoReceiver
         \/ receivers[m].aborted = TRUE /\ receivers[m].kept = {}
  BY DEF PhaseInv, TypeInv, TypeOK, GivenUp
<1>2. CASE UnknownMessage(m, c)
  <2>1. refused' = refused \cup {m} /\ receivers' = receivers /\ inbox' = inbox
    BY <1>2 DEF UnknownMessage
  <2> QED
    BY <1>1, <2>1, RefusedShown DEF GivenUp
<1>3. CASE FailingChunk(m, c)
  <2>1. refused' = refused \cup {m} /\ receivers'[m] = NoReceiver /\ inbox' = inbox
    BY <1>1, <1>3 DEF FailingChunk
  <2> QED
    BY <1>1, <2>1, RefusedShown DEF GivenUp
<1>4. ~NextChunk(m, c)
  BY <1>1 DEF NextChunk, Fails
<1>5. ~(c.start = 1)
  OBVIOUS
<1> QED
  BY <1>2, <1>3, <1>4, <1>5 DEF Receive, NotChunked, FirstChunk

LEMMA AbortReceived ==
  ASSUME PhaseInv, NEW m \in Messages, NEW c, Receive(m, c), c.flag = "abort",
         1 \notin left[m], inbox[m] = <<>>, left' = left, m \in cut'
  PROVE  GivenUp(m)' /\ Shown(m)
<1>1. receivers \in [Messages -> Receivers \cup {NoReceiver}]
  BY DEF PhaseInv, TypeInv, TypeOK
<1>2. CASE FirstChunk(m, c)
  <2>1. receivers'[m] = NewReceiver(c) /\ inbox' = inbox /\ refused' = refused
    BY <1>1, <1>2 DEF FirstChunk
  <2>2. receivers'[m].aborted = TRUE /\ receivers'[m].kept = {}
    BY <2>1, AbortedFromStart
  <2> QED
    BY <2>1, <2>2 DEF GivenUp, Shown
<1>3. CASE UnknownMessage(m, c)
  <2>1. /\ refused' = refused \cup {m} /\ inbox' = inbox
        /\ receivers' = receivers /\ receivers[m] = NoReceiver
    BY <1>3 DEF UnknownMessage
  <2> QED
    BY <2>1, RefusedShown DEF GivenUp
<1>4. CASE FailingChunk(m, c)
  <2>1. refused' = refused \cup {m} /\ receivers'[m] = NoReceiver /\ inbox' = inbox
    BY <1>1, <1>4 DEF FailingChunk
  <2> QED
    BY <2>1, RefusedShown DEF GivenUp
<1> QED
  BY <1>2, <1>3, <1>4 DEF Receive, NotChunked, NextChunk, Fails

LEMMA ArriveStep ==
  ASSUME Uncut, PhaseInv, NEW m \in Messages, NEW i \in 1..NumChunks(m),
         NEW told \in {Len(Body[m]), Unknown}, ArriveWith(m, i, told)
  PROVE  Phase(m)' /\ Shown(m)
<1>1. /\ i \in left[m] /\ (i = 1 \/ 1 \notin left[m])
      /\ Receive(m, Chunk(m, i, told)) /\ left' = [left EXCEPT ![m] = @ \ {i}]
      /\ cut' = cut /\ expired' = expired
  BY DEF ArriveWith, Begun
<1>2. left'[m] = left[m] \ {i} /\ NumChunks(m) \in Nat \ {0}
  BY <1>1, LastReach DEF PhaseInv, TypeInv, TypeOK
<1>3. CASE Untouched(m)
  <2>1. i = 1
    BY <1>1, <1>2, <1>3 DEF Untouched
  <2> QED
    BY <1>3, <2>1, FirstArrives
<1>4. CASE Receiving(m)
  BY <1>1, <1>2, <1>4, LaterArrives
<1>5. CASE Delivered(m)
  BY <1>1, <1>5 DEF Delivered
<1>6. CASE GivenUp(m)
  <2>1. i \in Nat \ {0} /\ 1 \in Nat \ {0} /\ 1 < i
    BY <1>1, <1>2, <1>6 DEF GivenUp
  <2>2. ChunkStart(1) < ChunkStart(i) /\ ChunkStart(1) = 1
    BY <2>1, StartsRise, TransferAssumption DEF ChunkStart
  <2>3. Chunk(m, i, told).start = ChunkStart(i)
    BY ChunkMeant
  <2> DEFINE c == Chunk(m, i, told)
  <2>4. c.start > 1
    BY <2>1, <2>2, <2>3, StartsRise
  <2> HIDE DEF c
  <2>5. Receive(m, c) /\ left'[m] \subseteq left[m]
    BY <1>1, <1>2 DEF c
  <2> QED
    BY <1>1, <1>6, <2>4, <2>5, GivenUpReceives DEF Phase
<1> QED
  BY <1>3, <1>4, <1>5, <1>6 DEF PhaseInv, Phase

LEMMA AgainStep ==
  ASSUME Uncut, "duplicate" \notin Liberties, PhaseInv, NEW m \in Messages,
         NEW i \in 1..NumChunks(m), ArriveAgain(m, i)
  PROVE  Phase(m)' /\ Shown(m)
<1>1. /\ i \notin left[m] /\ receivers[m] # NoReceiver
      /\ \E k \in receivers[m].kept : k.start = ChunkStart(i)
      /\ Receive(m, Chunk(m, i, Len(Body[m])))
      /\ left' = left /\ cut' = cut /\ expired' = expired
  BY DEF ArriveAgain, Received
<1>2. left'[m] = left[m] \ {i}
  BY <1>1
<1>3. Receiving(m)
  BY <1>1 DEF PhaseInv, Phase, Untouched, Delivered, GivenUp
<1> QED
  BY <1>1, <1>2, <1>3, LaterArrives

LEMMA AbortStep ==
  ASSUME PhaseInv, NEW m \in Messages, Abort(m)
  PROVE  Phase(m)' /\ Shown(m)
<1>1. /\ 1 \notin left[m] /\ left[m] # {} /\ m \in cut' /\ left' = left
      /\ \E c \in AbortChunks(m) : Receive(m, c)
  BY DEF Abort, Begun
<1>2. left[m] \subseteq Nat \ {0}
  BY NumChunksType DEF PhaseInv, TypeInv, TypeOK
<1>3. PICK c \in AbortChunks(m) : Receive(m, c) /\ c.flag = "abort"
  BY <1>1, <1>2, AbortType
<1>4. inbox[m] = <<>>
  <2>1. 1 \in 1..NumChunks(m)
    BY LastReach
  <2> QED
    BY <1>1, <2>1 DEF PhaseInv, Phase, Untouched, Receiving, Delivered, GivenUp
<1> QED
  BY <1>1, <1>3, <1>4, AbortReceived DEF Phase

LEMMA PollStep ==
  ASSUME PhaseInv, NEW m \in Messages, Poll
  PROVE  Phase(m)'
<1>1. /\ left' = left /\ cut' = cut /\ inbox' = inbox /\ refused' = refused
      /\ receivers'[m] = IF m \in stale THEN NoReceiver ELSE receivers[m]
      /\ m \in stale => m \in expired' /\ receivers[m] # NoReceiver
      /\ m \in expired => m \in expired'
  BY DEF Poll, PhaseInv, TypeInv, TypeOK, Received
<1>2. CASE m \in stale
  <2>1. CASE Receiving(m)
    <3>1. PICK p \in 1..NumChunks(m) : Holds(receivers[m], m, p, Arrived(m))
      BY <2>1 DEF Receiving
    <3>2. 1 \in 1..p
      BY <3>1, LastReach
    <3>3. 1 \notin left[m]
      BY <3>1, <3>2 DEF Holds, Arrived
    <3> QED
      BY <1>1, <1>2, <2>1, <3>3 DEF Phase, GivenUp, Receiving
  <2>2. CASE GivenUp(m)
    BY <1>1, <1>2, <2>2 DEF Phase, GivenUp
  <2> QED
    BY <1>1, <1>2, <2>1, <2>2 DEF PhaseInv, Phase, Untouched, Delivered
<1>3. CASE m \notin stale
  BY <1>1, <1>3, PhaseStays DEF PhaseInv
<1> QED
  BY <1>2, <1>3

LEMMA PhaseStep ==
  ASSUME Uncut, "duplicate" \notin Liberties, PhaseInv, [Next]_vars
  PROVE  PhaseInv' /\ [Promise!Next]_<<inbox, refused>>
<1>1. TypeInv'
  BY TypeStep DEF PhaseInv
<1>2. ASSUME NEW m \in Messages, Shown(m) PROVE [Promise!Next]_<<inbox, refused>>
  BY <1>2 DEF Shown, Promise!Next
<1>3. ASSUME NEW m \in Messages, NEW i \in 1..NumChunks(m), Arrive(m, i)
      PROVE  PhaseInv' /\ [Promise!Next]_<<inbox, refused>>
  <2>1. PICK told \in {Len(Body[m]), Unknown} : ArriveWith(m, i, told)
    BY <1>3 DEF Arrive
  <2>2. Phase(m)' /\ Shown(m)
    BY <2>1, ArriveStep
  <2>3. Receive(m, Chunk(m, i, told)) /\ left' = [left EXCEPT ![m] = @ \ {i}]
        /\ cut' = cut /\ expired' = expired
    BY <2>1 DEF ArriveWith
  <2>4. \A n \in Messages \ {m} : left'[n] = left[n]
    BY <2>3 DEF PhaseInv, TypeInv, TypeOK
  <2>5. \A n \in Messages \ {m} : Phase(n)'
    BY <2>3, <2>4, OthersStay
  <2> QED
    BY <1>1, <1>2, <2>2, <2>5 DEF PhaseInv
<1>4. ASSUME NEW m \in Messages, NEW i \in 1..NumChunks(m), ArriveAgain(m, i)
      PROVE  PhaseInv' /\ [Promise!Next]_<<inbox, refused>>
  <2>1. Phase(m)' /\ Shown(m)
    BY <1>4, AgainStep
  <2>2. Receive(m, Chunk(m, i, Len(Body[m]))) /\ left' = left
        /\ cut' = cut /\ expired' = expired
    BY <1>4 DEF ArriveAgain
  <2>3. \A n \in Messages \ {m} : Phase(n)'
    BY <2>2, OthersStay
  <2> QED
    BY <1>1, <1>2, <2>1, <2>3 DEF PhaseInv
<1>5. ASSUME NEW m \in Messages, Abort(m)
      PROVE  PhaseInv' /\ [Promise!Next]_<<inbox, refused>>
  <2>1. Phase(m)' /\ Shown(m)
    BY <1>5, AbortStep
  <2>2. PICK c : Receive(m, c)
    BY <1>5 DEF Abort
  <2>3. left' = left /\ cut' = cut \cup {m} /\ expired' = expired
    BY <1>5 DEF Abort
  <2>4. \A n \in Messages \ {m} : Phase(n)'
    BY <2>2, <2>3, OthersStay
  <2> QED
    BY <1>1, <1>2, <2>1, <2>4 DEF PhaseInv
<1>6. ASSUME NEW m \in Messages, Wait(m)
      PROVE  PhaseInv' /\ [Promise!Next]_<<inbox, refused>>
  <2>1. UNCHANGED <<left, cut, receivers, inbox, refused, expired>>
    BY <1>6 DEF Wait
  <2>2. \A n \in Messages : Phase(n)'
    BY <2>1, PhaseStays DEF PhaseInv
  <2> QED
    BY <1>1, <2>1, <2>2 DEF PhaseInv
<1>7. CASE Poll
  <2>1. \A n \in Messages : Phase(n)'
    BY <1>7, PollStep
  <2>2. UNCHANGED <<inbox, refused>>
    BY <1>7 DEF Poll
  <2> QED
    BY <1>1, <2>1, <2>2 DEF PhaseInv
<1>8. CASE UNCHANGED vars
  <2>1. UNCHANGED <<left, cut, receivers, inbox, refused, expired>>
    BY <1>8 DEF vars
  <2>2. \A n \in Messages : Phase(n)'
    BY <2>1, PhaseStays DEF PhaseInv
  <2> QED
    BY <1>1, <2>1, <2>2 DEF PhaseInv
<1> QED
  BY <1>3, <1>4, <1>5, <1>6, <1>7, <1>8 DEF Next

LEMMA PhaseInit == Init => PhaseInv
<1> SUFFICES ASSUME Init PROVE PhaseInv
  OBVIOUS
<1>1. TypeInv
  BY TypeInit
<1>2. \A m \in Messages : Untouched(m)
  BY DEF Init, Untouched
<1> QED
  BY <1>1, <1>2 DEF PhaseInv, Phase

LEMMA PhaseInvariant ==
  ASSUME Uncut, "duplicate" \notin Liberties
  PROVE  Spec => []PhaseInv
<1>1. PhaseInv /\ [Next]_vars => PhaseInv'
  BY PhaseStep
<1> QED
  BY <1>1, PhaseInit, PTL DEF Spec

-----------------------------------------------------------------------------
(* Theorems.                                                               *)

\* The receiving side implements Delivery: in whichever order the chunks of a
\* message come and whichever are missing, aborted or given up, the
\* application gets the message whole and once, and not after a 413.
THEOREM DeliveryImplemented ==
  ASSUME Uncut, "duplicate" \notin Liberties
  PROVE  Spec => ImplementsDelivery
<1>1. Init => Promise!Init
  BY DEF Init, Promise!Init
<1>2. PhaseInv /\ [Next]_vars => [Promise!Next]_<<inbox, refused>>
  BY PhaseStep
<1>3. Spec => []PhaseInv
  BY PhaseInvariant
<1> QED
  BY <1>1, <1>2, <1>3, PTL DEF Spec, ImplementsDelivery, Promise!Spec

\* What the application gets as a message is the body that was sent.
THEOREM WholeBodies ==
  ASSUME Uncut, "duplicate" \notin Liberties
  PROVE  Spec => []DeliveredIntact
<1>1. PhaseInv => DeliveredIntact
  <2> SUFFICES ASSUME PhaseInv, NEW m \in Messages, NEW i \in DOMAIN inbox[m]
               PROVE  inbox[m][i] = Body[m]
    BY DEF DeliveredIntact
  <2>1. inbox[m] = <<>> \/ inbox[m] = <<Body[m]>>
    BY DEF PhaseInv, Phase, Untouched, Receiving, Delivered, GivenUp
  <2> QED
    BY <2>1
<1> QED
  BY <1>1, PhaseInvariant, PTL

\* A message all of whose chunks have arrived has been delivered, unless it
\* was aborted or given up: no chunk stays behind in the receiver.
THEOREM NotHeldBack ==
  ASSUME Uncut, "duplicate" \notin Liberties
  PROVE  Spec => []AllArrivedDelivered
<1>1. PhaseInv => AllArrivedDelivered
  <2> SUFFICES ASSUME PhaseInv, NEW m \in Messages, m \notin cut, m \notin expired,
                      left[m] = {}
               PROVE  inbox[m] # <<>>
    BY DEF AllArrivedDelivered
  <2>1. 1 \in 1..NumChunks(m)
    BY LastReach
  <2>2. Delivered(m)
    BY <2>1 DEF PhaseInv, Phase, Untouched, Receiving, GivenUp
  <2>3. <<Body[m]>> # <<>>
    OBVIOUS
  <2> QED
    BY <2>2, <2>3 DEF Delivered
<1> QED
  BY <1>1, PhaseInvariant, PTL

\* An aborted message is not delivered, whether the abort repeats the first
\* byte range or names the next.
THEOREM AbortIsFinal ==
  ASSUME Uncut, "duplicate" \notin Liberties
  PROVE  Spec => []AbortedNotDelivered
<1>1. PhaseInv => AbortedNotDelivered
  BY DEF PhaseInv, Phase, Untouched, Receiving, Delivered, GivenUp, AbortedNotDelivered,
         TypeInv, TypeOK
<1> QED
  BY <1>1, PhaseInvariant, PTL
=============================================================================
