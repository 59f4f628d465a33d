-------------------------- MODULE SendQueue_proofs --------------------------
(***************************************************************************)
(* Proofs about SendQueue, for any messages, sizes and sockets.            *)
(*                                                                         *)
(* What the chunks and the reports guarantee holds whatever the            *)
(* application does in its callbacks: the first part.  That no message is  *)
(* lost or called back twice holds if it keeps to Careful: the second.     *)
(***************************************************************************)
EXTENDS SendQueue, SequenceLemmas

-----------------------------------------------------------------------------
(* The inductive invariant of the first part.                              *)

HasWritten(m, b) == \E j \in ChunksOf(m) : b \in Bytes(written[j])

\* The count never falls below the reports kept, so it stays a natural number.
Counted ==
  \A m \in Messages :
    /\ IsFiniteSet(incontiguous[m])
    /\ Cardinality(incontiguous[m]) <= incontiguousCount[m]

\* Only the last chunk of a message can be empty.
ChunksShape ==
  \A m \in Messages : \A i \in ChunksOf(m) :
    /\ 1 <= written[i].start /\ written[i].start <= written[i].end + 1
    /\ written[i].end <= Size[m]
    /\ written[i].end < written[i].start => written[i].end = Size[m]

\* Where a sender is: what lies before it is written, and what it has written
\* lies before it, unless resume has taken it back.
Position ==
  \A m \in Messages :
    /\ sentBytes[m] <= Size[m]
    /\ SocketOf[m] \notin down => \A b \in 1..sentBytes[m] : HasWritten(m, b)
    /\ m \notin resumed => \A i \in ChunksOf(m) : written[i].end <= sentBytes[m]

\* What the acknowledged bytes and the kept reports say of the reports that
\* have come.
Acknowledged ==
  \A m \in Messages :
    /\ incontiguous[m] \subseteq acked[m]
    /\ acked[m] \subseteq ChunkRanges(m)
    /\ \A b \in 1..ackedBytes[m] : \E r \in acked[m] : b \in Bytes(r)
    /\ \A p \in incontiguous[m] : p.start > ackedBytes[m] + 1
    /\ m \notin resumed =>
         \A r \in acked[m] : r.end <= ackedBytes[m] \/ r \in incontiguous[m]

Completed ==
  \A m \in Messages :
    /\ m \in reported \ aborted => ackedBytes[m] >= Size[m]
    /\ Size[m] > 0 /\ ackedBytes[m] >= Size[m] => m \in reported

IInv ==
  /\ TypeOK /\ Counted
  /\ ChunksShape /\ Position /\ ChunksFollow
  /\ Acknowledged /\ Completed

-----------------------------------------------------------------------------
(* The inductive invariant of the second part.                             *)

Careful ==
  /\ Liberties \subseteq {<<"send", "done">>, <<"throw", "sent">>, <<"throw", "done">>}
  /\ EarlyRefusal = FALSE

EndWritten(m) == \E i \in DOMAIN written : written[i].msg = m /\ written[i].flag = "end"

NoRepetition(q) == \A i, j \in DOMAIN q : q[i] = q[j] => i = j

\* The queue holds messages once, and none that a peer has refused.
QueueShape ==
  /\ NoRepetition(queue)
  /\ ToSet(queue) \subseteq sent \ aborted
  /\ senders \cup aborted \subseteq sent

Untold(m) == told[m] = <<>>
ToldSent(m) == told[m] = <<"sent">>
ToldFailed(m) == told[m] = <<"failed">>

\* Only the innermost loop is anywhere but in a callback that has been told
\* that its message is complete; in the middle of a turn the head of the queue
\* is the sender the loop has taken.
FramesShape ==
  /\ \A i \in 1..Len(frames) - 1 : frames[i].at = "done"
  /\ Running("sent") \/ Running("failed") => queue # <<>> /\ Head(queue) = Current
  /\ Running("sent") => sentBytes[Current] < Size[Current] \/ EndWritten(Current)
  /\ Running("failed") => ToldFailed(Current)

\* A message is told once, when it leaves the queue.
ToldShape ==
  \A m \in Messages :
    /\ m \notin sent => Untold(m)
    /\ m \in ToSet(queue) => Untold(m) \/ (Running("failed") /\ m = Current)
    /\ m \in sent => m \in ToSet(queue) \/ ~Untold(m)
    /\ Untold(m) \/ ToldSent(m) \/ ToldFailed(m)
    /\ ToldSent(m) => EndWritten(m)

CarefulInv == QueueShape /\ FramesShape /\ ToldShape

-----------------------------------------------------------------------------
(* Lemmas about the operators of the model.                                *)

\* Merging kept reports goes to the end of every range it touches, and passes
\* over no byte that none of them covers.
LEMMA MergedFacts ==
  ASSUME NEW from \in Nat, NEW R \in SUBSET Ranges,
         NEW bound \in Nat, \A r \in R : r.end <= bound
  PROVE  /\ Merged(from, R) \in Nat /\ from <= Merged(from, R)
         /\ \A r \in R : r.start <= Merged(from, R) + 1 => r.end <= Merged(from, R)
         /\ \A b \in from + 1..Merged(from, R) : \E r \in R : b \in Bytes(r)
<1> DEFINE closed(n) == \A r \in R : r.start <= n + 1 => r.end <= n
           T == {n \in {from} \cup {r.end : r \in R} : n >= from /\ closed(n)}
<1>0. /\ {from} \cup {r.end : r \in R} \in SUBSET Nat
      /\ \A r \in R : r.start \in Nat /\ r.end \in Nat
  BY DEF Ranges
<1>1. T # {}
  <2> DEFINE E == {from} \cup {r.end : r \in R}
  <2>1. E \in SUBSET Nat /\ from \in E /\ from + bound \in Nat
    BY <1>0
  <2>2. \A n \in E : n <= from + bound
    BY <1>0
  <2>3. PICK n \in E : \A y \in E : y <= n
    <3> HIDE DEF E
    <3> QED
      BY <2>1, <2>2, GreatestExists
  <2>4. n >= from /\ closed(n)
    BY <2>1, <2>3, <1>0
  <2> QED
    BY <2>3, <2>4
<1>2. T \in SUBSET Nat
  BY <1>0
<1>3. Merged(from, R) = Min(T)
  BY DEF Merged
<1>4. Min(T) \in T /\ \A n \in T : Min(T) <= n
  BY <1>1, <1>2, MinOfNaturals
<1>5. \A b \in from + 1..Min(T) : \E r \in R : b \in Bytes(r)
  <2>1. SUFFICES ASSUME NEW b \in from + 1..Min(T), \A r \in R : b \notin Bytes(r)
                 PROVE  FALSE
    OBVIOUS
  <2>2. b \in Nat /\ from < b /\ b <= Min(T)
    BY <1>2, <1>4
  <2> DEFINE B == {n \in {from} \cup {r.end : r \in R} : n < b}
  <2>3. B \in SUBSET Nat /\ from \in B /\ \A x \in B : x <= b
    BY <1>0, <2>2
  <2>4. PICK n \in B : \A y \in B : y <= n
    BY <2>2, <2>3, GreatestExists
  <2>5. from <= n /\ n < b /\ n \in Nat
    BY <2>3, <2>4
  <2>6. closed(n)
    <3>1. SUFFICES ASSUME NEW r \in R, r.start <= n + 1
                   PROVE  r.end <= n
      OBVIOUS
    <3>2. r.start <= b
      BY <3>1, <2>5, <2>2, <1>0
    <3>3. r.end < b
      BY <3>2, <2>1, <2>2, <1>0 DEF Bytes
    <3> QED
      BY <3>3, <2>4
  <2>7. n \in T
    BY <2>4, <2>5, <2>6
  <2> QED
    BY <2>7, <1>4, <2>5, <2>2, <1>2
<1> QED
  BY <1>2, <1>3, <1>4, <1>5

-----------------------------------------------------------------------------
(* Lemmas about the state.                                                 *)

LEMMA ConstantFacts ==
  ASSUME NEW m \in Messages
  PROVE  /\ m \in Nat /\ Size[m] \in Nat /\ SocketOf[m] \in Sockets
         /\ ChunkSize \in Nat /\ ChunkSize > 0
  BY MessagesAssumption, LimitsAssumption DEF MessagesAssumption, LimitsAssumption

\* A chunk goes on until its size or the end of the message.
LEMMA NextEndFacts ==
  ASSUME TypeOK, NEW m \in Messages, sentBytes[m] <= Size[m]
  PROVE  /\ NextEnd(m) \in Nat
         /\ sentBytes[m] <= NextEnd(m) /\ NextEnd(m) <= Size[m]
         /\ NextEnd(m) = sentBytes[m] => NextEnd(m) = Size[m]
<1>1. sentBytes[m] \in Nat /\ sentBytes[m] + ChunkSize \in Nat
  BY ConstantFacts DEF TypeOK
<1>2. /\ NextEnd(m) \in {sentBytes[m] + ChunkSize, Size[m]}
      /\ NextEnd(m) <= sentBytes[m] + ChunkSize /\ NextEnd(m) <= Size[m]
  BY <1>1, ConstantFacts, MinMaxOfTwo DEF NextEnd
<1> QED
  BY <1>1, <1>2, ConstantFacts

LEMMA WrittenFacts ==
  ASSUME TypeOK, NEW i \in DOMAIN written
  PROVE  /\ i \in 1..Len(written)
         /\ written[i].msg \in Messages /\ written[i].flag \in Flags
         /\ written[i].start \in Nat /\ written[i].end \in Nat
<1> DEFINE C == [msg : Messages, start : Nat, end : Nat, flag : Flags]
<1>1. written \in Seq(C)
  BY DEF TypeOK
<1>2. i \in 1..Len(written)
  BY <1>1
<1>3. written[i] \in C
  <2> HIDE DEF C
  <2> QED
    BY <1>1, <1>2, ElementOfSeq
<1> QED
  BY <1>2, <1>3

LEMMA ChunkRangesFacts ==
  ASSUME TypeOK, NEW m \in Messages, NEW r \in ChunkRanges(m)
  PROVE  /\ r \in Ranges
         /\ \E i \in ChunksOf(m) : r = [start |-> written[i].start, end |-> written[i].end]
<1>1. PICK i \in ChunksOf(m) : r = [start |-> written[i].start, end |-> written[i].end]
  BY DEF ChunkRanges
<1>2. written[i].start \in Nat /\ written[i].end \in Nat
  BY WrittenFacts DEF ChunksOf
<1>3. r \in Ranges
  BY <1>1, <1>2 DEF Ranges
<1> QED
  BY <1>1, <1>3

LEMMA NextChunkType ==
  ASSUME TypeOK, NEW m \in Messages, sentBytes[m] <= Size[m]
  PROVE  NextChunk(m) \in [msg : Messages, start : Nat, end : Nat, flag : Flags]
<1>1. sentBytes[m] \in Nat /\ NextEnd(m) \in Nat
  BY NextEndFacts DEF TypeOK
<1> QED
  BY <1>1 DEF NextChunk, Flags

\* What a step does to the chunks, the senders and the reports.
Quiet == UNCHANGED <<senderVars, down, written, reportVars>>

LEMMA StepCases ==
  ASSUME [Next]_vars
  PROVE  \/ Quiet
         \/ SendChunk \/ SocketUnavailable
         \/ \E k \in Sockets : Destroy(k)
         \/ \E m \in Messages : Refusal(m) \/ \E r \in ChunkRanges(m) : Report(m, r)
<1>1. CASE UNCHANGED vars
  BY <1>1 DEF vars, Quiet
<1>2. CASE LoopEnds \/ FailedReturns \/ ChunkSent \/ CallbackReturns \/ Throw
  BY <1>2 DEF LoopEnds, FailedReturns, ChunkSent, CallbackReturns, Throw, Quiet
<1>3. CASE \E m \in Messages : SendMessage(m)
  BY <1>3 DEF SendMessage, Quiet
<1> QED
  BY <1>1, <1>2, <1>3 DEF Next, LoopStep

\* The chunks that are there before a chunk is written stay as they are.
LEMMA NewChunk ==
  ASSUME TypeOK, NEW n \in Messages, sentBytes[n] <= Size[n],
         written' = Append(written, NextChunk(n))
  PROVE  /\ written' \in Seq([msg : Messages, start : Nat, end : Nat, flag : Flags])
         /\ Len(written') = Len(written) + 1 /\ Len(written) \in Nat
         /\ written'[Len(written) + 1] = NextChunk(n)
         /\ \A i \in DOMAIN written : written'[i] = written[i]
         /\ DOMAIN written = 1..Len(written)
         /\ DOMAIN written' = DOMAIN written \cup {Len(written) + 1}
<1> DEFINE C == [msg : Messages, start : Nat, end : Nat, flag : Flags]
<1>1. NextChunk(n) \in C /\ written \in Seq(C)
  BY NextChunkType DEF TypeOK
<1>2. /\ Len(written) \in Nat /\ DOMAIN written = 1..Len(written)
  BY <1>1
<1>3. /\ written' \in Seq(C) /\ Len(written') = Len(written) + 1
      /\ \A i \in 1..Len(written) : written'[i] = written[i]
      /\ written'[Len(written) + 1] = NextChunk(n)
  <2> HIDE DEF C
  <2> QED
    BY <1>1, AppendProperties
<1>4. DOMAIN written' = 1..Len(written) + 1
  BY <1>3
<1> QED
  BY <1>2, <1>3, <1>4

LEMMA ChunksOfNew ==
  ASSUME TypeOK, NEW n \in Messages, sentBytes[n] <= Size[n],
         written' = Append(written, NextChunk(n)), NEW m \in Messages
  PROVE  /\ ChunksOf(m) \subseteq ChunksOf(m)'
         /\ \A i \in ChunksOf(m)' :
              i \notin ChunksOf(m) => i = Len(written) + 1 /\ m = n /\ n \notin aborted
         /\ \A i \in ChunksOf(m) : i < Len(written) + 1 /\ written'[i] = written[i]
<1>1. NextChunk(n).msg = n /\ (n \in aborted => NextChunk(n).flag = "abort")
  BY DEF NextChunk
<1> QED
  BY <1>1, NewChunk DEF ChunksOf

-----------------------------------------------------------------------------
(* Types.                                                                  *)

Frames == [at : Calls \cup {"loop"}, msg : Messages]

LEMMA FramesFacts ==
  ASSUME TypeOK, frames # <<>>
  PROVE  /\ Front(frames) \in Seq(Frames) /\ Last(frames) \in Frames
         /\ Current \in Messages
         /\ \A at \in Calls \cup {"loop"}, m \in Messages :
              GoTo(at, m) => frames' \in Seq(Frames)
<1>1. frames \in Seq(Frames)
  BY DEF TypeOK, Frames
<1>2. Front(frames) \in Seq(Frames) /\ Last(frames) \in Frames
  BY <1>1, FrontLastFacts
<1>3. Current \in Messages
  BY <1>2 DEF Current, Frames
<1>4. ASSUME NEW at \in Calls \cup {"loop"}, NEW m \in Messages, GoTo(at, m)
      PROVE  frames' \in Seq(Frames)
  <2> DEFINE f == [at |-> at, msg |-> m]
  <2>1. f \in Frames /\ frames' = Append(Front(frames), f)
    BY <1>4 DEF Frames, GoTo
  <2> HIDE DEF f
  <2>2. Append(Front(frames), f) \in Seq(Frames)
    BY <2>1, <1>1, LastReplaced, Zenon
  <2> QED
    BY <2>1, <2>2
<1> QED
  BY <1>2, <1>3, <1>4

LEMMA QueueFacts ==
  ASSUME TypeOK, queue # <<>>
  PROVE  /\ Head(queue) \in Messages /\ Tail(queue) \in Seq(Messages)
         /\ WithoutAborted \in Seq(Messages)
         /\ Append(Tail(queue), Head(queue)) \in Seq(Messages)
<1>1. Head(queue) \in Messages /\ Tail(queue) \in Seq(Messages)
  BY HeadTailProperties DEF TypeOK
<1>2. Append(Tail(queue), Head(queue)) \in Seq(Messages)
  BY <1>1, AppendProperties
<1> QED
  BY <1>1, <1>2 DEF WithoutAborted, TypeOK

LEMMA ToldType ==
  ASSUME TypeOK, NEW m \in Messages, NEW t \in {"sent", "failed"},
         told' = [told EXCEPT ![m] = Append(@, t)]
  PROVE  told' \in [Messages -> Seq({"sent", "failed"})]
  BY DEF TypeOK

\* What a contiguous report does: the acknowledged bytes go on to reached, and
\* the reports kept beyond it stay.
Advance(m, r, reached, count) ==
  LET rest == {p \in incontiguous[m] : p.start > reached + 1} IN
  /\ ackedBytes[m] <= reached /\ r.end <= reached
  /\ ackedBytes' = [ackedBytes EXCEPT ![m] = reached]
  /\ incontiguous' = [incontiguous EXCEPT ![m] = rest]
  /\ \A p \in incontiguous[m] : p \in rest \/ p.end <= reached
  /\ \A b \in 1..reached : \E p \in acked[m] \cup {r} : b \in Bytes(p)
  /\ IsFiniteSet(rest) /\ Cardinality(rest) <= count
  /\ incontiguousCount' = [incontiguousCount EXCEPT ![m] = count]

LEMMA ContiguousFacts ==
  ASSUME IInv, NEW m \in Messages, NEW r \in ChunkRanges(m), ContiguousReport(m, r)
  PROVE  \E reached, count \in Nat : Advance(m, r, reached, count)
<1> DEFINE from == Max({ackedBytes[m], r.end})
           kept == incontiguous[m]
           reached == Merged(from, kept)
           merged == {p \in kept : p.start <= reached + 1}
           rest == {p \in kept : p.start > reached + 1}
<1>1. /\ ackedBytes \in [Messages -> Nat] /\ incontiguous \in [Messages -> SUBSET Ranges]
      /\ incontiguousCount \in [Messages -> Nat]
  BY DEF IInv, TypeOK
<1>2. r.start \in Nat /\ r.end \in Nat
  BY ChunkRangesFacts DEF IInv, Ranges
<1>3. from \in Nat /\ ackedBytes[m] <= from /\ r.end <= from /\ from \in {ackedBytes[m], r.end}
  BY <1>1, <1>2, MinMaxOfTwo
<1>4. kept \in SUBSET Ranges
  BY <1>1
<1>5. \A p \in kept : p.end <= Size[m] /\ p.start \in Nat /\ p.end \in Nat
  <2>1. kept \subseteq ChunkRanges(m)
    BY DEF IInv, Acknowledged
  <2>2. \A p \in kept : \E i \in ChunksOf(m) : p.end = written[i].end
    BY <2>1, ChunkRangesFacts DEF IInv
  <2> QED
    BY <2>2, <1>4 DEF IInv, ChunksShape, Ranges
<1>6. /\ reached \in Nat /\ from <= reached
      /\ \A p \in kept : p.start <= reached + 1 => p.end <= reached
      /\ \A b \in from + 1..reached : \E p \in kept : b \in Bytes(p)
  <2> HIDE DEF from, kept
  <2> QED
    BY <1>3, <1>4, <1>5, ConstantFacts, MergedFacts
<1>7. /\ ackedBytes' = [ackedBytes EXCEPT ![m] = reached]
      /\ incontiguous' = [incontiguous EXCEPT ![m] = kept \ merged]
      /\ incontiguousCount' =
           [incontiguousCount EXCEPT ![m] = incontiguousCount[m] - Cardinality(merged)]
  BY DEF ContiguousReport
<1>8. kept \ merged = rest
  BY <1>5, <1>6
<1>9. \A b \in 1..reached : \E p \in acked[m] \cup {r} : b \in Bytes(p)
  <2>1. SUFFICES ASSUME NEW b \in 1..reached
                 PROVE  \E p \in acked[m] \cup {r} : b \in Bytes(p)
    OBVIOUS
  <2>2. CASE b <= ackedBytes[m]
    BY <2>2, <1>1 DEF IInv, Acknowledged
  <2>3. CASE ackedBytes[m] < b /\ b <= r.end
    <3>1. r.start <= ackedBytes[m] + 1
      BY DEF ContiguousReport
    <3> QED
      BY <2>3, <3>1, <1>1, <1>2 DEF Bytes
  <2>4. CASE from < b
    <3>1. kept \subseteq acked[m]
      BY DEF IInv, Acknowledged
    <3> HIDE DEF reached, from, kept
    <3>2. b \in from + 1..reached
      BY <2>4, <1>3, <1>6
    <3> QED
      BY <3>1, <3>2, <1>6
  <2> QED
    BY <2>2, <2>3, <2>4, <1>1, <1>2, <1>3
<1>10. /\ IsFiniteSet(rest)
       /\ Cardinality(rest) <= incontiguousCount[m] - Cardinality(merged)
       /\ incontiguousCount[m] - Cardinality(merged) \in Nat
  <2>1. IsFiniteSet(kept) /\ Cardinality(kept) <= incontiguousCount[m]
    BY DEF IInv, Counted
  <2>2. /\ IsFiniteSet(merged) /\ Cardinality(merged) <= Cardinality(kept)
        /\ Cardinality(merged) \in Nat /\ Cardinality(kept) \in Nat
    BY <2>1, FS_Subset, FS_CardinalityType
  <2>3. /\ IsFiniteSet(kept \ merged)
        /\ Cardinality(kept \ merged) = Cardinality(kept) - Cardinality(kept \cap merged)
    BY <2>1, FS_Difference
  <2>4. kept \cap merged = merged
    OBVIOUS
  <2>5. incontiguousCount[m] \in Nat
    BY <1>1
  <2>6. /\ IsFiniteSet(rest)
        /\ Cardinality(rest) = Cardinality(kept) - Cardinality(merged)
    <3> HIDE DEF merged, rest, kept
    <3> QED
      BY <2>3, <2>4, <1>8
  <2> HIDE DEF merged, rest, kept
  <2> QED
    BY <2>1, <2>2, <2>5, <2>6
<1> DEFINE count == incontiguousCount[m] - Cardinality(merged)
<1>11. r.end <= reached /\ ackedBytes[m] <= reached
  <2> HIDE DEF reached, from
  <2> QED
    BY <1>1, <1>2, <1>3, <1>6
<1>12. \A p \in incontiguous[m] : p \in rest \/ p.end <= reached
  <2> HIDE DEF reached
  <2> QED
    BY <1>5, <1>6
<1>13. count \in Nat /\ reached \in Nat
  BY <1>6, <1>10
<1>14. /\ incontiguous' = [incontiguous EXCEPT ![m] = rest]
       /\ incontiguousCount' = [incontiguousCount EXCEPT ![m] = count]
       /\ IsFiniteSet(rest) /\ Cardinality(rest) <= count
  <2> HIDE DEF rest
  <2> QED
    BY <1>7, <1>8, <1>10
<1> HIDE DEF reached, count
<1> QED
  BY <1>7, <1>9, <1>11, <1>12, <1>13, <1>14 DEF Advance

LEMMA KeptFacts ==
  ASSUME IInv, NEW m \in Messages, NEW r \in ChunkRanges(m)
  PROVE  LET kept == {p \in incontiguous[m] : p.start # r.start} \cup {r}
         IN /\ kept \subseteq Ranges
            /\ IsFiniteSet(kept) /\ Cardinality(kept) <= incontiguousCount[m] + 1
<1> DEFINE old == incontiguous[m]
           rest == {p \in old : p.start # r.start}
<1>1. /\ IsFiniteSet(old) /\ Cardinality(old) <= incontiguousCount[m]
      /\ old \subseteq Ranges /\ r \in Ranges /\ incontiguousCount[m] \in Nat
  BY ChunkRangesFacts DEF IInv, Counted, TypeOK
<1>2. /\ IsFiniteSet(rest) /\ Cardinality(rest) <= Cardinality(old)
      /\ Cardinality(rest) \in Nat /\ Cardinality(old) \in Nat
  BY <1>1, FS_Subset, FS_CardinalityType
<1>3. /\ IsFiniteSet(rest \cup {r})
      /\ Cardinality(rest \cup {r}) = Cardinality(rest)
         \/ Cardinality(rest \cup {r}) = Cardinality(rest) + 1
  <2> HIDE DEF rest
  <2> QED
    BY <1>2, FS_AddElement
<1>4. rest \cup {r} \subseteq Ranges
  BY <1>1
<1>5. Cardinality(rest \cup {r}) <= incontiguousCount[m] + 1
  <2> HIDE DEF rest, old
  <2> QED
    BY <1>1, <1>2, <1>3
<1> QED
  BY <1>3, <1>4, <1>5

\* A step keeps the types of the queue, the loops and the callbacks.
LEMMA LoopTypes ==
  ASSUME IInv, [Next]_vars
  PROVE  /\ queue' \in Seq(Messages) /\ frames' \in Seq(Frames)
         /\ senders' \subseteq Messages /\ sent' \subseteq Messages
         /\ down' \subseteq Sockets
         /\ told' \in [Messages -> Seq({"sent", "failed"})]
<1> USE DEF IInv
<1>0. /\ queue \in Seq(Messages) /\ frames \in Seq(Frames)
      /\ senders \subseteq Messages /\ sent \subseteq Messages
      /\ down \subseteq Sockets /\ told \in [Messages -> Seq({"sent", "failed"})]
  BY DEF TypeOK, Frames
<1>1. CASE UNCHANGED vars
  BY <1>0, <1>1 DEF vars
<1>2. ASSUME NEW m \in Messages, SendMessage(m)
      PROVE  frames' \in Seq(Frames) /\ queue' \in Seq(Messages)
  <2> DEFINE f == [at |-> "loop", msg |-> m]
  <2>1. f \in Frames /\ frames' = Append(frames, f)
    BY <1>2 DEF SendMessage, Frames
  <2>2. frames' \in Seq(Frames)
    <3> HIDE DEF f
    <3> QED
      BY <2>1, <1>0, AppendProperties
  <2>3. queue' \in Seq(Messages)
    BY <1>2, <1>0, AppendProperties DEF SendMessage
  <2> QED
    BY <2>2, <2>3
<1>3. CASE LoopEnds \/ Throw
  <2>1. frames # <<>> /\ frames' = Front(frames)
    BY <1>3 DEF LoopEnds, Throw, May, Running
  <2> QED
    BY <1>0, <1>3, <2>1, FramesFacts DEF LoopEnds, Throw, senderVars, reportVars
<1>4. CASE SendChunk \/ SocketUnavailable
  <2>1. queue # <<>> /\ frames # <<>>
    BY <1>4 DEF SendChunk, SocketUnavailable, Running
  <2>2. Head(queue) \in Messages /\ WithoutAborted \in Seq(Messages)
    BY <2>1, QueueFacts
  <2>3. frames' \in Seq(Frames)
    BY <1>4, <2>1, <2>2, FramesFacts DEF SendChunk, SocketUnavailable, Calls
  <2> QED
    BY <1>0, <1>4, <2>2, <2>3, ToldType DEF SendChunk, SocketUnavailable
<1>5. CASE FailedReturns \/ ChunkSent \/ CallbackReturns
  <2>1. frames # <<>>
    BY <1>5 DEF FailedReturns, ChunkSent, CallbackReturns, Running
  <2>2. Current \in Messages /\ frames' \in Seq(Frames)
    BY <1>5, <2>1, FramesFacts DEF FailedReturns, ChunkSent, CallbackReturns, Calls
  <2>3. Shift(queue) \in Seq(Messages)
    BY <1>0, QueueFacts DEF Shift
  <2>4. queue' \in Seq(Messages)
    <3>1. Len(queue) > 1 => queue # <<>>
      BY <1>0
    <3> QED
      BY <1>0, <1>5, <2>3, <3>1, QueueFacts DEF FailedReturns, ChunkSent, CallbackReturns
  <2>5. told' \in [Messages -> Seq({"sent", "failed"})]
    BY <1>0, <1>5, <2>2, ToldType DEF FailedReturns, ChunkSent, CallbackReturns
  <2> QED
    BY <1>0, <1>5, <2>2, <2>4, <2>5 DEF FailedReturns, ChunkSent, CallbackReturns
<1>6. ASSUME NEW k \in Sockets, Destroy(k)
      PROVE  down' \subseteq Sockets
  BY <1>0, <1>6 DEF Destroy
<1>7. ASSUME NEW m \in Messages, Refusal(m) \/ \E r \in ChunkRanges(m) : Report(m, r)
      PROVE  /\ UNCHANGED <<queue, frames, down, sent, told>>
             /\ senders' \subseteq Messages
  BY <1>0, <1>7 DEF Refusal, Report, Notify
<1>8. CASE \E m \in Messages : SendMessage(m)
  BY <1>0, <1>2, <1>8 DEF SendMessage
<1>9. CASE \E k \in Sockets : Destroy(k)
  BY <1>0, <1>6, <1>9 DEF Destroy
<1>10. CASE \E m \in Messages : Refusal(m) \/ \E r \in ChunkRanges(m) : Report(m, r)
  BY <1>0, <1>7, <1>10
<1> QED
  BY <1>1, <1>3, <1>4, <1>5, <1>8, <1>9, <1>10 DEF Next, LoopStep

\* A step keeps the types of the senders and the reports.
LEMMA ReportTypes ==
  ASSUME IInv, [Next]_vars
  PROVE  /\ sentBytes' \in [Messages -> Nat] /\ ackedBytes' \in [Messages -> Nat]
         /\ incontiguous' \in [Messages -> SUBSET Ranges]
         /\ incontiguousCount' \in [Messages -> Nat]
         /\ aborted' \subseteq Messages
         /\ written' \in Seq([msg : Messages, start : Nat, end : Nat, flag : Flags])
         /\ acked' \in [Messages -> SUBSET Ranges]
         /\ resumed' \subseteq Messages /\ reported' \subseteq Messages
         /\ reports' \in Nat
         /\ Counted'
<1> USE DEF IInv
<1>0. /\ sentBytes \in [Messages -> Nat] /\ ackedBytes \in [Messages -> Nat]
      /\ incontiguous \in [Messages -> SUBSET Ranges]
      /\ incontiguousCount \in [Messages -> Nat]
      /\ aborted \subseteq Messages
      /\ written \in Seq([msg : Messages, start : Nat, end : Nat, flag : Flags])
      /\ acked \in [Messages -> SUBSET Ranges]
      /\ resumed \subseteq Messages /\ reported \subseteq Messages
      /\ reports \in Nat
      /\ Counted
  BY DEF TypeOK
<1>1. CASE Quiet
  BY <1>0, <1>1 DEF Quiet, senderVars, reportVars, Counted
<1>2. CASE SendChunk \/ SocketUnavailable
  <2> DEFINE n == Head(queue)
  <2>1. n \in Messages /\ sentBytes[n] <= Size[n]
    BY <1>2, QueueFacts DEF SendChunk, SocketUnavailable, Position
  <2>2. NextEnd(n) \in Nat
    BY <2>1, NextEndFacts
  <2>3. GetNextChunk(n)
    BY <1>2 DEF SendChunk, SocketUnavailable
  <2>4. sentBytes' \in [Messages -> Nat]
    BY <1>0, <2>2, <2>3 DEF GetNextChunk
  <2>5. written' \in Seq([msg : Messages, start : Nat, end : Nat, flag : Flags])
    <3>1. written' = written \/ written' = Append(written, NextChunk(n))
      BY <1>2 DEF SendChunk, SocketUnavailable
    <3> QED
      BY <1>0, <2>1, <3>1, NewChunk
  <2>6. UNCHANGED <<aborted, reportVars>>
    BY <1>2 DEF SendChunk, SocketUnavailable
  <2> QED
    BY <1>0, <2>4, <2>5, <2>6 DEF reportVars, Counted
<1>3. CASE \E k \in Sockets : Destroy(k)
  BY <1>0, <1>3 DEF Destroy, senderVars, reportVars, Counted
<1>4. CASE \E m \in Messages : Refusal(m)
  BY <1>0, <1>4 DEF Refusal, Notify, Counted
<1>5. ASSUME NEW m \in Messages, NEW r \in ChunkRanges(m), Report(m, r)
      PROVE  /\ ackedBytes' \in [Messages -> Nat] /\ sentBytes' \in [Messages -> Nat]
             /\ incontiguous' \in [Messages -> SUBSET Ranges]
             /\ incontiguousCount' \in [Messages -> Nat]
             /\ acked' \in [Messages -> SUBSET Ranges]
             /\ resumed' \subseteq Messages
             /\ Counted'
  <2>0. acked' \in [Messages -> SUBSET Ranges]
    BY <1>0, <1>5, ChunkRangesFacts DEF Report
  <2>1. CASE ContiguousReport(m, r)
    <3>1. PICK reached, count \in Nat : Advance(m, r, reached, count)
      BY <2>1, ContiguousFacts
    <3>2. UNCHANGED <<sentBytes, resumed>>
      BY <2>1 DEF ContiguousReport
    <3> QED
      BY <1>0, <2>0, <3>1, <3>2 DEF Counted, Advance
  <2>2. CASE TooManyReports(m, r)
    <3>1. Counted'
      BY <1>0, <2>2, FS_EmptySet DEF TooManyReports, Counted
    <3> QED
      BY <1>0, <2>0, <2>2, <3>1 DEF TooManyReports
  <2>3. CASE IncontiguousReport(m, r)
    <3> DEFINE kept == {p \in incontiguous[m] : p.start # r.start} \cup {r}
    <3>1. /\ kept \subseteq Ranges /\ IsFiniteSet(kept)
          /\ Cardinality(kept) <= incontiguousCount[m] + 1
      BY KeptFacts
    <3>2. /\ incontiguous' = [incontiguous EXCEPT ![m] = kept]
          /\ incontiguousCount' = [incontiguousCount EXCEPT ![m] = @ + 1]
          /\ UNCHANGED <<ackedBytes, sentBytes, resumed>>
      BY <2>3 DEF IncontiguousReport
    <3> HIDE DEF kept
    <3> QED
      BY <1>0, <2>0, <3>1, <3>2 DEF Counted
  <2> QED
    BY <1>5, <2>1, <2>2, <2>3 DEF Report
<1>6. CASE \E m \in Messages : \E r \in ChunkRanges(m) : Report(m, r)
  <2>1. PICK m \in Messages : \E r \in ChunkRanges(m) : Report(m, r)
    BY <1>6
  <2>2. /\ UNCHANGED <<aborted, written>> /\ reports' = reports + 1
        /\ reported' \subseteq Messages
    BY <1>0, <2>1 DEF Report, Notify
  <2> QED
    BY <1>0, <1>5, <2>1, <2>2
<1> QED
  BY StepCases, <1>1, <1>2, <1>3, <1>4, <1>6

\* A step keeps every variable's type.
LEMMA TypeStep ==
  ASSUME IInv, [Next]_vars
  PROVE  TypeOK' /\ Counted'
  BY LoopTypes, ReportTypes DEF TypeOK, Frames

-----------------------------------------------------------------------------
(* Chunks.                                                                 *)

\* What the peer has acknowledged has been written.
LEMMA AckedIsWritten ==
  ASSUME IInv, NEW m \in Messages
  PROVE  /\ \A b \in 1..ackedBytes[m] : HasWritten(m, b)
         /\ ackedBytes[m] <= Size[m]
<1> USE DEF IInv
<1>1. ackedBytes[m] \in Nat
  BY DEF TypeOK
<1>2. ASSUME NEW b \in 1..ackedBytes[m]
      PROVE  \E i \in ChunksOf(m) : b \in Bytes(written[i]) /\ b <= Size[m]
  <2>1. PICK r \in acked[m] : b \in Bytes(r)
    BY DEF Acknowledged
  <2>2. PICK i \in ChunksOf(m) : r = [start |-> written[i].start, end |-> written[i].end]
    BY <2>1, ChunkRangesFacts DEF Acknowledged
  <2>3. b \in Bytes(written[i])
    BY <2>1, <2>2 DEF Bytes
  <2>4. written[i].end <= Size[m] /\ written[i].end \in Nat
    BY WrittenFacts DEF ChunksShape, ChunksOf
  <2> QED
    BY <2>3, <2>4, ConstantFacts DEF Bytes
<1>3. ackedBytes[m] <= Size[m]
  BY <1>1, <1>2, ConstantFacts
<1> QED
  BY <1>2, <1>3 DEF HasWritten

\* A step that writes nothing: chunks stay, and a sender is taken back at most
\* to where every byte has been written.
LEMMA NothingWritten ==
  ASSUME IInv, TypeOK', UNCHANGED written, resumed \subseteq resumed',
         down \subseteq down',
         \A m \in Messages :
           \/ UNCHANGED sentBytes[m]
           \/ SocketOf[m] \in down /\ sentBytes[m] <= sentBytes'[m] /\ sentBytes'[m] <= Size[m]
           \/ m \in resumed' /\ sentBytes'[m] = ackedBytes[m]
  PROVE  ChunksShape' /\ Position' /\ ChunksFollow'
<1> USE DEF IInv
<1>1. \A m \in Messages : ChunksOf(m)' = ChunksOf(m)
  BY DEF ChunksOf
<1>2. ChunksShape' /\ ChunksFollow'
  BY <1>1 DEF ChunksShape, ChunksFollow, Bytes
<1>3. ASSUME NEW m \in Messages
      PROVE  /\ sentBytes'[m] <= Size[m]
             /\ SocketOf[m] \notin down' => \A b \in 1..sentBytes'[m] : HasWritten(m, b)
             /\ m \notin resumed' => \A i \in ChunksOf(m) : written[i].end <= sentBytes'[m]
  <2>1. CASE UNCHANGED sentBytes[m]
    BY <2>1 DEF Position
  <2>2. CASE /\ SocketOf[m] \in down
             /\ sentBytes[m] <= sentBytes'[m] /\ sentBytes'[m] <= Size[m]
    <3>1. ASSUME m \notin resumed', NEW i \in ChunksOf(m)
          PROVE  written[i].end <= sentBytes'[m]
      <4>1. written[i].end <= sentBytes[m]
        BY <3>1 DEF Position
      <4>2. written[i].end \in Nat /\ sentBytes[m] \in Nat /\ sentBytes'[m] \in Nat
        BY WrittenFacts DEF ChunksOf, TypeOK
      <4> QED
        BY <4>1, <4>2, <2>2
    <3> QED
      BY <2>2, <3>1
  <2>3. CASE m \in resumed' /\ sentBytes'[m] = ackedBytes[m]
    BY <2>3, AckedIsWritten
  <2> QED
    BY <2>1, <2>2, <2>3
<1>4. \A m \in Messages : \A b : HasWritten(m, b)' <=> HasWritten(m, b)
  BY <1>1 DEF HasWritten
<1> QED
  BY <1>1, <1>2, <1>3, <1>4 DEF Position

\* A chunk is written where the sender stands, and takes it to its end.
LEMMA ChunkWritten ==
  ASSUME IInv, SendChunk, TypeOK'
  PROVE  ChunksShape' /\ Position' /\ ChunksFollow'
<1> USE DEF IInv
<1> DEFINE n == Head(queue)
           new == Len(written) + 1
<1>1. /\ n \in Messages /\ sentBytes[n] <= Size[n] /\ sentBytes[n] \in Nat
      /\ SocketOf[n] \notin down /\ UNCHANGED <<down, resumed>>
      /\ written' = Append(written, NextChunk(n)) /\ GetNextChunk(n)
  BY QueueFacts DEF SendChunk, Position, reportVars, TypeOK
<1> HIDE DEF n
<1>2. /\ NextEnd(n) \in Nat /\ sentBytes[n] <= NextEnd(n) /\ NextEnd(n) <= Size[n]
      /\ NextEnd(n) = sentBytes[n] => NextEnd(n) = Size[n]
  BY <1>1, NextEndFacts
<1>3. written'[new] = NextChunk(n) /\ Len(written) \in Nat
  BY <1>1, NewChunk
<1>4. ASSUME NEW m \in Messages
      PROVE  /\ ChunksOf(m) \subseteq ChunksOf(m)'
             /\ \A i \in ChunksOf(m)' :
                  i \notin ChunksOf(m) => i = new /\ m = n /\ n \notin aborted
             /\ \A i \in ChunksOf(m) : i \in Nat /\ i < new /\ written'[i] = written[i]
  BY <1>1, ChunksOfNew, WrittenFacts DEF ChunksOf
<1>5. n \notin aborted => /\ written'[new].start = sentBytes[n] + 1
                          /\ written'[new].end = NextEnd(n)
                          /\ sentBytes'[n] = NextEnd(n)
  BY <1>1, <1>3 DEF NextChunk, GetNextChunk, TypeOK
<1>6. \A m \in Messages : m # n \/ m \in aborted => sentBytes'[m] = sentBytes[m]
  BY <1>1 DEF GetNextChunk, TypeOK
<1>7. ChunksShape'
  <2>1. SUFFICES ASSUME NEW m \in Messages, NEW i \in ChunksOf(m)'
                 PROVE  /\ 1 <= written'[i].start /\ written'[i].start <= written'[i].end + 1
                        /\ written'[i].end <= Size[m]
                        /\ written'[i].end < written'[i].start => written'[i].end = Size[m]
    BY DEF ChunksShape
  <2>2. CASE i \in ChunksOf(m)
    BY <2>2, <1>4 DEF ChunksShape
  <2>3. CASE i \notin ChunksOf(m)
    <3>1. /\ written'[i].start = sentBytes[n] + 1 /\ written'[i].end = NextEnd(n)
          /\ m = n
      BY <2>3, <1>4, <1>5
    <3> QED
      BY <3>1, <1>1, <1>2, ConstantFacts
  <2> QED
    BY <2>2, <2>3
<1>8. \A m \in Messages : \A b : HasWritten(m, b) => HasWritten(m, b)'
  BY <1>4 DEF HasWritten
<1>9. Position'
  <2>1. SUFFICES ASSUME NEW m \in Messages
                 PROVE  /\ sentBytes'[m] <= Size[m]
                        /\ SocketOf[m] \notin down =>
                             \A b \in 1..sentBytes'[m] : HasWritten(m, b)'
                        /\ m \notin resumed =>
                             \A i \in ChunksOf(m)' : written'[i].end <= sentBytes'[m]
    BY <1>1 DEF Position
  <2>2. CASE m # n \/ m \in aborted
    <3>1. sentBytes'[m] = sentBytes[m] /\ ChunksOf(m)' = ChunksOf(m)
      BY <2>2, <1>4, <1>6
    <3> QED
      BY <3>1, <1>4, <1>8 DEF Position
  <2>3. CASE m = n /\ m \notin aborted
    <3>1. sentBytes'[m] <= Size[m]
      BY <2>3, <1>2, <1>5
    <3>2. ASSUME NEW b \in 1..sentBytes'[m]
          PROVE  HasWritten(m, b)'
      <4>1. CASE b <= sentBytes[m]
        BY <4>1, <2>3, <1>1, <1>8 DEF Position
      <4>2. CASE b > sentBytes[m]
        <5>1. NextChunk(n).msg = n /\ NextChunk(n).flag # "abort"
          BY <2>3 DEF NextChunk
        <5>2. new \in ChunksOf(m)'
          BY <5>1, <2>3, <1>1, <1>3, NewChunk DEF ChunksOf
        <5>3. b \in Bytes(written'[new])
          BY <4>2, <2>3, <1>1, <1>2, <1>5 DEF Bytes
        <5> QED
          BY <5>2, <5>3 DEF HasWritten
      <4> QED
        BY <4>1, <4>2, <1>1, <1>2, <1>5, <2>3
    <3>3. ASSUME m \notin resumed, NEW i \in ChunksOf(m)'
          PROVE  written'[i].end <= sentBytes'[m]
      <4>1. CASE i \in ChunksOf(m)
        <5>1. written[i].end <= sentBytes[m] /\ written[i].end \in Nat
          BY <4>1, <3>3, WrittenFacts DEF Position, ChunksOf
        <5>2. sentBytes[m] <= sentBytes'[m] /\ sentBytes[m] \in Nat /\ sentBytes'[m] \in Nat
          BY <2>3, <1>1, <1>2, <1>5
        <5>3. written'[i] = written[i]
          BY <4>1, <1>4
        <5> QED
          BY <5>1, <5>2, <5>3
      <4>2. CASE i \notin ChunksOf(m)
        BY <4>2, <2>3, <1>2, <1>4, <1>5
      <4> QED
        BY <4>1, <4>2
    <3> QED
      BY <3>1, <3>2, <3>3
  <2> QED
    BY <2>2, <2>3
<1>10. ChunksFollow'
  <2>1. SUFFICES
          ASSUME NEW m \in Messages, NEW i \in ChunksOf(m)'
          PROVE  /\ Bytes(written'[i]) \subseteq 1..Size[m]
                 /\ \A b \in 1..written'[i].start - 1 :
                      \E j \in {k \in ChunksOf(m)' : k < i} : b \in Bytes(written'[j])
                 /\ m \notin resumed =>
                      \A j \in {k \in ChunksOf(m)' : k < i} :
                        Bytes(written'[j]) \cap Bytes(written'[i]) = {}
    <3>1. resumed' = resumed
      BY <1>1
    <3> QED
      BY <3>1 DEF ChunksFollow, Bytes
  <2>2. {k \in ChunksOf(m)' : k < i} = {k \in ChunksOf(m) : k < i}
    BY <1>3, <1>4
  <2>3. CASE i \in ChunksOf(m)
    BY <2>2, <2>3, <1>4 DEF ChunksFollow, Bytes
  <2>4. CASE i \notin ChunksOf(m)
    <3>1. /\ i = new /\ m = n
          /\ written'[i].start = sentBytes[m] + 1 /\ written'[i].end = NextEnd(m)
      BY <2>4, <1>4, <1>5
    <3>2. Bytes(written'[i]) \subseteq 1..Size[m]
      BY <3>1, <1>1, <1>2, ConstantFacts DEF Bytes
    <3>3. ASSUME NEW b \in 1..written'[i].start - 1
          PROVE  \E j \in {k \in ChunksOf(m) : k < i} : b \in Bytes(written'[j])
      <4>1. b \in 1..sentBytes[m]
        BY <3>1, <1>1
      <4>2. PICK j \in ChunksOf(m) : b \in Bytes(written[j])
        BY <4>1, <3>1, <1>1 DEF Position, HasWritten
      <4> QED
        BY <4>2, <3>1, <1>4
    <3>4. ASSUME m \notin resumed, NEW j \in ChunksOf(m)
          PROVE  Bytes(written'[j]) \cap Bytes(written'[i]) = {}
      <4>1. /\ written'[j].end <= sentBytes[m]
            /\ written'[j].end \in Nat /\ written'[j].start \in Nat
        BY <3>4, <1>4, WrittenFacts DEF Position, ChunksOf
      <4>2. written'[i].start = sentBytes[m] + 1 /\ sentBytes[m] \in Nat
        BY <3>1, <1>1
      <4>3. \A b : ~(b \in Bytes(written'[j]) /\ b \in Bytes(written'[i]))
        BY <4>1, <4>2 DEF Bytes
      <4> QED
        BY <4>3
    <3> QED
      BY <2>2, <3>2, <3>3, <3>4
  <2> QED
    BY <2>3, <2>4
<1> QED
  BY <1>7, <1>9, <1>10

\* A step keeps what is known of the chunks.
LEMMA ChunksStep ==
  ASSUME IInv, [Next]_vars, TypeOK'
  PROVE  ChunksShape' /\ Position' /\ ChunksFollow'
<1>1. CASE Quiet
  BY <1>1, NothingWritten DEF Quiet, senderVars, reportVars
<1>2. CASE SendChunk
  BY <1>2, ChunkWritten
<1>3. CASE SocketUnavailable
  <2> DEFINE n == Head(queue)
  <2>1. /\ n \in Messages /\ SocketOf[n] \in down /\ GetNextChunk(n)
        /\ UNCHANGED <<written, down, resumed>>
        /\ sentBytes \in [Messages -> Nat] /\ sentBytes[n] <= Size[n]
    BY <1>3, QueueFacts DEF SocketUnavailable, reportVars, IInv, Position, TypeOK
  <2>2. sentBytes[n] <= NextEnd(n) /\ NextEnd(n) <= Size[n]
    BY <2>1, NextEndFacts DEF IInv
  <2>3. \A m \in Messages :
          \/ UNCHANGED sentBytes[m]
          \/ SocketOf[m] \in down /\ sentBytes[m] <= sentBytes'[m] /\ sentBytes'[m] <= Size[m]
    BY <2>1, <2>2 DEF GetNextChunk
  <2> QED
    BY <2>1, <2>3, NothingWritten
<1>4. CASE \E k \in Sockets : Destroy(k)
  BY <1>4, NothingWritten DEF Destroy, senderVars, reportVars
<1>5. CASE \E m \in Messages : Refusal(m)
  BY <1>5, NothingWritten DEF Refusal
<1>6. ASSUME NEW n \in Messages, NEW r \in ChunkRanges(n), Report(n, r)
      PROVE  ChunksShape' /\ Position' /\ ChunksFollow'
  <2>1. /\ resumed \subseteq resumed' /\ UNCHANGED <<written, down>>
        /\ \A m \in Messages : \/ UNCHANGED sentBytes[m]
                               \/ m \in resumed' /\ sentBytes'[m] = ackedBytes[m]
    BY <1>6 DEF Report, ContiguousReport, TooManyReports, IncontiguousReport, IInv, TypeOK
  <2> QED
    BY <2>1, NothingWritten
<1> QED
  BY <1>1, <1>2, <1>3, <1>4, <1>5, <1>6, StepCases

-----------------------------------------------------------------------------
(* Reports.                                                                *)

\* Reports are kept by their first byte alone.  That is enough as long as no
\* byte has been written twice.
LEMMA SameStart ==
  ASSUME IInv, NEW m \in Messages, m \notin resumed,
         NEW p \in ChunkRanges(m), NEW r \in ChunkRanges(m), p.start = r.start
  PROVE  p = r
<1> USE DEF IInv
<1>1. PICK i \in ChunksOf(m) : p = [start |-> written[i].start, end |-> written[i].end]
  BY ChunkRangesFacts
<1>2. PICK j \in ChunksOf(m) : r = [start |-> written[j].start, end |-> written[j].end]
  BY ChunkRangesFacts
<1>3. \A k \in ChunksOf(m) :
        /\ k \in Nat /\ written[k].start \in Nat /\ written[k].end \in Nat
        /\ 1 <= written[k].start /\ written[k].start <= written[k].end + 1
        /\ written[k].end <= Size[m]
        /\ written[k].end < written[k].start => written[k].end = Size[m]
  BY WrittenFacts DEF ChunksOf, ChunksShape
<1>4. i # j => Bytes(written[i]) \cap Bytes(written[j]) = {}
  <2>1. i < j \/ j < i \/ i = j
    BY <1>3
  <2>2. \A k, l \in ChunksOf(m) : k < l => Bytes(written[k]) \cap Bytes(written[l]) = {}
    BY DEF ChunksFollow
  <2>3. CASE i < j
    BY <2>2, <2>3
  <2>4. CASE j < i
    BY <2>2, <2>4
  <2> QED
    BY <2>1, <2>3, <2>4
<1>5. written[i].start = written[j].start
  BY <1>1, <1>2
<1>6. written[i].end = written[j].end
  <2>1. SUFFICES ASSUME i # j
                 PROVE  written[i].end = written[j].end
    OBVIOUS
  <2>2. ~(written[i].start \in Bytes(written[i]) /\ written[i].start \in Bytes(written[j]))
    BY <2>1, <1>4
  <2>3. written[i].end < written[i].start \/ written[j].end < written[j].start
    BY <2>2, <1>3, <1>5 DEF Bytes
  <2> QED
    BY <2>3, <1>3, <1>5, ConstantFacts
<1> QED
  BY <1>1, <1>2, <1>5, <1>6

\* A step of the loop or of a socket leaves the reports alone.
LEMMA NoReport ==
  ASSUME IInv, UNCHANGED reportVars, UNCHANGED aborted,
         UNCHANGED written
         \/ \E n \in Messages : /\ written' = Append(written, NextChunk(n))
                                /\ sentBytes[n] <= Size[n]
  PROVE  Acknowledged' /\ Completed'
<1> USE DEF IInv
<1>1. \A m \in Messages : ChunkRanges(m) \subseteq ChunkRanges(m)'
  <2>1. CASE UNCHANGED written
    BY <2>1 DEF ChunkRanges, ChunksOf
  <2>2. CASE \E n \in Messages : /\ written' = Append(written, NextChunk(n))
                                 /\ sentBytes[n] <= Size[n]
    <3>1. ASSUME NEW m \in Messages, NEW r \in ChunkRanges(m)
          PROVE  r \in ChunkRanges(m)'
      <4>1. PICK i \in ChunksOf(m) : r = [start |-> written[i].start, end |-> written[i].end]
        BY ChunkRangesFacts
      <4>2. i \in ChunksOf(m)' /\ written'[i] = written[i]
        BY <2>2, ChunksOfNew
      <4> QED
        BY <4>1, <4>2 DEF ChunkRanges
    <3> QED
      BY <3>1
  <2> QED
    BY <2>1, <2>2
<1>2. UNCHANGED <<incontiguous, acked, ackedBytes, resumed, reported>>
  BY DEF reportVars
<1>3. Acknowledged'
  <2>1. \A m \in Messages : acked[m] \subseteq ChunkRanges(m)'
    BY <1>1 DEF Acknowledged
  <2> QED
    BY <1>2, <2>1 DEF Acknowledged, Bytes
<1>4. Completed'
  BY <1>2 DEF Completed
<1> QED
  BY <1>3, <1>4

\* A report is noted for its message alone.
LEMMA ReportFrame ==
  ASSUME IInv, NEW n \in Messages, NEW r \in ChunkRanges(n), Report(n, r),
         NEW m \in Messages
  PROVE  /\ acked'[m] = IF m = n THEN acked[m] \cup {r} ELSE acked[m]
         /\ resumed' = resumed \/ resumed' = resumed \cup {n}
         /\ aborted' = aborted /\ ChunkRanges(m)' = ChunkRanges(m)
         /\ reported' = IF n \in aborted \/ ackedBytes'[n] >= Size[n]
                        THEN reported \cup {n} ELSE reported
         /\ m # n => UNCHANGED <<incontiguous[m], ackedBytes[m]>>
<1> USE DEF IInv
<1>1. acked'[m] = IF m = n THEN acked[m] \cup {r} ELSE acked[m]
  BY DEF Report, TypeOK
<1>2. aborted' = aborted /\ UNCHANGED written
  BY DEF Report
<1>3. ChunkRanges(m)' = ChunkRanges(m)
  BY <1>2 DEF ChunkRanges, ChunksOf
<1>4. reported' = IF n \in aborted \/ ackedBytes'[n] >= Size[n]
                  THEN reported \cup {n} ELSE reported
  BY <1>2 DEF Report, Notify, IsComplete
<1>5. /\ resumed' = resumed \/ resumed' = resumed \cup {n}
      /\ m # n => UNCHANGED <<incontiguous[m], ackedBytes[m]>>
  BY DEF Report, ContiguousReport, TooManyReports, IncontiguousReport, TypeOK
<1> QED
  BY <1>1, <1>2, <1>3, <1>4, <1>5

LEMMA ReportCome ==
  ASSUME IInv, NEW n \in Messages, NEW r \in ChunkRanges(n), Report(n, r)
  PROVE  Acknowledged' /\ Completed'
<1> USE DEF IInv
<1>0. /\ r.start \in Nat /\ r.end \in Nat
      /\ ackedBytes \in [Messages -> Nat] /\ incontiguous \in [Messages -> SUBSET Ranges]
      /\ \A p \in incontiguous[n] : p.start \in Nat /\ p.end \in Nat
  BY ChunkRangesFacts DEF TypeOK, Ranges
<1>01. \A m \in Messages :
        /\ acked'[m] = IF m = n THEN acked[m] \cup {r} ELSE acked[m]
        /\ resumed' = resumed \/ resumed' = resumed \cup {n}
        /\ aborted' = aborted /\ ChunkRanges(m)' = ChunkRanges(m)
        /\ reported' = IF n \in aborted \/ ackedBytes'[n] >= Size[n]
                       THEN reported \cup {n} ELSE reported
        /\ m # n => UNCHANGED <<incontiguous[m], ackedBytes[m]>>
  BY ReportFrame
<1>02. \A m \in Messages : acked[m] \cup {r} \subseteq ChunkRanges(m) \/ m # n
  BY DEF Acknowledged
<1>03. ASSUME ackedBytes'[n] \in Nat, ackedBytes[n] <= ackedBytes'[n]
       PROVE  Completed'
  <2>1. SUFFICES ASSUME NEW m \in Messages
                 PROVE  /\ m \in reported' \ aborted => ackedBytes'[m] >= Size[m]
                        /\ Size[m] > 0 /\ ackedBytes'[m] >= Size[m] => m \in reported'
    BY <1>01 DEF Completed
  <2>2. CASE m # n
    BY <2>2, <1>01 DEF Completed
  <2>3. CASE m = n /\ m \in aborted
    BY <2>3, <1>01
  <2>4. CASE m = n /\ m \notin aborted
    <3>1. m \in reported => ackedBytes'[m] >= Size[m]
      BY <2>4, <1>0, <1>03, ConstantFacts DEF Completed
    <3> QED
      BY <3>1, <2>4, <1>01
  <2> QED
    BY <2>2, <2>3, <2>4
<1>1. ASSUME NEW reached \in Nat, NEW count \in Nat, Advance(n, r, reached, count),
             UNCHANGED resumed
      PROVE  Acknowledged' /\ Completed'
  <2> DEFINE rest == {p \in incontiguous[n] : p.start > reached + 1}
  <2>1. /\ ackedBytes'[n] = reached /\ incontiguous'[n] = rest
        /\ ackedBytes[n] <= reached /\ r.end <= reached
        /\ \A p \in incontiguous[n] : p \in rest \/ p.end <= reached
        /\ \A b \in 1..reached : \E p \in acked[n] \cup {r} : b \in Bytes(p)
    BY <1>0, <1>1 DEF Advance
  <2>2. Acknowledged'
    <3>1. SUFFICES ASSUME NEW m \in Messages
                   PROVE  /\ incontiguous'[m] \subseteq acked'[m]
                          /\ acked'[m] \subseteq ChunkRanges(m)
                          /\ \A b \in 1..ackedBytes'[m] : \E p \in acked'[m] : b \in Bytes(p)
                          /\ \A p \in incontiguous'[m] : p.start > ackedBytes'[m] + 1
                          /\ m \notin resumed =>
                               \A p \in acked'[m] :
                                 p.end <= ackedBytes'[m] \/ p \in incontiguous'[m]
      BY <1>1, <1>01 DEF Acknowledged, Bytes
    <3>2. CASE m # n
      BY <3>2, <1>01 DEF Acknowledged
    <3>3. CASE m = n
      <4>1. acked'[m] = acked[m] \cup {r}
        BY <3>3, <1>01
      <4>2. ASSUME m \notin resumed, NEW p \in acked'[m]
            PROVE  p.end <= reached \/ p \in rest
        <5>1. CASE p = r
          BY <5>1, <2>1
        <5>2. CASE p \in acked[m]
          <6>1. p.end <= ackedBytes[m] \/ p \in incontiguous[m]
            BY <4>2, <5>2 DEF Acknowledged
          <6>2. p.end \in Nat
            BY <5>2, ChunkRangesFacts DEF Acknowledged, Ranges
          <6> QED
            BY <6>1, <6>2, <3>3, <2>1, <1>0
        <5> QED
          BY <4>1, <4>2, <5>1, <5>2
      <4>3. rest \subseteq acked[m] /\ acked'[m] \subseteq ChunkRanges(m)
        BY <3>3, <4>1 DEF Acknowledged
      <4> QED
        BY <2>1, <3>3, <4>1, <4>2, <4>3
    <3> QED
      BY <3>2, <3>3
  <2>3. Completed'
    BY <2>1, <1>03
  <2> QED
    BY <2>2, <2>3
<1>2. CASE ContiguousReport(n, r)
  <2>1. PICK reached, count \in Nat : Advance(n, r, reached, count)
    BY <1>2, ContiguousFacts
  <2>2. UNCHANGED resumed
    BY <1>2 DEF ContiguousReport
  <2> QED
    BY <2>1, <2>2, <1>1
<1>3. CASE TooManyReports(n, r)
  <2>1. /\ UNCHANGED ackedBytes /\ incontiguous'[n] = {} /\ resumed' = resumed \cup {n}
    BY <1>0, <1>3 DEF TooManyReports
  <2>2. Acknowledged'
    <3>1. SUFFICES ASSUME NEW m \in Messages
                   PROVE  /\ incontiguous'[m] \subseteq acked'[m]
                          /\ acked'[m] \subseteq ChunkRanges(m)
                          /\ \A b \in 1..ackedBytes[m] : \E p \in acked'[m] : b \in Bytes(p)
                          /\ \A p \in incontiguous'[m] : p.start > ackedBytes[m] + 1
                          /\ m \notin resumed' =>
                               \A p \in acked'[m] :
                                 p.end <= ackedBytes[m] \/ p \in incontiguous'[m]
      BY <2>1, <1>01 DEF Acknowledged, Bytes
    <3>2. CASE m # n
      BY <3>2, <2>1, <1>01 DEF Acknowledged
    <3>3. CASE m = n
      BY <3>3, <2>1, <1>01 DEF Acknowledged
    <3> QED
      BY <3>2, <3>3
  <2>3. Completed'
    BY <2>1, <1>0, <1>03
  <2> QED
    BY <2>2, <2>3
<1>4. CASE IncontiguousReport(n, r)
  <2> DEFINE kept == {p \in incontiguous[n] : p.start # r.start} \cup {r}
  <2>1. /\ UNCHANGED <<ackedBytes, resumed>> /\ incontiguous'[n] = kept
        /\ r.start > ackedBytes[n] + 1
    BY <1>0, <1>4 DEF IncontiguousReport
  <2>2. Acknowledged'
    <3>1. SUFFICES ASSUME NEW m \in Messages
                   PROVE  /\ incontiguous'[m] \subseteq acked'[m]
                          /\ acked'[m] \subseteq ChunkRanges(m)
                          /\ \A b \in 1..ackedBytes[m] : \E p \in acked'[m] : b \in Bytes(p)
                          /\ \A p \in incontiguous'[m] : p.start > ackedBytes[m] + 1
                          /\ m \notin resumed =>
                               \A p \in acked'[m] :
                                 p.end <= ackedBytes[m] \/ p \in incontiguous'[m]
      BY <2>1, <1>01 DEF Acknowledged, Bytes
    <3>2. CASE m # n
      BY <3>2, <2>1, <1>01 DEF Acknowledged
    <3>3. CASE m = n
      <4>1. acked'[m] = acked[m] \cup {r} /\ acked'[m] \subseteq ChunkRanges(m)
        BY <3>3, <1>01 DEF Acknowledged
      <4>2. kept \subseteq acked'[m] /\ \A p \in kept : p.start > ackedBytes[m] + 1
        BY <3>3, <4>1, <2>1 DEF Acknowledged
      <4>3. ASSUME m \notin resumed, NEW p \in acked'[m]
            PROVE  p.end <= ackedBytes[m] \/ p \in kept
        <5>1. CASE p = r
          BY <5>1
        <5>2. CASE p \in acked[m] /\ p # r
          <6>1. p.end <= ackedBytes[m] \/ p \in incontiguous[m]
            BY <4>3, <5>2 DEF Acknowledged
          <6>2. p.start # r.start
            BY <3>3, <4>1, <4>3, <5>2, SameStart
          <6> QED
            BY <6>1, <6>2, <3>3
        <5> QED
          BY <4>1, <4>3, <5>1, <5>2
      <4> QED
        BY <2>1, <3>3, <4>1, <4>2, <4>3 DEF Acknowledged
    <3> QED
      BY <3>2, <3>3
  <2>3. Completed'
    BY <2>1, <1>0, <1>03
  <2> QED
    BY <2>2, <2>3
<1> QED
  BY <1>2, <1>3, <1>4 DEF Report

\* A step keeps what is known of the reports.
LEMMA ReportsStep ==
  ASSUME IInv, [Next]_vars
  PROVE  Acknowledged' /\ Completed'
<1>1. CASE Quiet
  BY <1>1, NoReport DEF Quiet, senderVars
<1>2. CASE SendChunk \/ SocketUnavailable
  <2> DEFINE n == Head(queue)
  <2>1. n \in Messages
    BY <1>2, QueueFacts DEF SendChunk, SocketUnavailable, IInv
  <2>2. sentBytes[n] <= Size[n]
    BY <2>1 DEF IInv, Position
  <2>3. UNCHANGED <<aborted, reportVars>>
        /\ (UNCHANGED written \/ written' = Append(written, NextChunk(n)))
    BY <1>2 DEF SendChunk, SocketUnavailable
  <2> QED
    BY <2>1, <2>2, <2>3, NoReport
<1>3. CASE \E k \in Sockets : Destroy(k)
  BY <1>3, NoReport DEF Destroy, senderVars
<1>4. ASSUME NEW n \in Messages, Refusal(n)
      PROVE  Acknowledged' /\ Completed'
  <2>1. /\ UNCHANGED <<ackedBytes, incontiguous, acked, resumed, written>>
        /\ aborted' = aborted \cup {n} /\ reported' = reported \cup {n}
    BY <1>4 DEF Refusal, Notify, IsComplete
  <2>2. \A m \in Messages : ChunkRanges(m)' = ChunkRanges(m)
    BY <2>1 DEF ChunkRanges, ChunksOf
  <2>3. Acknowledged'
    BY <2>1, <2>2 DEF IInv, Acknowledged, Bytes
  <2>4. Completed'
    BY <2>1 DEF IInv, Completed
  <2> QED
    BY <2>3, <2>4
<1> QED
  BY <1>1, <1>2, <1>3, <1>4, StepCases, ReportCome

LEMMA InitIInv ==
  ASSUME Init
  PROVE  IInv
<1>1. TypeOK
  BY DEF Init, TypeOK
<1>2. Counted
  BY FS_EmptySet DEF Init, Counted
<1>3. \A m \in Messages : ChunksOf(m) = {}
  BY DEF Init, ChunksOf
<1>4. ChunksShape /\ ChunksFollow
  BY <1>3 DEF ChunksShape, ChunksFollow
<1>5. Position
  BY <1>3, ConstantFacts DEF Init, Position
<1>6. Acknowledged
  BY DEF Init, Acknowledged
<1>7. Completed
  BY ConstantFacts DEF Init, Completed
<1> QED
  BY <1>1, <1>2, <1>4, <1>5, <1>6, <1>7 DEF IInv

\* The invariant of the first part is inductive.
LEMMA Invariance == Spec => []IInv
<1>1. ASSUME IInv, [Next]_vars
      PROVE  IInv'
  BY <1>1, TypeStep, ChunksStep, ReportsStep DEF IInv
<1> QED
  BY <1>1, InitIInv, PTL DEF Spec

\* Every variable of the sending side keeps its type; the count of the kept
\* reports never goes below zero.
THEOREM TypeCorrect == Spec => []TypeOK
<1>1. IInv => TypeOK
  BY DEF IInv
<1> QED
  BY <1>1, Invariance, PTL

\* The chunks of every message follow each other without a gap, and without a
\* repetition unless resume has rewound, whatever the application does and
\* however messages, sockets and reports interleave.
THEOREM Following == Spec => []ChunksFollow
<1>1. IInv => ChunksFollow
  BY DEF IInv
<1> QED
  BY <1>1, Invariance, PTL

\* The "report" event is neither early nor withheld, in whatever order reports
\* come, repeated or not, and whatever the application does.
THEOREM ReportsTellTheTruth == Spec => []ReportedIsAcked
<1>1. ASSUME IInv
      PROVE  ReportedIsAcked
  <2> USE <1>1 DEF IInv
  <2>1. ASSUME NEW m \in reported \ aborted
        PROVE  Covered(m)
    <3>1. m \in Messages /\ ackedBytes[m] >= Size[m] /\ ackedBytes[m] \in Nat
      BY <2>1 DEF TypeOK, Completed
    <3> QED
      BY <3>1, ConstantFacts DEF Acknowledged, Covered
  <2>2. ASSUME NEW m \in sent \ resumed, Size[m] > 0, Covered(m)
        PROVE  m \in reported
    <3>1. m \in Messages /\ m \notin resumed
      BY <2>2 DEF TypeOK
    <3>2. ackedBytes[m] \in Nat /\ Size[m] \in Nat
      BY <3>1, ConstantFacts DEF TypeOK
    <3>3. ackedBytes[m] >= Size[m]
      <4>1. SUFFICES ASSUME ackedBytes[m] < Size[m]
                     PROVE  FALSE
        BY <3>2
      <4>2. PICK r \in acked[m] : ackedBytes[m] + 1 \in Bytes(r)
        BY <2>2, <3>2, <4>1 DEF Covered
      <4>3. r.start \in Nat /\ r.end \in Nat
        BY <3>1, ChunkRangesFacts DEF Acknowledged, Ranges
      <4>4. r.start <= ackedBytes[m] + 1 /\ ackedBytes[m] + 1 <= r.end
        BY <4>2, <4>3, <3>2 DEF Bytes
      <4>5. r \in incontiguous[m]
        BY <4>3, <4>4, <3>1, <3>2 DEF Acknowledged
      <4> QED
        BY <4>3, <4>4, <4>5, <3>1, <3>2 DEF Acknowledged
    <3> QED
      BY <2>2, <3>1, <3>3 DEF Completed
  <2> QED
    BY <2>1, <2>2 DEF ReportedIsAcked
<1> QED
  BY <1>1, Invariance, PTL

-----------------------------------------------------------------------------
(* The queue, when the application is careful.                             *)

LEMMA TailOfQueue ==
  ASSUME NEW S, NEW q \in Seq(S), q # <<>>, NoRepetition(q)
  PROVE  /\ Tail(q) \in Seq(S) /\ NoRepetition(Tail(q))
         /\ ToSet(Tail(q)) = ToSet(q) \ {Head(q)}
         /\ Head(q) \in ToSet(q) /\ Head(q) \in S
<1>1. /\ Head(q) \in S /\ Tail(q) \in Seq(S) /\ Len(Tail(q)) = Len(q) - 1
      /\ \A i \in 1..Len(Tail(q)) : Tail(q)[i] = q[i + 1]
  BY HeadTailProperties
<1>2. Len(q) \in Nat \ {0} /\ Head(q) = q[1] /\ DOMAIN q = 1..Len(q)
  BY EmptySeq, LenProperties
<1>3. DOMAIN Tail(q) = 1..Len(q) - 1
  BY <1>1, LenProperties
<1>4. \A i \in DOMAIN Tail(q) : i + 1 \in DOMAIN q /\ Tail(q)[i] = q[i + 1]
  BY <1>1, <1>2, <1>3
<1>5. NoRepetition(Tail(q))
  BY <1>2, <1>3, <1>4 DEF NoRepetition
<1>6. \A i \in DOMAIN q : i = 1 \/ (i - 1 \in DOMAIN Tail(q) /\ Tail(q)[i - 1] = q[i])
  BY <1>1, <1>2, <1>3
<1>7. 1 \in DOMAIN q
  BY <1>2
<1>8. ASSUME NEW x
      PROVE  x \in ToSet(Tail(q)) <=> x \in ToSet(q) /\ x # Head(q)
  <2>1. ASSUME x \in ToSet(Tail(q))
        PROVE  x \in ToSet(q) /\ x # Head(q)
    <3>1. PICK i \in DOMAIN Tail(q) : x = Tail(q)[i]
      BY <2>1 DEF ToSet
    <3>2. i + 1 \in DOMAIN q /\ x = q[i + 1] /\ i + 1 # 1
      BY <3>1, <1>4, <1>2, <1>3
    <3> QED
      BY <3>2, <1>2, <1>7 DEF ToSet, NoRepetition
  <2>2. ASSUME x \in ToSet(q), x # Head(q)
        PROVE  x \in ToSet(Tail(q))
    <3>1. PICK i \in DOMAIN q : x = q[i]
      BY <2>2 DEF ToSet
    <3> QED
      BY <3>1, <2>2, <1>2, <1>6 DEF ToSet
  <2> QED
    BY <2>1, <2>2
<1>9. ToSet(Tail(q)) = ToSet(q) \ {Head(q)}
  BY <1>8
<1>10. Head(q) \in ToSet(q)
  BY <1>2, <1>7 DEF ToSet
<1> QED
  BY <1>1, <1>5, <1>9, <1>10

LEMMA AppendToQueue ==
  ASSUME NEW S, NEW q \in Seq(S), NoRepetition(q), NEW x \in S, x \notin ToSet(q)
  PROVE  /\ Append(q, x) \in Seq(S) /\ NoRepetition(Append(q, x))
         /\ ToSet(Append(q, x)) = ToSet(q) \cup {x}
<1> DEFINE n == Len(q)
           t == Append(q, x)
<1>1. /\ t \in Seq(S) /\ Len(t) = n + 1 /\ t[n + 1] = x
      /\ \A i \in 1..n : t[i] = q[i]
  BY AppendProperties
<1>2. n \in Nat /\ DOMAIN q = 1..n
  BY LenProperties
<1>3. DOMAIN t = 1..n + 1
  BY <1>1, LenProperties
<1> HIDE DEF t, n
<1>4. DOMAIN t = DOMAIN q \cup {n + 1} /\ n + 1 \notin DOMAIN q
  BY <1>2, <1>3
<1>5. \A i \in DOMAIN q : t[i] = q[i] /\ q[i] # x
  BY <1>1, <1>2 DEF ToSet
<1>6. NoRepetition(t)
  BY <1>1, <1>4, <1>5 DEF NoRepetition
<1>7. ToSet(t) = ToSet(q) \cup {x}
  BY <1>1, <1>4, <1>5 DEF ToSet
<1> QED
  BY <1>1, <1>6, <1>7 DEF t

\* Another sender goes to its end: the queue holds the same messages.
LEMMA RotatedQueue ==
  ASSUME NEW S, NEW q \in Seq(S), q # <<>>, NoRepetition(q)
  PROVE  /\ NoRepetition(Append(Tail(q), Head(q)))
         /\ ToSet(Append(Tail(q), Head(q))) = ToSet(q)
<1>1. /\ Tail(q) \in Seq(S) /\ NoRepetition(Tail(q))
      /\ ToSet(Tail(q)) = ToSet(q) \ {Head(q)}
      /\ Head(q) \in ToSet(q) /\ Head(q) \in S
  BY TailOfQueue
<1>2. Head(q) \notin ToSet(Tail(q))
  BY <1>1
<1>3. /\ NoRepetition(Append(Tail(q), Head(q)))
      /\ ToSet(Append(Tail(q), Head(q))) = ToSet(Tail(q)) \cup {Head(q)}
  <2> DEFINE t == Tail(q)
             h == Head(q)
  <2>1. t \in Seq(S) /\ NoRepetition(t) /\ h \in S /\ h \notin ToSet(t)
    BY <1>1, <1>2
  <2> HIDE DEF t, h
  <2>2. NoRepetition(Append(t, h)) /\ ToSet(Append(t, h)) = ToSet(t) \cup {h}
    BY <2>1, AppendToQueue
  <2> QED
    BY <2>2 DEF t, h
<1> QED
  BY <1>1, <1>3

LEMMA EndStays ==
  ASSUME IInv, [Next]_vars, NEW m \in Messages, EndWritten(m)
  PROVE  EndWritten(m)'
<1>1. CASE SendChunk
  <2> DEFINE n == Head(queue)
  <2>1. n \in Messages /\ sentBytes[n] <= Size[n] /\ written' = Append(written, NextChunk(n))
    BY <1>1, QueueFacts DEF SendChunk, IInv, Position
  <2> QED
    BY <2>1, NewChunk DEF IInv, EndWritten
<1>2. CASE ~SendChunk
  <2>1. UNCHANGED written
    BY <1>2, StepCases DEF Quiet, SocketUnavailable, Destroy, Refusal, Report
  <2> QED
    BY <2>1 DEF EndWritten
<1> QED
  BY <1>1, <1>2

-----------------------------------------------------------------------------
(* The loops, when the application is careful.                             *)

\* A loop that ends or is left goes back to the callback that ran it, if any.
LEMMA LoopLeft ==
  ASSUME IInv, FramesShape, frames # <<>>, frames' = Front(frames)
  PROVE  /\ \A i \in 1..Len(frames') - 1 : frames'[i].at = "done"
         /\ ~Running("sent")' /\ ~Running("failed")'
<1>1. frames \in Seq(Frames)
  BY DEF IInv, TypeOK, Frames
<1>2. /\ frames' \in Seq(Frames) /\ Len(frames') = Len(frames) - 1
      /\ \A i \in 1..Len(frames) - 1 : frames'[i] = frames[i]
  BY <1>1, FrontLastFacts
<1>3. Len(frames) \in Nat /\ Len(frames') \in Nat
  BY <1>1, <1>2, LenProperties
<1>4. \A i \in 1..Len(frames') : frames'[i].at = "done"
  BY <1>2, <1>3 DEF FramesShape
<1>5. ASSUME frames' # <<>>
      PROVE  Last(frames').at = "done"
  <2>1. Len(frames') # 0 /\ Last(frames') = frames'[Len(frames')]
    BY <1>2, <1>5, EmptySeq, FrontLastFacts
  <2> QED
    BY <2>1, <1>3, <1>4
<1> QED
  BY <1>3, <1>4, <1>5 DEF Running

LEMMA LoopGoes ==
  ASSUME IInv, FramesShape, frames # <<>>,
         NEW at \in Calls \cup {"loop"}, NEW m \in Messages, GoTo(at, m)
  PROVE  /\ \A i \in 1..Len(frames') - 1 : frames'[i].at = "done"
         /\ \A a : Running(a)' <=> a = at
         /\ Current' = m
<1> DEFINE f == [at |-> at, msg |-> m]
<1>1. frames \in Seq(Frames) /\ f \in Frames /\ frames' = Append(Front(frames), f)
  BY DEF IInv, TypeOK, Frames, GoTo
<1>2. /\ frames' # <<>> /\ Len(frames') = Len(frames) /\ Last(frames') = f
      /\ \A i \in 1..Len(frames') - 1 : frames'[i] = frames[i]
  <2> HIDE DEF f
  <2> DEFINE t == Append(Front(frames), f)
  <2>1. /\ t # <<>> /\ Len(t) = Len(frames) /\ Last(t) = f
        /\ \A i \in 1..Len(t) - 1 : t[i] = frames[i]
    BY <1>1, LastReplaced, Zenon
  <2>2. frames' = t
    BY <1>1
  <2> HIDE DEF t
  <2> QED
    BY <2>1, <2>2
<1>3. f.at = at /\ f.msg = m
  OBVIOUS
<1>4. \A i \in 1..Len(frames') - 1 : frames'[i].at = "done"
  BY <1>2 DEF FramesShape
<1> HIDE DEF f
<1> QED
  BY <1>2, <1>3, <1>4 DEF Running, Current

\* The application calls back only from a callback, and throws only where a
\* head stays in the queue or its callback has been told.
LEMMA CarefulPoints ==
  ASSUME Careful
  PROVE  /\ May("send") => Running("done")
         /\ May("throw") => Running("sent") \/ Running("done")
  BY DEF Careful, May

LEMMA OnePoint ==
  ASSUME NEW a, NEW b, Running(a), Running(b)
  PROVE  a = b
  BY DEF Running

-----------------------------------------------------------------------------
(* No message is lost or called back twice.                                *)

\* Steps that leave the queue, the loops and what the callbacks were told.
LEMMA OutsideTheLoop ==
  ASSUME IInv, CarefulInv, [Next]_vars,
         UNCHANGED <<queue, frames, sent, told>>,
         ToSet(queue) \subseteq sent \ aborted', senders' \cup aborted' \subseteq sent,
         Running("sent") => UNCHANGED sentBytes
  PROVE  CarefulInv'
<1>1. \A m \in Messages : EndWritten(m) => EndWritten(m)'
  BY EndStays
<1>2. \A a : Running(a)' <=> Running(a)
  BY DEF Running
<1>3. Current' = Current /\ (Running("sent") => Current \in Messages)
  BY FramesFacts DEF Current, Running, IInv
<1>4. QueueShape'
  BY DEF CarefulInv, QueueShape, NoRepetition
<1>5. FramesShape'
  BY <1>1, <1>2, <1>3 DEF CarefulInv, FramesShape, ToldFailed
<1>6. ToldShape'
  BY <1>1, <1>2, <1>3 DEF CarefulInv, ToldShape, Untold, ToldSent, ToldFailed
<1> QED
  BY <1>4, <1>5, <1>6 DEF CarefulInv

\* A message is given to the queue, by no loop or by a callback that has been
\* told.
LEMMA CarefulSend ==
  ASSUME Careful, IInv, CarefulInv, [Next]_vars, NEW m \in Messages, SendMessage(m)
  PROVE  CarefulInv'
<1> USE DEF CarefulInv
<1>1. /\ queue \in Seq(Messages) /\ frames \in Seq(Frames)
      /\ m \notin sent /\ m \notin aborted /\ m \notin ToSet(queue)
  BY DEF IInv, TypeOK, Frames, QueueShape, SendMessage
<1>2. NoRepetition(queue') /\ ToSet(queue') = ToSet(queue) \cup {m}
  BY <1>1, AppendToQueue DEF QueueShape, SendMessage
<1>3. UNCHANGED <<sentBytes, aborted, written, told>>
      /\ sent' = sent \cup {m} /\ senders' = senders \cup {m}
  BY DEF SendMessage, senderVars
<1>4. QueueShape'
  BY <1>1, <1>2, <1>3 DEF QueueShape
<1> DEFINE f == [at |-> "loop", msg |-> m]
<1>5. f \in Frames /\ f.at = "loop" /\ frames' = Append(frames, f)
  BY DEF SendMessage, Frames
<1>6. /\ frames' \in Seq(Frames) /\ Len(frames') = Len(frames) + 1
      /\ \A i \in 1..Len(frames) : frames'[i] = frames[i]
      /\ frames'[Len(frames) + 1] = f /\ Len(frames) \in Nat
  <2> HIDE DEF f
  <2> QED
    BY <1>1, <1>5, AppendProperties, LenProperties
<1>7. frames # <<>> => frames[Len(frames)].at = "done"
  <2>1. frames # <<>> => Running("done")
    BY CarefulPoints DEF SendMessage, Idle
  <2> QED
    BY <2>1, <1>1, FrontLastFacts DEF Running
<1>8. \A i \in 1..Len(frames') - 1 : frames'[i].at = "done"
  <2>1. SUFFICES ASSUME NEW i \in 1..Len(frames)
                 PROVE  frames[i].at = "done"
    BY <1>6
  <2>2. CASE i = Len(frames)
    <3>1. frames # <<>>
      BY <2>2, <1>6, EmptySeq
    <3> QED
      BY <2>2, <3>1, <1>7
  <2>3. CASE i \in 1..Len(frames) - 1
    BY <2>3 DEF FramesShape
  <2> QED
    BY <2>2, <2>3, <1>6
<1>9. ~Running("sent")' /\ ~Running("failed")'
  <2>1. Last(frames') = f
    BY <1>6, FrontLastFacts, EmptySeq DEF Last
  <2> QED
    BY <2>1, <1>5 DEF Running
<1>10. FramesShape'
  BY <1>8, <1>9 DEF FramesShape
<1>11. ~Running("failed")
  <2>1. frames = <<>> \/ Running("done")
    BY CarefulPoints DEF SendMessage, Idle
  <2> QED
    BY <2>1, OnePoint DEF Running
<1>12. \A n \in Messages : /\ EndWritten(n)' <=> EndWritten(n)
                           /\ Untold(n)' <=> Untold(n)
                           /\ ToldSent(n)' <=> ToldSent(n)
                           /\ ToldFailed(n)' <=> ToldFailed(n)
  BY <1>3 DEF EndWritten, Untold, ToldSent, ToldFailed
<1>13. ToldShape'
  BY <1>1, <1>2, <1>3, <1>9, <1>11, <1>12 DEF ToldShape
<1> QED
  BY <1>4, <1>10, <1>13

\* The innermost loop ends or is left.
LEMMA CarefulLeave ==
  ASSUME Careful, IInv, CarefulInv, LoopEnds \/ Throw
  PROVE  CarefulInv'
<1> USE DEF CarefulInv
<1>1. /\ frames # <<>> /\ frames' = Front(frames) /\ ~Running("failed")
      /\ UNCHANGED <<queue, senders, sentBytes, aborted, sent, written, told>>
  BY CarefulPoints, OnePoint DEF LoopEnds, Throw, May, Running, senderVars
<1>2. FramesShape' /\ ~Running("failed")'
  BY <1>1, LoopLeft DEF FramesShape
<1>3. \A n \in Messages : /\ EndWritten(n)' <=> EndWritten(n)
                          /\ Untold(n)' <=> Untold(n)
                          /\ ToldSent(n)' <=> ToldSent(n)
                          /\ ToldFailed(n)' <=> ToldFailed(n)
  BY <1>1 DEF EndWritten, Untold, ToldSent, ToldFailed
<1>4. QueueShape' /\ ToldShape'
  BY <1>1, <1>2, <1>3 DEF QueueShape, ToldShape, NoRepetition
<1> QED
  BY <1>2, <1>4

LEMMA Literals ==
  /\ <<>> # <<"sent">> /\ <<>> # <<"failed">> /\ <<"sent">> # <<"failed">>
  /\ Append(<<>>, "sent") = <<"sent">> /\ Append(<<>>, "failed") = <<"failed">>
  /\ Len(<<>>) = 0 /\ Len(<<"sent">>) = 1 /\ Len(<<"failed">>) = 1
  OBVIOUS

\* One turn of the loop, up to the listeners or to the callback of a message
\* whose socket is gone.
LEMMA CarefulTurn ==
  ASSUME IInv, CarefulInv, [Next]_vars, SendChunk \/ SocketUnavailable
  PROVE  CarefulInv'
<1> USE DEF CarefulInv
<1>0. PICK n \in Messages : n = Head(queue)
  BY QueueFacts DEF SendChunk, SocketUnavailable, IInv
<1>1. /\ Running("loop") /\ frames # <<>> /\ queue # <<>>
      /\ GetNextChunk(n) /\ UNCHANGED <<senders, aborted, sent>>
  BY <1>0 DEF SendChunk, SocketUnavailable, Running
<1>2. n \in ToSet(queue) /\ n \in Messages /\ n \notin aborted /\ n \in sent
  BY <1>0, <1>1, TailOfQueue DEF IInv, TypeOK, QueueShape
<1>3. queue' = queue
  BY <1>0, <1>2 DEF SendChunk, SocketUnavailable, WithoutAborted
<1>4. QueueShape'
  BY <1>1, <1>3 DEF QueueShape, NoRepetition
<1>5. ~Running("failed") /\ Untold(n)
  BY <1>1, <1>2, OnePoint DEF ToldShape
<1>6. \A m \in Messages : EndWritten(m) => EndWritten(m)'
  BY EndStays
<1>7. CASE SendChunk
  <2>1. GoTo("sent", n) /\ UNCHANGED told /\ written' = Append(written, NextChunk(n))
    BY <1>0, <1>7 DEF SendChunk
  <2>2. /\ \A i \in 1..Len(frames') - 1 : frames'[i].at = "done"
        /\ Running("sent")' /\ ~Running("failed")' /\ Current' = n
    BY <2>1, <1>1, <1>2, LoopGoes DEF Calls
  <2>3. sentBytes'[n] < Size[n] \/ EndWritten(n)'
    <3>1. sentBytes[n] <= Size[n] /\ sentBytes' = [sentBytes EXCEPT ![n] = NextEnd(n)]
      BY <1>1, <1>2 DEF GetNextChunk, IInv, Position
    <3>2. sentBytes'[n] = NextEnd(n)
      BY <3>1, <1>2 DEF IInv, TypeOK
    <3>3. ~(NextEnd(n) < Size[n]) => NextChunk(n).flag = "end"
      BY <1>2 DEF NextChunk
    <3>4. NextChunk(n).msg = n
      BY DEF NextChunk
    <3>5. \E i \in DOMAIN written' : written'[i] = NextChunk(n)
      BY <3>1, <2>1, <1>2, NewChunk DEF IInv
    <3>6. NextChunk(n).flag = "end" => EndWritten(n)'
      BY <3>4, <3>5 DEF EndWritten
    <3> QED
      BY <3>2, <3>3, <3>6
  <2>4. FramesShape'
    BY <2>2, <2>3, <1>0, <1>1, <1>3 DEF FramesShape
  <2>5. \A m \in Messages : /\ Untold(m)' <=> Untold(m)
                            /\ ToldSent(m)' <=> ToldSent(m)
                            /\ ToldFailed(m)' <=> ToldFailed(m)
    BY <2>1 DEF Untold, ToldSent, ToldFailed
  <2>6. ToldShape'
    BY <2>2, <2>5, <1>1, <1>3, <1>5, <1>6 DEF ToldShape
  <2> QED
    BY <1>4, <2>4, <2>6
<1>8. CASE SocketUnavailable
  <2>1. /\ GoTo("failed", n) /\ UNCHANGED written
        /\ told' = [told EXCEPT ![n] = <<"failed">>]
    BY <1>0, <1>2, <1>5, <1>8, Literals DEF SocketUnavailable, Untold, IInv, TypeOK
  <2>2. /\ \A i \in 1..Len(frames') - 1 : frames'[i].at = "done"
        /\ ~Running("sent")' /\ Running("failed")' /\ Current' = n
    BY <2>1, <1>1, <1>2, LoopGoes DEF Calls
  <2>3. /\ ToldFailed(n)' /\ ~Untold(n)' /\ ~ToldSent(n)'
        /\ \A m \in Messages : m # n => /\ Untold(m)' <=> Untold(m)
                                        /\ ToldSent(m)' <=> ToldSent(m)
                                        /\ ToldFailed(m)' <=> ToldFailed(m)
    BY <2>1, <1>2, Literals DEF IInv, TypeOK, Untold, ToldSent, ToldFailed
  <2>4. FramesShape'
    BY <2>2, <2>3, <1>0, <1>1, <1>3 DEF FramesShape
  <2>5. ToldShape'
    <3>1. \A m \in Messages : ToSet(queue') = ToSet(queue) /\ sent' = sent
      BY <1>1, <1>3
    <3> QED
      BY <2>2, <2>3, <3>1, <1>2, <1>5, <1>6 DEF ToldShape
  <2> QED
    BY <1>4, <2>4, <2>5
<1> QED
  BY <1>7, <1>8

\* The rest of a turn.
LEMMA CarefulReturn ==
  ASSUME IInv, CarefulInv, FailedReturns \/ ChunkSent \/ CallbackReturns
  PROVE  CarefulInv'
<1> USE DEF CarefulInv
<1>0. PICK c \in Messages : c = Current
  BY FramesFacts DEF FailedReturns, ChunkSent, CallbackReturns, Running, IInv
<1>1. /\ frames # <<>> /\ queue \in Seq(Messages)
      /\ UNCHANGED <<senders, sentBytes, aborted, sent, written>>
  BY DEF FailedReturns, ChunkSent, CallbackReturns, Running, IInv, TypeOK, senderVars
<1>2. \A m \in Messages : EndWritten(m)' <=> EndWritten(m)
  BY <1>1 DEF EndWritten
<1>3. \A at \in {"loop", "done"} : GoTo(at, c) =>
        FramesShape' /\ ~Running("failed")'
  BY <1>1, LoopGoes DEF FramesShape, Calls
\* the head of the queue is the current sender, and leaves
<1>4. ASSUME Running("sent") \/ Running("failed"), queue' = Shift(queue)
      PROVE  /\ NoRepetition(queue') /\ ToSet(queue') = ToSet(queue) \ {c}
             /\ c \in ToSet(queue)
  <2>1. queue # <<>> /\ Head(queue) = c
    BY <1>0, <1>4 DEF FramesShape
  <2>2. queue' = Tail(queue)
    BY <1>4, <2>1 DEF Shift
  <2> QED
    BY <2>1, <2>2, <1>1, TailOfQueue DEF QueueShape
<1>5. CASE FailedReturns
  <2>1. Running("failed") /\ queue' = Shift(queue) /\ UNCHANGED told
        /\ GoTo("loop", c)
    BY <1>0, <1>5 DEF FailedReturns
  <2>2. ToldFailed(c) /\ ~Untold(c)
    BY <2>1, <1>0, Literals DEF FramesShape, ToldFailed, Untold
  <2>3. QueueShape'
    BY <2>1, <1>1, <1>4 DEF QueueShape
  <2>4. \A m \in Messages : /\ Untold(m)' <=> Untold(m)
                            /\ ToldSent(m)' <=> ToldSent(m)
                            /\ ToldFailed(m)' <=> ToldFailed(m)
    BY <2>1 DEF Untold, ToldSent, ToldFailed
  <2>5. ToldShape'
    BY <2>1, <2>2, <2>4, <1>1, <1>2, <1>3, <1>4 DEF ToldShape
  <2> QED
    BY <2>1, <2>3, <2>5, <1>3
<1>6. CASE ChunkSent /\ IsSendComplete(c)
  <2>1. /\ Running("sent") /\ queue' = Shift(queue) /\ GoTo("done", c)
        /\ told' = [told EXCEPT ![c] = Append(@, "sent")]
    BY <1>0, <1>6 DEF ChunkSent
  <2>2. ~Running("failed")
    BY <2>1, OnePoint
  <2>3. c \in ToSet(queue)
    BY <2>1, <1>4
  <2>4. Untold(c) /\ c \notin aborted
    BY <2>2, <2>3, <1>1 DEF ToldShape, QueueShape
  <2>5. EndWritten(c)
    <3>1. sentBytes[c] >= Size[c]
      BY <1>6, <2>4 DEF IsSendComplete
    <3>2. sentBytes[c] < Size[c] \/ EndWritten(c)
      BY <2>1, <1>0 DEF FramesShape
    <3>3. sentBytes[c] \in Nat /\ Size[c] \in Nat
      BY <1>1, ConstantFacts DEF IInv, TypeOK
    <3> QED
      BY <3>1, <3>2, <3>3
  <2>6. /\ ToldSent(c)' /\ ~Untold(c)' /\ ~ToldFailed(c)'
        /\ \A m \in Messages : m # c => /\ Untold(m)' <=> Untold(m)
                                        /\ ToldSent(m)' <=> ToldSent(m)
                                        /\ ToldFailed(m)' <=> ToldFailed(m)
    BY <2>1, <2>4, <1>1, Literals DEF IInv, TypeOK, Untold, ToldSent, ToldFailed
  <2>7. QueueShape'
    BY <2>1, <1>1, <1>4 DEF QueueShape
  <2>8. ToldShape'
    <3>1. ToSet(queue') = ToSet(queue) \ {c} /\ c \in sent /\ ~Running("failed")'
      BY <2>1, <2>3, <1>3, <1>4 DEF QueueShape
    <3> QED
      BY <3>1, <2>2, <2>5, <2>6, <1>1, <1>2 DEF ToldShape
  <2> QED
    BY <2>1, <2>7, <2>8, <1>3
<1>7. CASE ChunkSent /\ ~IsSendComplete(c)
  <2>1. /\ Running("sent") /\ GoTo("loop", c) /\ UNCHANGED told
        /\ queue' = IF Len(queue) > 1 THEN Append(Tail(queue), Head(queue)) ELSE queue
    BY <1>0, <1>7 DEF ChunkSent
  <2>2. ~Running("failed") /\ queue # <<>>
    BY <2>1, OnePoint DEF FramesShape
  <2>3. NoRepetition(queue') /\ ToSet(queue') = ToSet(queue)
    BY <2>1, <2>2, <1>1, RotatedQueue DEF QueueShape
  <2>4. QueueShape' /\ ToldShape'
    BY <2>1, <2>2, <2>3, <1>1, <1>2, <1>3
       DEF QueueShape, ToldShape, Untold, ToldSent, ToldFailed
  <2> QED
    BY <2>1, <2>4, <1>3
<1>8. CASE CallbackReturns
  <2>1. Running("done") /\ GoTo("loop", c) /\ UNCHANGED <<queue, told>>
    BY <1>0, <1>8 DEF CallbackReturns
  <2>2. ~Running("failed")
    BY <2>1, OnePoint
  <2>3. QueueShape' /\ ToldShape'
    BY <2>1, <2>2, <1>1, <1>2, <1>3
       DEF QueueShape, ToldShape, NoRepetition, Untold, ToldSent, ToldFailed
  <2> QED
    BY <2>1, <2>3, <1>3
<1> QED
  BY <1>5, <1>6, <1>7, <1>8

LEMMA CarefulStep ==
  ASSUME Careful, IInv, CarefulInv, [Next]_vars
  PROVE  CarefulInv'
<1> USE DEF CarefulInv
<1>1. CASE UNCHANGED vars
  BY <1>1, OutsideTheLoop DEF vars, senderVars, QueueShape
<1>2. CASE \E k \in Sockets : Destroy(k)
  BY <1>2, OutsideTheLoop DEF Destroy, senderVars, QueueShape
<1>3. ASSUME NEW m \in Messages, Refusal(m)
      PROVE  CarefulInv'
  <2>1. m \notin ToSet(queue) /\ m \in senders /\ aborted' = aborted \cup {m}
    BY <1>3 DEF Refusal, MayReport, Careful
  <2>2. senders' \subseteq senders
        /\ UNCHANGED <<queue, frames, sent, told, sentBytes>>
    BY <1>3 DEF Refusal, Notify
  <2> QED
    BY <2>1, <2>2, OutsideTheLoop DEF QueueShape
<1>4. ASSUME NEW m \in Messages, NEW r \in ChunkRanges(m), Report(m, r)
      PROVE  CarefulInv'
  <2>1. ~Running("sent") /\ senders' \subseteq senders
        /\ UNCHANGED <<queue, frames, sent, told, aborted>>
    BY <1>4 DEF Report, Notify, MayReport, Idle, Running
  <2> QED
    BY <2>1, OutsideTheLoop DEF QueueShape
<1> QED
  BY <1>1, <1>2, <1>3, <1>4, CarefulSend, CarefulLeave, CarefulTurn, CarefulReturn
     DEF Next, LoopStep

LEMMA InitCareful ==
  ASSUME Init
  PROVE  CarefulInv
<1>1. ToSet(queue) = {} /\ NoRepetition(queue)
  BY DEF Init, ToSet, NoRepetition
<1>2. QueueShape
  BY <1>1 DEF Init, QueueShape
<1>3. \A at : ~Running(at)
  BY DEF Init, Running
<1>4. FramesShape
  BY <1>3 DEF Init, FramesShape
<1>5. sent = {} /\ \A m \in Messages : Untold(m)
  BY DEF Init, Untold
<1>6. \A m \in Messages : ~ToldSent(m)
  BY <1>5, Literals DEF Untold, ToldSent
<1>7. ToldShape
  BY <1>1, <1>5, <1>6 DEF ToldShape
<1> QED
  BY <1>2, <1>4, <1>7 DEF CarefulInv

LEMMA CarefulInvariance ==
  ASSUME Careful
  PROVE  Spec => []CarefulInv
BY InitCareful, CarefulStep, Invariance, PTL DEF Spec

\* Whatever the order of messages, sockets and reports: a message given to
\* sendMessage is in the queue until its callback is told, although the loop
\* shifts whatever is first.
THEOREM NothingDropped ==
  ASSUME Careful
  PROVE  Spec => []NeverDropped
<1>1. IInv /\ CarefulInv => NeverDropped
  BY DEF IInv, TypeOK, CarefulInv, ToldShape, Untold, NeverDropped
<1> QED
  BY <1>1, Invariance, CarefulInvariance, PTL

\* No callback is called twice, also when it sends the next message or a
\* listener throws in the middle of a turn.
THEOREM ToldOnce ==
  ASSUME Careful
  PROVE  Spec => []CalledBackOnce
<1>1. CarefulInv => CalledBackOnce
  <2>1. ASSUME CarefulInv, NEW m \in Messages
        PROVE  Len(told[m]) = 0 \/ Len(told[m]) = 1
    BY <2>1, Literals DEF CarefulInv, ToldShape, Untold, ToldSent, ToldFailed
  <2>2. \A n : n = 0 \/ n = 1 => n <= 1
    OBVIOUS
  <2> QED
    BY <2>1, <2>2 DEF CalledBackOnce
<1> QED
  BY <1>1, CarefulInvariance, PTL

\* A callback told of success has had the last chunk of its message written.
THEOREM ToldTruly ==
  ASSUME Careful
  PROVE  Spec => []SentIsWritten
<1>1. CarefulInv => SentIsWritten
  <2>1. ToSet(<<>>) = {} /\ ToSet(<<"failed">>) = {"failed"}
    BY DEF ToSet
  <2> QED
    BY <2>1 DEF CarefulInv, ToldShape, Untold, ToldSent, ToldFailed, SentIsWritten, EndWritten
<1> QED
  BY <1>1, CarefulInvariance, PTL
=============================================================================
