--------------------------- MODULE Framing_proofs ---------------------------
(***************************************************************************)
(* The read loop implements Stream, for every stream and every way to cut  *)
(* it; and what this library encodes is handled as it was meant, since     *)
(* parseMessage reads of encode's text what was put in.                    *)
(***************************************************************************)
EXTENDS Reading, SequenceLemmas

THEOREM TypeCorrect == Spec => []TypeOK
<1>1. Init => TypeOK
  <2> SUFFICES ASSUME Init PROVE TypeOK
    OBVIOUS
  <2>1. reading \in BOOLEAN
    BY Zenon DEF Init
  <2> QED
    BY <2>1, SMT DEF Init, TypeOK
<1>2. TypeOK /\ [Next]_vars => TypeOK'
  <2> SUFFICES ASSUME TypeOK, [Next]_vars PROVE TypeOK'
    OBVIOUS
  <2> USE StreamAssumption DEF TypeOK
  <2>1. CASE Trim
    <3>1. reading' \in BOOLEAN
      BY <2>1, Zenon DEF Trim
    <3> QED
      BY <2>1, <3>1, SMT DEF Trim
  <2>2. ASSUME NEW m \in Messages, Discard(m) PROVE TypeOK'
    <3>1. End[m] \in 0..arrived
      BY <2>2, SMT DEF Discard, Matched, Matches
    <3> QED
      BY <2>2, <3>1, SMT DEF Discard
  <2>3. ASSUME NEW m \in Messages, Handle(m) PROVE TypeOK'
    <3>1. End[m] \in 0..arrived
      BY <2>3, SMT DEF Handle, Matched, Matches
    <3> QED
      BY <2>3, <3>1, SMT DEF Handle
  <2>4. ASSUME NEW n \in 1..Length, Data(n) PROVE TypeOK'
    BY <2>4, SMT DEF Data
  <2>5. CASE UNCHANGED vars
    BY <2>5, SMT DEF vars
  <2> QED
    BY <2>1, <2>2, <2>3, <2>4, <2>5 DEF Next, HandlerStep
<1> QED
  BY <1>1, <1>2, PTL DEF Spec

-----------------------------------------------------------------------------
(***************************************************************************)
(* Where the loop stands.  Front is the position up to which the stream    *)
(* has been handled: lastIndex while the handler runs, kept otherwise.     *)
(* Messages that can be parsed lie on one side of it and were handled once *)
(* if they lie before it.  Nothing that can be parsed lies between it and  *)
(* where the expression goes on.                                           *)
(***************************************************************************)
Handled(front) ==
  \A m \in Parsable :
    /\ End[m] <= front \/ front <= Start[m]
    /\ handled[m] = IF End[m] <= front THEN 1 ELSE 0

ReadInv ==
  /\ Handled(lastIndex)
  /\ lastIndex <= regIndex
  /\ \A m \in Parsable : Start[m] < regIndex => End[m] <= lastIndex
  /\ ~reading => kept = lastIndex /\ NothingHeldBack

\* While the handler runs or not, ReadInv describes what has been handled.
LEMMA ReadInvariant == Spec => []ReadInv
<1>1. Init => ReadInv
  BY StreamAssumption, SMT DEF Init, ReadInv, Handled, NothingHeldBack
<1>2. TypeOK /\ ReadInv /\ [Next]_vars => ReadInv'
  <2> SUFFICES ASSUME TypeOK, ReadInv, [Next]_vars PROVE ReadInv'
    OBVIOUS
  <2> USE StreamAssumption DEF TypeOK, ReadInv, Handled
  <2>1. CASE Trim
    <3>1. \A m \in Parsable : End[m] <= arrived => handled[m] = 1
      BY <2>1, SMT DEF Trim, Matches
    <3>2. NothingHeldBack' /\ kept' = lastIndex'
      BY <2>1, <3>1, SMT DEF Trim, NothingHeldBack
    <3> QED
      BY <2>1, <3>2, SMT DEF Trim
  <2>2. ASSUME NEW m \in Messages, Discard(m) PROVE ReadInv'
    <3>1. \A n \in Parsable : Start[n] < End[m] => End[n] <= lastIndex
      BY <2>2, SMT DEF Discard, Matched, Matches
    <3> QED
      BY <2>2, <3>1, SMT DEF Discard, Matched, Matches
  <2>3. ASSUME NEW m \in Messages, Handle(m) PROVE ReadInv'
    <3>1. \A n \in Parsable : n < m => End[n] <= lastIndex
      BY <2>3, SMT DEF Handle, Matched, Matches
    <3>2. lastIndex <= Start[m] /\ handled[m] = 0
      BY <2>3, SMT DEF Handle, Matched, Matches
    <3>3. \A n \in Parsable \ {m} : /\ handled'[n] = handled[n]
                                    /\ n < m \/ End[m] <= Start[n]
      BY <2>3, SMT DEF Handle
    <3> QED
      BY <2>3, <3>1, <3>2, <3>3, SMT DEF Handle
  <2>4. ASSUME NEW n \in 1..Length, Data(n) PROVE ReadInv'
    BY <2>4, SMT DEF Data
  <2>5. CASE UNCHANGED vars
    BY <2>5, SMT DEF vars, NothingHeldBack
  <2> QED
    BY <2>1, <2>2, <2>3, <2>4, <2>5 DEF Next, HandlerStep
<1> QED
  BY <1>1, <1>2, TypeCorrect, PTL DEF Spec

\* Between two reads every message that has arrived and can be parsed has been
\* handled.
THEOREM NothingWaits == Spec => []NothingHeldBack
<1>1. ReadInv => NothingHeldBack
  BY DEF ReadInv, NothingHeldBack
<1> QED
  BY <1>1, ReadInvariant, PTL

\* The read loop implements Stream.
THEOREM Refines == Spec => ImplementsStream
<1>1. Init => Promise!Init
  BY DEF Init, Promise!Init
<1>2. TypeOK /\ ReadInv /\ [Next]_vars => [Promise!Next]_<<arrived, handled>>
  <2> SUFFICES ASSUME TypeOK, ReadInv, [Next]_vars
               PROVE Promise!Next \/ UNCHANGED <<arrived, handled>>
    OBVIOUS
  <2> USE StreamAssumption DEF TypeOK, ReadInv, Handled
  <2>1. CASE Trim
    BY <2>1 DEF Trim
  <2>2. ASSUME NEW m \in Messages, Discard(m) PROVE UNCHANGED <<arrived, handled>>
    BY <2>2 DEF Discard
  <2>3. ASSUME NEW m \in Messages, Handle(m) PROVE Promise!Handle(m)
    <3>1. handled[m] = 0 /\ End[m] <= arrived
      BY <2>3, SMT DEF Handle, Matched, Matches
    <3>2. \A n \in Parsable : n < m => handled[n] = 1
      BY <2>3, SMT DEF Handle, Matched, Matches
    <3>3. handled' = [handled EXCEPT ![m] = 1]
      BY <2>3, <3>1, SMT DEF Handle
    <3> QED
      BY <2>3, <3>1, <3>2, <3>3 DEF Handle, Promise!Handle
  <2>4. ASSUME NEW n \in 1..Length, Data(n) PROVE Promise!Arrive
    BY <2>4, SMT DEF Data, Promise!Arrive
  <2>5. CASE UNCHANGED vars
    BY <2>5 DEF vars
  <2> QED
    BY <2>1, <2>2, <2>3, <2>4, <2>5 DEF Next, HandlerStep, Promise!Next
<1> QED
  BY <1>1, <1>2, TypeCorrect, ReadInvariant, PTL DEF Spec, ImplementsStream, Promise!Spec

-----------------------------------------------------------------------------
(* The headers of a text.                                                  *)

\* Lines that are headers, each of its own name, and with a value where the
\* parser needs one.
HeaderLine(l) ==
  l.type = "header" /\ l.name # "" /\ (l.name \in KnownHeaders => l.value # <<>>)
HeadersOf(b, names) ==
  /\ \A i \in DOMAIN b : HeaderLine(b[i]) /\ b[i].name \in names
  /\ \A i, j \in DOMAIN b : b[i].name = b[j].name => i = j
Said(b, n, v) == \E i \in DOMAIN b : b[i].name = n /\ b[i].value = v

\* The same of the lines from the second to the k-th of a text.
Titled(w, k, names) ==
  /\ \A i \in 2..k : HeaderLine(w[i]) /\ w[i].name \in names
  /\ \A i, j \in 2..k : w[i].name = w[j].name => i = j
Says(w, k, n, v) == \E i \in 2..k : w[i].name = n /\ w[i].value = v

\* The lines of b stand behind the k-th.
Follows(w, k, b) == \A i \in DOMAIN b : w[k + i] = b[i]

LEMMA MoreHeaders ==
  ASSUME NEW w, NEW k \in Nat \ {0}, NEW names, Titled(w, k, names),
         NEW b, NEW m \in Nat, DOMAIN b = 1..m, NEW others, HeadersOf(b, others),
         names \cap others = {}, Follows(w, k, b)
  PROVE  /\ Titled(w, k + m, names \cup others)
         /\ \A n, v : Says(w, k + m, n, v) <=> Says(w, k, n, v) \/ Said(b, n, v)
<1>1. ASSUME NEW i \in 2..k + m
      PROVE  i \in 2..k \/ \E j \in 1..m : i = k + j /\ w[i] = b[j]
  <2>1. CASE i <= k
    BY <2>1
  <2>2. CASE ~(i <= k)
    <3>1. i - k \in 1..m /\ i = k + (i - k)
      BY <2>2
    <3> QED
      BY <3>1 DEF Follows
  <2> QED
    BY <2>1, <2>2
<1>2. \A i \in 2..k : i \in 2..k + m
  OBVIOUS
<1>3. \A j \in 1..m : k + j \in 2..k + m
  OBVIOUS
<1>4. /\ \A i \in 2..k : HeaderLine(w[i]) /\ w[i].name \in names
      /\ \A i, j \in 2..k : w[i].name = w[j].name => i = j
      /\ \A i \in 1..m : HeaderLine(b[i]) /\ b[i].name \in others
      /\ \A i, j \in 1..m : b[i].name = b[j].name => i = j
  BY DEF Titled, HeadersOf
<1>5. ASSUME NEW i \in 2..k + m PROVE HeaderLine(w[i]) /\ w[i].name \in names \cup others
  BY <1>1, <1>4
<1>6. ASSUME NEW i \in 2..k + m, NEW j \in 2..k + m, w[i].name = w[j].name PROVE i = j
  <2>1. CASE i \in 2..k /\ j \in 2..k
    BY <1>4, <1>6, <2>1
  <2>2. CASE i \in 2..k /\ j \notin 2..k
    <3>1. w[i].name \in names /\ w[j].name \in others
      BY <1>1, <1>4, <2>2
    <3> QED
      BY <1>6, <3>1
  <2>3. CASE i \notin 2..k /\ j \in 2..k
    <3>1. w[j].name \in names /\ w[i].name \in others
      BY <1>1, <1>4, <2>3
    <3> QED
      BY <1>6, <3>1
  <2>4. CASE i \notin 2..k /\ j \notin 2..k
    <3>1. PICK x \in 1..m : i = k + x /\ w[i] = b[x]
      BY <1>1, <2>4
    <3>2. PICK y \in 1..m : j = k + y /\ w[j] = b[y]
      BY <1>1, <2>4
    <3>3. x = y
      BY <1>4, <1>6, <3>1, <3>2
    <3> QED
      BY <3>1, <3>2, <3>3
  <2> QED
    BY <2>1, <2>2, <2>3, <2>4
<1>7. ASSUME NEW n, NEW v PROVE Says(w, k + m, n, v) <=> Says(w, k, n, v) \/ Said(b, n, v)
  <2>1. ASSUME Says(w, k + m, n, v) PROVE Says(w, k, n, v) \/ Said(b, n, v)
    <3>1. PICK i \in 2..k + m : w[i].name = n /\ w[i].value = v
      BY <2>1 DEF Says
    <3> QED
      BY <1>1, <3>1 DEF Says, Said
  <2>2. ASSUME Says(w, k, n, v) PROVE Says(w, k + m, n, v)
    BY <1>2, <2>2 DEF Says
  <2>3. ASSUME Said(b, n, v) PROVE Says(w, k + m, n, v)
    <3>1. PICK j \in 1..m : b[j].name = n /\ b[j].value = v
      BY <2>3 DEF Said
    <3>2. k + j \in 2..k + m /\ w[k + j] = b[j]
      BY <1>3 DEF Follows
    <3> QED
      BY <3>1, <3>2 DEF Says
  <2> QED
    BY <2>1, <2>2, <2>3
<1> QED
  BY <1>5, <1>6, <1>7 DEF Titled

\* Where the headers end.
LEMMA HeadersEndAt ==
  ASSUME NEW w, NEW n \in Nat, Len(w) = n, NEW k \in Nat \ {0}, k < n,
         w[1].type = "first", NEW names, Titled(w, k, names),
         w[k + 1].type = "blank" \/ IsEndOf(w[k + 1], w[1].name)
  PROVE  HeadersEnd(w) = k + 1
<1> DEFINE Ends(l) == l.type = "blank" \/ IsEndOf(l, w[1].name)
           I == {i \in 1..Len(w) : Ends(w[i])}
<1>1. HeadersEnd(w) = IF I # {} THEN Min(I) ELSE 0
  BY DEF HeadersEnd, SelectInSeq
<1>2. I \in SUBSET Nat /\ k + 1 \in I
  OBVIOUS
<1>3. ASSUME NEW i \in I PROVE k + 1 <= i
  <2> SUFFICES ASSUME i <= k PROVE FALSE
    BY <1>2
  <2>1. i \in 1..k /\ Ends(w[i])
    OBVIOUS
  <2>2. CASE i = 1
    BY <2>1, <2>2 DEF IsEndOf
  <2>3. CASE i \in 2..k
    <3>1. w[i].type = "header"
      BY <2>3 DEF Titled, HeaderLine
    <3> QED
      BY <2>1, <3>1 DEF IsEndOf
  <2> QED
    BY <2>1, <2>2, <2>3
<1> HIDE DEF I
<1>4. PICK m \in I : m = Min(I) /\ \A y \in I : m <= y
  BY <1>2, MinOfNaturals
<1>5. m \in Nat /\ m <= k + 1 /\ k + 1 <= m
  BY <1>2, <1>3, <1>4
<1> QED
  BY <1>1, <1>2, <1>4, <1>5

\* What getHeader finds.
LEMMA HeaderFound ==
  ASSUME NEW w, NEW k \in Nat \ {0}, HeadersEnd(w) = k + 1, NEW names, Titled(w, k, names),
         NEW n
  PROVE  /\ \A i, j \in Named(w, n) : i = j /\ (n \in KnownHeaders => w[i].value # <<>>)
         /\ \A v : Says(w, k, n, v) => FirstValue(w, n) = v /\ LastValue(w, n) = v
         /\ (\A v : ~Says(w, k, n, v)) => FirstValue(w, n) = None
<1>1. Named(w, n) = {i \in 2..k : w[i].name = n}
  <2>1. HeadersEnd(w) - 1 = k
    OBVIOUS
  <2>2. \A i \in 2..k : w[i].type = "header"
    BY DEF Titled, HeaderLine
  <2> QED
    BY <2>1, <2>2 DEF Named
<1>2. \A i, j \in Named(w, n) : i = j /\ (n \in KnownHeaders => w[i].value # <<>>)
  BY <1>1 DEF Titled, HeaderLine
<1>3. ASSUME NEW v, Says(w, k, n, v)
      PROVE  FirstValue(w, n) = v /\ LastValue(w, n) = v
  <2>1. PICK i \in 2..k : w[i].name = n /\ w[i].value = v
    BY <1>3 DEF Says
  <2>2. Named(w, n) = {i}
    BY <1>1, <1>2, <2>1
  <2>3. Min({i}) = i
    <3>1. Min({i}) \in {i}
      BY MinOfNaturals
    <3> QED
      BY <3>1
  <2>4. Max({i}) = i
    <3>1. \E x \in {i} : \A y \in {i} : x >= y
      OBVIOUS
    <3>2. Max({i}) \in {i}
      BY <3>1 DEF Max
    <3> QED
      BY <3>2
  <2> QED
    BY <2>1, <2>2, <2>3, <2>4 DEF FirstValue, LastValue
<1>4. ASSUME \A v : ~Says(w, k, n, v) PROVE FirstValue(w, n) = None
  <2>1. Named(w, n) = {}
    BY <1>1, <1>4 DEF Says
  <2> QED
    BY <2>1 DEF FirstValue
<1> QED
  BY <1>2, <1>3, <1>4

-----------------------------------------------------------------------------
(* The lines that are encoded.                                             *)

LEMMA TwoParts ==
  ASSUME NEW S, NEW a \in Seq(S), NEW b \in Seq(S), NEW m, m = Len(a), NEW n, n = Len(b),
         NEW c, c = a \o b
  PROVE  /\ m \in Nat /\ n \in Nat /\ c \in Seq(S) /\ Len(c) = m + n
         /\ \A i \in 1..m : c[i] = a[i]
         /\ \A i \in 1..n : c[m + i] = b[i]
<1>1. m \in Nat /\ n \in Nat /\ c \in Seq(S) /\ Len(c) = m + n
  BY ConcatProperties
<1>2. \A i \in 1..m + n : c[i] = IF i <= m THEN a[i] ELSE b[i - m]
  BY ConcatProperties
<1>3. \A i \in 1..m : i \in 1..m + n /\ i <= m
  BY <1>1
<1>4. ASSUME NEW i \in 1..n PROVE c[m + i] = b[i]
  <2>1. m + i \in 1..m + n /\ ~(m + i <= m) /\ m + i - m = i
    BY <1>1
  <2> QED
    BY <1>2, <2>1
<1> QED
  BY <1>1, <1>2, <1>3, <1>4

\* The five parts of what encode returns, and where they stand.
Joins(w, S, a, b, c, d, z) ==
  /\ a \in Seq(S) /\ b \in Seq(S) /\ c \in Seq(S) /\ d \in Seq(S) /\ z \in S
  /\ w = a \o b \o c \o d \o <<z>>

Placed(w, S, a, b, c, d, z, k, l, m, n) ==
  /\ k \in Nat /\ l \in Nat /\ m \in Nat /\ n \in Nat
  /\ w \in Seq(S) /\ Len(w) = k + l + m + n + 1
  /\ Follows(w, 0, a) /\ Follows(w, k, b) /\ Follows(w, k + l, c)
  /\ Follows(w, k + l + m, d)
  /\ w[k + l + m + n + 1] = z

LEMMA FiveParts ==
  ASSUME NEW w, NEW S, NEW a, NEW b, NEW c, NEW d, NEW z, Joins(w, S, a, b, c, d, z),
         NEW k, k = Len(a), NEW l, l = Len(b), NEW m, m = Len(c), NEW n, n = Len(d)
  PROVE  Placed(w, S, a, b, c, d, z, k, l, m, n)
<1> DEFINE x == a \o b
           y == x \o c
           u == y \o d
<1>0. /\ a \in Seq(S) /\ b \in Seq(S) /\ c \in Seq(S) /\ d \in Seq(S) /\ z \in S
      /\ w = u \o <<z>>
  BY DEF Joins
<1>1. /\ k \in Nat /\ l \in Nat /\ x \in Seq(S) /\ Len(x) = k + l
      /\ \A i \in 1..k : x[i] = a[i]
      /\ \A i \in 1..l : x[k + i] = b[i]
  BY <1>0, TwoParts
<1> HIDE DEF x
<1>2. /\ m \in Nat /\ y \in Seq(S) /\ Len(y) = k + l + m
      /\ \A i \in 1..k + l : y[i] = x[i]
      /\ \A i \in 1..m : y[k + l + i] = c[i]
  <2> DEFINE p == k + l
  <2>1. x \in Seq(S) /\ p = Len(x) /\ y = x \o c
    BY <1>1
  <2> HIDE DEF p, y
  <2>2. /\ m \in Nat /\ y \in Seq(S) /\ Len(y) = p + m
        /\ \A i \in 1..p : y[i] = x[i]
        /\ \A i \in 1..m : y[p + i] = c[i]
    BY <1>0, <2>1, TwoParts
  <2> QED
    BY <2>2 DEF p
<1> HIDE DEF y
<1>3. /\ n \in Nat /\ u \in Seq(S) /\ Len(u) = k + l + m + n
      /\ \A i \in 1..k + l + m : u[i] = y[i]
      /\ \A i \in 1..n : u[k + l + m + i] = d[i]
  <2> DEFINE p == k + l + m
  <2>1. y \in Seq(S) /\ p = Len(y) /\ u = y \o d
    BY <1>2
  <2> HIDE DEF p, u
  <2>2. /\ n \in Nat /\ u \in Seq(S) /\ Len(u) = p + n
        /\ \A i \in 1..p : u[i] = y[i]
        /\ \A i \in 1..n : u[p + i] = d[i]
    BY <1>0, <2>1, TwoParts
  <2> QED
    BY <2>2 DEF p
<1> HIDE DEF u
<1>4. /\ w \in Seq(S) /\ Len(w) = k + l + m + n + 1
      /\ \A i \in 1..k + l + m + n : w[i] = u[i]
      /\ \A i \in 1..1 : w[k + l + m + n + i] = <<z>>[i]
  <2> DEFINE p == k + l + m + n
             t == <<z>>
             v == u \o t
             one == 1
  <2>1. u \in Seq(S) /\ p = Len(u) /\ t \in Seq(S) /\ one = Len(t) /\ v = u \o t
    BY <1>0, <1>3
  <2>2. w = v
    BY <1>0
  <2> HIDE DEF p, t, v, one
  <2>3. /\ v \in Seq(S) /\ Len(v) = p + one
        /\ \A i \in 1..p : v[i] = u[i]
        /\ \A i \in 1..one : v[p + i] = t[i]
    BY <1>0, <2>1, TwoParts
  <2> QED
    BY <2>2, <2>3 DEF p, t, one
<1>5. \A i \in 1..k : w[i] = a[i]
  <2> SUFFICES ASSUME NEW i \in 1..k PROVE w[i] = a[i]
    OBVIOUS
  <2>1. i \in 1..k + l /\ i \in 1..k + l + m /\ i \in 1..k + l + m + n
    BY <1>1, <1>2, <1>3
  <2>2. w[i] = u[i]
    BY <1>4, <2>1
  <2>3. u[i] = y[i]
    BY <1>3, <2>1
  <2>4. y[i] = x[i] /\ x[i] = a[i]
    BY <1>1, <1>2, <2>1
  <2> QED
    BY <2>2, <2>3, <2>4
<1>6. \A i \in 1..l : w[k + i] = b[i]
  <2> SUFFICES ASSUME NEW i \in 1..l PROVE w[k + i] = b[i]
    OBVIOUS
  <2>1. k + i \in 1..k + l /\ k + i \in 1..k + l + m /\ k + i \in 1..k + l + m + n
    BY <1>1, <1>2, <1>3
  <2>2. w[k + i] = u[k + i]
    BY <1>4, <2>1
  <2>3. u[k + i] = y[k + i]
    BY <1>3, <2>1
  <2>4. y[k + i] = x[k + i] /\ x[k + i] = b[i]
    BY <1>1, <1>2, <2>1
  <2> QED
    BY <2>2, <2>3, <2>4
<1>7. \A i \in 1..m : w[k + l + i] = c[i]
  <2> SUFFICES ASSUME NEW i \in 1..m PROVE w[k + l + i] = c[i]
    OBVIOUS
  <2>1. k + l + i \in 1..k + l + m /\ k + l + i \in 1..k + l + m + n
    BY <1>1, <1>2, <1>3
  <2> QED
    BY <1>2, <1>3, <1>4, <2>1
<1>8. \A i \in 1..n : w[k + l + m + i] = d[i]
  <2> SUFFICES ASSUME NEW i \in 1..n PROVE w[k + l + m + i] = d[i]
    OBVIOUS
  <2>1. k + l + m + i \in 1..k + l + m + n
    BY <1>1, <1>2, <1>3
  <2> QED
    BY <1>3, <1>4, <2>1
<1>9. w[k + l + m + n + 1] = z
  <2>1. <<z>>[1] = z /\ 1 \in 1..1
    OBVIOUS
  <2> QED
    BY <1>4, <2>1
<1>10. /\ DOMAIN a = 1..k /\ DOMAIN b = 1..l /\ DOMAIN c = 1..m /\ DOMAIN d = 1..n
       /\ \A i \in 1..k : 0 + i = i
  BY <1>0, <1>1, <1>2, <1>3
<1>11. /\ Follows(w, 0, a) /\ Follows(w, k, b) /\ Follows(w, k + l, c)
       /\ Follows(w, k + l + m, d)
  BY <1>5, <1>6, <1>7, <1>8, <1>10 DEF Follows
<1> QED
  BY <1>1, <1>2, <1>3, <1>4, <1>9, <1>11 DEF Placed

\* The headers that a message has besides those that encode adds.
OwnNames == {"Message-ID", "Success-Report", "Failure-Report", "Content-Disposition", "Status"}

LEMMA OwnHeaders ==
  ASSUME NEW r, Outgoing(r), NEW hs, hs = r.headers
  PROVE  /\ hs \in Seq({hs[i] : i \in DOMAIN hs}) /\ Len(hs) \in Nat /\ DOMAIN hs = 1..Len(hs)
         /\ HeadersOf(hs, OwnNames)
         /\ r.what \in Statuses => hs = <<>>
<1> DEFINE Fits(l, name) == l.type = "header" /\ l.name = name /\ l.value # <<>>
<1>1. \A v : /\ Fits(Header("Message-ID", <<v>>), "Message-ID")
             /\ Fits(Header("Success-Report", <<v>>), "Success-Report")
             /\ Fits(Header("Failure-Report", <<v>>), "Failure-Report")
             /\ Fits(Header("Content-Disposition", <<v>>), "Content-Disposition")
             /\ Fits(Header("Status", <<v>>), "Status")
  <2>1. \A v : <<v>> # <<>>
    OBVIOUS
  <2> QED
    BY <2>1 DEF Header, Line
<1>2. \A l, name : Fits(l, name) /\ name # "" => HeaderLine(l) /\ l.name = name
  BY DEF HeaderLine
<1> HIDE DEF Fits
<1>3. CASE \E reports \in {"yes", "no"} :
             r = SendRequest(r.tid, r.byteRange, r.body, r.flag, reports)
  <2>1. PICK reports \in {"yes", "no"} :
          r = SendRequest(r.tid, r.byteRange, r.body, r.flag, reports)
    BY <1>3
  <2> DEFINE a == Header("Message-ID", <<"m">>)
             b == Header("Success-Report", <<reports>>)
             c == Header("Failure-Report", <<reports>>)
             d == Header("Content-Disposition", <<"inline">>)
  <2> DEFINE first == r.byteRange # None /\ r.byteRange[1] = 1 /\ r.body # None
  <2>2. hs = <<a, b, c>> \o <<>> \/ hs = <<a, b, c>> \o <<d>>
    <3>1. hs = <<a, b, c>> \o (IF first THEN <<d>> ELSE <<>>)
      BY <2>1 DEF SendRequest
    <3> HIDE DEF a, b, c, d, first
    <3> QED
      BY <3>1
  <2>3. /\ Fits(a, "Message-ID") /\ Fits(b, "Success-Report") /\ Fits(c, "Failure-Report")
        /\ Fits(d, "Content-Disposition")
    BY <1>1
  <2>4. r.what \notin Statuses
    BY <2>1 DEF SendRequest, Statuses
  <2> HIDE DEF a, b, c, d
  <2>5. hs = <<a, b, c>> \/ hs = <<a, b, c, d>>
    BY <2>2
  <2>6. /\ HeaderLine(a) /\ a.name = "Message-ID" /\ HeaderLine(b) /\ b.name = "Success-Report"
        /\ HeaderLine(c) /\ c.name = "Failure-Report"
        /\ HeaderLine(d) /\ d.name = "Content-Disposition"
    BY <1>2, <2>3
  <2>7. CASE hs = <<a, b, c>>
    <3>1. /\ DOMAIN hs = 1..3 /\ Len(hs) = 3 /\ hs[1] = a /\ hs[2] = b /\ hs[3] = c
          /\ \A i \in 1..3 : i = 1 \/ i = 2 \/ i = 3
      BY <2>7
    <3>2. HeadersOf(hs, OwnNames)
      BY <2>6, <3>1 DEF HeadersOf, OwnNames
    <3> QED
      BY <2>4, <2>7, <3>1, <3>2
  <2>8. CASE hs = <<a, b, c, d>>
    <3>1. /\ DOMAIN hs = 1..4 /\ Len(hs) = 4 /\ hs[1] = a /\ hs[2] = b /\ hs[3] = c /\ hs[4] = d
          /\ \A i \in 1..4 : i = 1 \/ i = 2 \/ i = 3 \/ i = 4
      BY <2>8
    <3>2. HeadersOf(hs, OwnNames)
      BY <2>6, <3>1 DEF HeadersOf, OwnNames
    <3> QED
      BY <2>4, <2>8, <3>1, <3>2
  <2> QED
    BY <2>5, <2>7, <2>8
<1>4. CASE \E status \in Statuses : r = ReportRequest(r.tid, r.byteRange, status)
  <2>1. PICK status \in Statuses : r = ReportRequest(r.tid, r.byteRange, status)
    BY <1>4
  <2> DEFINE a == Header("Message-ID", <<"m">>)
             b == Header("Status", <<status>>)
  <2>2. hs = <<a, b>> /\ r.what \notin Statuses
    BY <2>1 DEF ReportRequest, Statuses
  <2>3. Fits(a, "Message-ID") /\ Fits(b, "Status")
    BY <1>1
  <2> HIDE DEF a, b
  <2>4. HeaderLine(a) /\ a.name = "Message-ID" /\ HeaderLine(b) /\ b.name = "Status"
    BY <1>2, <2>3
  <2>5. /\ DOMAIN hs = 1..2 /\ Len(hs) = 2 /\ hs[1] = a /\ hs[2] = b
        /\ \A i \in 1..2 : i = 1 \/ i = 2
    BY <2>2
  <2>6. HeadersOf(hs, OwnNames)
    BY <2>4, <2>5 DEF HeadersOf, OwnNames
  <2> QED
    BY <2>2, <2>5, <2>6
<1>5. CASE \E status \in Statuses :
             r = ResponseTo([tid |-> r.tid, what |-> "REPORT", fromPath |-> r.toPath],
                            r.fromPath[1], status)
  <2>1. hs = <<>>
    BY <1>5 DEF ResponseTo
  <2>2. DOMAIN hs = {} /\ DOMAIN hs = 1..Len(hs) /\ Len(hs) = 0
    BY <2>1
  <2> QED
    BY <2>1, <2>2 DEF HeadersOf
<1> QED
  BY <1>3, <1>4, <1>5 DEF Outgoing

LEMMA RangeHeader ==
  ASSUME NEW r, Outgoing(r), NEW g, g = EncodedRange(r.byteRange)
  PROVE  /\ g \in Seq({g[i] : i \in DOMAIN g}) /\ Len(g) \in Nat /\ DOMAIN g = 1..Len(g)
         /\ HeadersOf(g, {"Byte-Range"})
         /\ r.byteRange = None => \A v : ~Said(g, "Byte-Range", v)
         /\ r.byteRange # None => \E v : /\ Said(g, "Byte-Range", v) /\ v # None
                                         /\ [i \in 1..3 |-> DecodedNumber(v[i])] = r.byteRange
<1>1. CASE r.byteRange = None
  <2>1. g = <<>> /\ DOMAIN g = {} /\ DOMAIN g = 1..Len(g) /\ Len(g) = 0
    BY <1>1 DEF EncodedRange
  <2> QED
    BY <1>1, <2>1 DEF HeadersOf, Said
<1>2. CASE r.byteRange # None
  <2> DEFINE v == <<{r.byteRange[1]}, {r.byteRange[2]}, Number(r.byteRange[3])>>
             l == Header("Byte-Range", v)
  <2>1. g = <<l>>
    BY <1>2 DEF EncodedRange
  <2>2. r.byteRange \in Nat \X Nat \X (Nat \cup {-1})
    BY <1>2 DEF Outgoing, Ranges
  <2>3. /\ v # None /\ v[1] = {r.byteRange[1]} /\ v[2] = {r.byteRange[2]}
        /\ v[3] = Number(r.byteRange[3])
    BY DEF None
  <2>4. l.type = "header" /\ l.name = "Byte-Range" /\ l.value = v
    BY DEF Header, Line
  <2> HIDE DEF v, l
  <2>5. HeaderLine(l)
    BY <2>3, <2>4 DEF HeaderLine, None
  <2>6. DOMAIN g = 1..1 /\ Len(g) = 1 /\ g[1] = l /\ \A i \in 1..1 : i = 1
    BY <2>1
  <2>7. HeadersOf(g, {"Byte-Range"})
    BY <2>4, <2>5, <2>6 DEF HeadersOf
  <2>8. Said(g, "Byte-Range", v)
    BY <2>4, <2>6 DEF Said
  <2>9. [i \in 1..3 |-> DecodedNumber(v[i])] = r.byteRange
    <3>1. PICK s \in Nat, e \in Nat, t \in Nat \cup {-1} : r.byteRange = <<s, e, t>>
      BY <2>2
    <3>2. \A n \in Int : DecodedNumber({n}) = n
      BY DEF DecodedNumber
    <3>3. DecodedNumber(Number(t)) = t
      <4>1. CASE t = -1
        BY <4>1 DEF DecodedNumber, Number
      <4>2. CASE t \in Nat
        <5>1. Number(t) = {t}
          BY <4>2 DEF Number
        <5> QED
          BY <3>2, <4>2, <5>1
      <4> QED
        BY <3>1, <4>1, <4>2
    <3>4. /\ DecodedNumber(v[1]) = s /\ DecodedNumber(v[2]) = e /\ DecodedNumber(v[3]) = t
      BY <2>3, <3>1, <3>2, <3>3
    <3> DEFINE f == [i \in 1..3 |-> DecodedNumber(v[i])]
    <3>5. f[1] = s /\ f[2] = e /\ f[3] = t
      BY <3>4
    <3>6. f = [i \in 1..3 |-> f[i]] /\ \A i \in 1..3 : i = 1 \/ i = 2 \/ i = 3
      OBVIOUS
    <3> HIDE DEF f
    <3>7. f = <<s, e, t>>
      BY <3>5, <3>6
    <3> QED
      BY <3>1, <3>7 DEF f
  <2>10. g \in Seq({g[i] : i \in DOMAIN g})
    BY <2>1, <2>6
  <2>11. \E x : /\ Said(g, "Byte-Range", x) /\ x # None
                /\ [i \in 1..3 |-> DecodedNumber(x[i])] = r.byteRange
    BY <2>3, <2>8, <2>9
  <2> QED
    BY <1>2, <2>6, <2>7, <2>10, <2>11
<1> QED
  BY <1>1, <1>2

\* The headers of a text w, up to line k, are those encode gives r.
HeadersSay(w, k, r) ==
  /\ Says(w, k, "To-Path", r.toPath) /\ Says(w, k, "From-Path", r.fromPath)
  /\ \A n \in OwnNames : \A v : Says(w, k, n, v) <=> Said(r.headers, n, v)
  /\ \A v : Says(w, k, "Byte-Range", v) <=> Said(EncodedRange(r.byteRange), "Byte-Range", v)

LEMMA MessageHeaders ==
  ASSUME NEW r, Outgoing(r), NEW w, NEW hs, hs = r.headers,
         NEW g, g = EncodedRange(r.byteRange), NEW l, l = Len(hs), NEW m, m = Len(g),
         w[2] = Header("To-Path", r.toPath), w[3] = Header("From-Path", r.fromPath),
         Follows(w, 3, hs), Follows(w, 3 + l, g)
  PROVE  /\ l \in Nat /\ m \in Nat
         /\ \E names : Titled(w, 3 + l + m, names) /\ "Content-Type" \notin names
         /\ HeadersSay(w, 3 + l + m, r)
<1> DEFINE paths == {"To-Path", "From-Path"}
<1>1. l \in Nat /\ DOMAIN hs = 1..l /\ HeadersOf(hs, OwnNames)
  BY OwnHeaders
<1>2. m \in Nat /\ DOMAIN g = 1..m /\ HeadersOf(g, {"Byte-Range"})
  BY RangeHeader
<1>3. /\ w[2].type = "header" /\ w[2].name = "To-Path" /\ w[2].value = r.toPath
      /\ w[3].type = "header" /\ w[3].name = "From-Path" /\ w[3].value = r.fromPath
  BY DEF Header, Line
<1>4. /\ 3 \in Nat \ {0} /\ Titled(w, 3, paths)
      /\ Says(w, 3, "To-Path", r.toPath) /\ Says(w, 3, "From-Path", r.fromPath)
  <2>1. 2..3 = {2, 3}
    OBVIOUS
  <2>2. HeaderLine(w[2]) /\ HeaderLine(w[3])
    BY <1>3 DEF HeaderLine, KnownHeaders, RequestOnly
  <2> QED
    BY <1>3, <2>1, <2>2 DEF Titled, Says
<1>5. paths \cap OwnNames = {} /\ (paths \cup OwnNames) \cap {"Byte-Range"} = {}
      /\ "Content-Type" \notin (paths \cup OwnNames) \cup {"Byte-Range"}
  BY DEF OwnNames
<1> HIDE DEF paths
<1>6. /\ Titled(w, 3 + l, paths \cup OwnNames)
      /\ \A n, v : Says(w, 3 + l, n, v) <=> Says(w, 3, n, v) \/ Said(hs, n, v)
  <2> DEFINE three == 3
             names == OwnNames
  <2>1. three \in Nat \ {0} /\ Titled(w, three, paths) /\ paths \cap names = {}
    BY <1>4, <1>5
  <2>2. Follows(w, three, hs)
    OBVIOUS
  <2>3. HeadersOf(hs, names)
    BY <1>1
  <2> HIDE DEF three, names
  <2>4. /\ Titled(w, three + l, paths \cup names)
        /\ \A n, v : Says(w, three + l, n, v) <=> Says(w, three, n, v) \/ Said(hs, n, v)
    BY <1>1, <2>1, <2>2, <2>3, MoreHeaders
  <2> QED
    BY <2>4 DEF three, names
<1>7. /\ Titled(w, 3 + l + m, (paths \cup OwnNames) \cup {"Byte-Range"})
      /\ \A n, v : Says(w, 3 + l + m, n, v) <=> Says(w, 3 + l, n, v) \/ Said(g, n, v)
  <2> DEFINE k == 3 + l
             names == paths \cup OwnNames
             others == {"Byte-Range"}
  <2>1. k \in Nat \ {0}
    BY <1>1
  <2>2. Titled(w, k, names) /\ names \cap others = {}
    BY <1>5, <1>6
  <2>3. Follows(w, k, g)
    OBVIOUS
  <2>4. HeadersOf(g, others)
    BY <1>2
  <2> HIDE DEF k, names, others
  <2>5. /\ Titled(w, k + m, names \cup others)
        /\ \A n, v : Says(w, k + m, n, v) <=> Says(w, k, n, v) \/ Said(g, n, v)
    BY <1>2, <2>1, <2>2, <2>3, <2>4, MoreHeaders
  <2> QED
    BY <2>5 DEF k, names, others
<1>8. \A n, v : Says(w, 3, n, v) => n \in paths
  BY <1>4 DEF Titled, Says
<1>9. /\ \A n, v : Said(hs, n, v) => n \in OwnNames
      /\ \A n, v : Said(g, n, v) => n = "Byte-Range"
  BY <1>1, <1>2 DEF HeadersOf, Said
<1>10. HeadersSay(w, 3 + l + m, r)
  <2>1. \A n, v : Says(w, 3 + l + m, n, v) <=>
                    Says(w, 3, n, v) \/ Said(hs, n, v) \/ Said(g, n, v)
    BY <1>6, <1>7
  <2>2. \A n \in OwnNames : n \notin paths /\ n # "Byte-Range"
    BY <1>5
  <2>3. "Byte-Range" \notin paths /\ "Byte-Range" \notin OwnNames
    BY <1>5
  <2>4. \A n \in OwnNames : \A v : Says(w, 3 + l + m, n, v) <=> Said(hs, n, v)
    BY <1>8, <1>9, <2>1, <2>2, Zenon
  <2>5. \A v : Says(w, 3 + l + m, "Byte-Range", v) <=> Said(g, "Byte-Range", v)
    BY <1>8, <1>9, <2>1, <2>3, Zenon
  <2>6. Says(w, 3 + l + m, "To-Path", r.toPath) /\ Says(w, 3 + l + m, "From-Path", r.fromPath)
    BY <1>4, <2>1
  <2> QED
    BY <2>4, <2>5, <2>6 DEF HeadersSay
<1> QED
  BY <1>1, <1>2, <1>5, <1>7, <1>10

\* What encode returns: the first line, headers up to line k, and the end line
\* at e, behind a body if there is one.
TextOf(w, r, k, e, names, S) ==
  /\ w \in Seq(S) /\ Len(w) = e /\ k < e
  /\ w[1] = FirstLine(EncodedTid(r), r.what) /\ w[e] = EndLine(EncodedTid(r), r.flag)
  /\ Titled(w, k, names) /\ HeadersSay(w, k, r)
  /\ r.body = None => e = k + 1
  /\ r.body # None =>
       /\ w[k + 1] = Blank /\ e = k + 2 + Len(r.body)
       /\ \A i \in 1..Len(r.body) : w[k + 1 + i] = r.body[i]

LEMMA EncodedText ==
  ASSUME NEW r, Outgoing(r)
  PROVE  \E k \in Nat \ {0}, e \in Nat : \E names, S : TextOf(Encode(r), r, k, e, names, S)
<1> DEFINE w == Encode(r)
           tid == EncodedTid(r)
           a == <<FirstLine(tid, r.what), Header("To-Path", r.toPath),
                  Header("From-Path", r.fromPath)>>
           hs == r.headers
           g == EncodedRange(r.byteRange)
           d == EncodedBody(r)
           z == EndLine(tid, r.flag)
           ct == Header("Content-Type", <<"text/plain">>)
           S == {a[1], a[2], a[3], z, ct, Blank} \cup {hs[i] : i \in DOMAIN hs}
                  \cup {g[i] : i \in DOMAIN g} \cup BodyLines
           l == Len(hs)
           m == Len(g)
           n == Len(d)
<1>1. w = a \o hs \o g \o d \o <<z>>
  BY DEF Encode
<1>2. a \in Seq(S) /\ Len(a) = 3 /\ z \in S /\ ct \in S /\ Blank \in S
  <2>1. a[1] \in S /\ a[2] \in S /\ a[3] \in S
    OBVIOUS
  <2> HIDE DEF S
  <2>2. <<a[1], a[2], a[3]>> \in Seq(S)
    BY <2>1
  <2> QED
    BY <2>2 DEF S
<1>3. hs \in Seq(S) /\ g \in Seq(S)
  <2> DEFINE P == {hs[i] : i \in DOMAIN hs}
             Q == {g[i] : i \in DOMAIN g}
  <2>1. P \subseteq S /\ Q \subseteq S
    OBVIOUS
  <2>2. hs = r.headers /\ g = EncodedRange(r.byteRange)
    OBVIOUS
  <2> HIDE DEF g, hs, S
  <2>3. hs \in Seq(P)
    BY <2>2, OwnHeaders
  <2>4. g \in Seq(Q)
    BY <2>2, RangeHeader
  <2> HIDE DEF P, Q
  <2> QED
    BY <2>1, <2>3, <2>4
<1>4. r.body \in Seq(BodyLines) /\ r.body \in Seq(S) /\ Len(r.body) \in Nat
  <2>1. r.body \in Seq(BodyLines)
    BY DEF Outgoing
  <2> HIDE DEF a, hs, g, z, ct
  <2> QED
    BY <2>1
<1>5. /\ r.body = None => d = <<>> /\ Len(d) = 0 /\ d \in Seq(S)
      /\ r.body # None => /\ d \in Seq(S) /\ Len(d) = 2 + Len(r.body)
                          /\ d[1] = ct /\ d[2] = Blank
                          /\ \A i \in 1..Len(r.body) : d[2 + i] = r.body[i]
  <2>1. CASE r.body = None
    BY <2>1 DEF EncodedBody
  <2>2. CASE r.body # None
    <3> DEFINE head == <<ct, Blank>>
               body == r.body
    <3>1. d = head \o body
      BY <2>2 DEF EncodedBody
    <3> HIDE DEF S
    <3>2. head \in Seq(S) /\ Len(head) = 2 /\ head[1] = ct /\ head[2] = Blank
      BY <1>2
    <3>3. body \in Seq(S)
      BY <1>4
    <3> HIDE DEF head, d, body
    <3> DEFINE two == 2
               c == Len(body)
    <3>4. two = Len(head) /\ c = Len(body)
      BY <3>2
    <3> HIDE DEF two, c
    <3>5. head \in Seq(S)
      BY <3>2
    <3>6. /\ d \in Seq(S) /\ Len(d) = two + c
          /\ \A i \in 1..two : d[i] = head[i]
          /\ \A i \in 1..c : d[two + i] = body[i]
      BY <3>1, <3>3, <3>4, <3>5, TwoParts
    <3> QED
      BY <2>2, <3>2, <3>6 DEF two, c, body
  <2> QED
    BY <2>1, <2>2
<1>6. d \in Seq(S)
  BY <1>5
<1>7. a[1] = FirstLine(tid, r.what) /\ a[2] = Header("To-Path", r.toPath)
      /\ a[3] = Header("From-Path", r.fromPath)
  OBVIOUS
<1> HIDE DEF w, tid, a, hs, g, d, z, ct, S
<1>8. /\ l \in Nat /\ m \in Nat /\ n \in Nat
      /\ w \in Seq(S) /\ Len(w) = 3 + l + m + n + 1
      /\ Follows(w, 0, a) /\ Follows(w, 3, hs) /\ Follows(w, 3 + l, g)
      /\ Follows(w, 3 + l + m, d)
      /\ w[3 + l + m + n + 1] = z
  <2> DEFINE three == 3
  <2>1. three = Len(a)
    BY <1>2
  <2> HIDE DEF three, l, m, n
  <2>2. l = Len(hs) /\ m = Len(g) /\ n = Len(d)
    BY DEF l, m, n
  <2>3. Joins(w, S, a, hs, g, d, z)
    BY <1>1, <1>2, <1>3, <1>6 DEF Joins
  <2>4. Placed(w, S, a, hs, g, d, z, three, l, m, n)
    BY <2>1, <2>2, <2>3, FiveParts
  <2> QED
    BY <2>4 DEF three, Placed
<1> HIDE DEF l, m, n
<1>9. w[1] = a[1] /\ w[2] = a[2] /\ w[3] = a[3]
  <2>1. DOMAIN a = 1..3 /\ 0 + 1 = 1 /\ 0 + 2 = 2 /\ 0 + 3 = 3
    BY <1>2
  <2>2. \A i \in 1..3 : w[0 + i] = a[i]
    BY <1>8, <2>1 DEF Follows
  <2>3. 1 \in 1..3 /\ 2 \in 1..3 /\ 3 \in 1..3
    OBVIOUS
  <2> QED
    BY <2>1, <2>2, <2>3
<1>10. /\ \E names : Titled(w, 3 + l + m, names) /\ "Content-Type" \notin names
       /\ HeadersSay(w, 3 + l + m, r)
  <2>1. hs = r.headers /\ g = EncodedRange(r.byteRange) /\ l = Len(hs) /\ m = Len(g)
    BY DEF hs, g, l, m
  <2>2. w[2] = Header("To-Path", r.toPath) /\ w[3] = Header("From-Path", r.fromPath)
    BY <1>7, <1>9
  <2>3. Follows(w, 3, hs) /\ Follows(w, 3 + l, g)
    BY <1>8
  <2> QED
    BY <2>1, <2>2, <2>3, MessageHeaders
<1>11. PICK names : Titled(w, 3 + l + m, names) /\ "Content-Type" \notin names
  BY <1>10
<1>12. CASE r.body = None
  <2> DEFINE k == 3 + l + m
  <2>1. k \in Nat \ {0} /\ k + 1 \in Nat /\ Len(w) = k + 1 /\ w[k + 1] = z /\ k < k + 1
    BY <1>5, <1>8, <1>12 DEF n
  <2>2. Titled(w, k, names) /\ HeadersSay(w, k, r)
    BY <1>10, <1>11
  <2>3. w[1] = FirstLine(tid, r.what) /\ z = EndLine(tid, r.flag) /\ w \in Seq(S)
    BY <1>7, <1>8, <1>9 DEF z
  <2> HIDE DEF k
  <2>4. TextOf(w, r, k, k + 1, names, S)
    BY <1>12, <2>1, <2>2, <2>3 DEF TextOf, tid
  <2> QED
    BY <2>1, <2>4 DEF w
<1>13. CASE r.body # None
  <2> DEFINE j == 3 + l + m
             k == j + 1
             c == Len(r.body)
  <2>1. c \in Nat /\ n = 2 + c /\ d[1] = ct /\ d[2] = Blank /\ \A i \in 1..c : d[2 + i] = r.body[i]
    BY <1>4, <1>5, <1>13 DEF n
  <2> HIDE DEF c
  <2>2. j \in Nat \ {0} /\ \A i \in 1..n : w[j + i] = d[i]
    <3>1. DOMAIN d = 1..n
      <4>1. n = Len(d)
        BY DEF n
      <4> QED
        BY <1>6, <4>1
    <3>2. Follows(w, j, d)
      BY <1>8
    <3>3. j \in Nat \ {0}
      BY <1>8
    <3> HIDE DEF j
    <3> QED
      BY <3>1, <3>2, <3>3 DEF Follows
  <2>3. Len(w) = j + n + 1 /\ w[j + n + 1] = z
    BY <1>8
  <2>4. Titled(w, j, names) /\ HeadersSay(w, j, r)
    BY <1>10, <1>11
  <2> HIDE DEF j
  <2>5. w[j + 1] = ct /\ w[k + 1] = Blank /\ \A i \in 1..c : w[k + 1 + i] = r.body[i]
    <3>1. 1 \in 1..n /\ 2 \in 1..n /\ j + 2 = k + 1
      BY <2>1, <2>2
    <3>2. ASSUME NEW i \in 1..c PROVE w[k + 1 + i] = r.body[i]
      <4>1. 2 + i \in 1..n /\ j + (2 + i) = k + 1 + i
        BY <2>1, <2>2
      <4> QED
        BY <2>1, <2>2, <4>1
    <3> QED
      BY <2>1, <2>2, <3>1, <3>2
  <2>6. Titled(w, k, names \cup {"Content-Type"}) /\ HeadersSay(w, k, r)
    <3> DEFINE b == <<ct>>
    <3>1. DOMAIN b = 1..1 /\ b[1] = ct /\ \A i \in 1..1 : i = 1
      OBVIOUS
    <3>2. ct.type = "header" /\ ct.name = "Content-Type" /\ ct.value = <<"text/plain">>
      BY DEF ct, Header, Line
    <3>3. HeaderLine(ct)
      BY <3>2 DEF HeaderLine, KnownHeaders, RequestOnly
    <3> HIDE DEF b
    <3>4. HeadersOf(b, {"Content-Type"}) /\ \A x, v : Said(b, x, v) => x = "Content-Type"
      BY <3>1, <3>2, <3>3 DEF HeadersOf, Said
    <3>5. names \cap {"Content-Type"} = {} /\ Follows(w, j, b)
      BY <1>11, <2>5, <3>1 DEF Follows
    <3>6. /\ Titled(w, j + 1, names \cup {"Content-Type"})
          /\ \A x, v : Says(w, j + 1, x, v) <=> Says(w, j, x, v) \/ Said(b, x, v)
      <4> DEFINE one == 1
      <4>1. one \in Nat /\ DOMAIN b = 1..one
        BY <3>1
      <4> HIDE DEF one
      <4>2. /\ Titled(w, j + one, names \cup {"Content-Type"})
            /\ \A x, v : Says(w, j + one, x, v) <=> Says(w, j, x, v) \/ Said(b, x, v)
        BY <2>2, <2>4, <3>4, <3>5, <4>1, MoreHeaders
      <4> QED
        BY <4>2 DEF one
    <3>7. \A x \in OwnNames \cup {"To-Path", "From-Path", "Byte-Range"} : x # "Content-Type"
      BY DEF OwnNames
    <3>8. \A x \in OwnNames \cup {"To-Path", "From-Path", "Byte-Range"} : \A v :
            Says(w, k, x, v) <=> Says(w, j, x, v)
      BY <3>4, <3>6, <3>7
    <3> QED
      BY <2>4, <3>6, <3>8 DEF HeadersSay
  <2>7. k \in Nat \ {0} /\ k + 2 + c \in Nat /\ Len(w) = k + 2 + c /\ w[k + 2 + c] = z
        /\ k < k + 2 + c
    <3>1. j + n + 1 = k + 2 + c
      BY <2>1, <2>2
    <3> QED
      BY <2>1, <2>2, <2>3, <3>1
  <2>8. w[1] = FirstLine(tid, r.what) /\ z = EndLine(tid, r.flag) /\ w \in Seq(S)
    BY <1>7, <1>8, <1>9 DEF z
  <2> HIDE DEF k
  <2> DEFINE e == k + 2 + c
  <2>9. e \in Nat /\ Len(w) = e /\ w[e] = z /\ k < e /\ e = k + 2 + Len(r.body)
    BY <2>7 DEF c
  <2>10. \A i \in 1..Len(r.body) : w[k + 1 + i] = r.body[i]
    BY <2>5 DEF c
  <2> HIDE DEF e
  <2>11. TextOf(w, r, k, e, names \cup {"Content-Type"}, S)
    BY <1>13, <2>5, <2>6, <2>8, <2>9, <2>10 DEF TextOf, tid
  <2> QED
    BY <2>7, <2>9, <2>11 DEF w
<1> QED
  BY <1>12, <1>13

-----------------------------------------------------------------------------
(* What is parsed of them.                                                 *)

LEMMA SentIs ==
  ASSUME NEW r, Outgoing(r), NEW n
  PROVE  /\ \A v : Said(r.headers, n, v) => Sent(r, n) = v
         /\ (\A v : ~Said(r.headers, n, v)) => Sent(r, n) = None
<1> DEFINE hs == r.headers
           I == {i \in 1..Len(hs) : hs[i].name = n}
           x == IF I # {} THEN Min(I) ELSE 0
<1>1. /\ DOMAIN hs = 1..Len(hs) /\ Len(hs) \in Nat
      /\ \A i, j \in DOMAIN hs : hs[i].name = hs[j].name => i = j
  BY OwnHeaders DEF HeadersOf
<1>2. Sent(r, n) = IF x = 0 THEN None ELSE hs[x].value
  BY DEF Sent, SelectInSeq
<1>3. ASSUME NEW v, Said(hs, n, v) PROVE Sent(r, n) = v
  <2>1. PICK i \in 1..Len(hs) : hs[i].name = n /\ hs[i].value = v
    BY <1>1, <1>3 DEF Said
  <2>2. I = {i}
    BY <1>1, <2>1
  <2>3. I \in SUBSET Nat /\ I # {}
    BY <2>2
  <2> HIDE DEF I
  <2>4. Min(I) \in I
    BY <2>3, MinOfNaturals
  <2>5. x = i /\ x # 0
    BY <2>2, <2>3, <2>4
  <2> HIDE DEF x
  <2> QED
    BY <1>2, <2>1, <2>5
<1>4. ASSUME \A v : ~Said(hs, n, v) PROVE Sent(r, n) = None
  <2>1. I = {}
    BY <1>1, <1>4 DEF Said
  <2> HIDE DEF I
  <2> QED
    BY <1>2, <2>1
<1> QED
  BY <1>3, <1>4

\* The body of a message that can be sent has no line that the parser takes for
\* the end of the message.
Fresh(r) == NewTid(r) \in Tids /\ \A line \in ToSet(r.body) : ~IsEndOf(line, NewTid(r))

LEMMA NoEarlyEnd ==
  ASSUME NEW r, Outgoing(r), Sendable(r), Quoted(r, r.tid) => Fresh(r)
  PROVE  /\ EncodedTid(r) \in Tids
         /\ \A i \in 1..Len(r.body) : ~IsEndOf(r.body[i], EncodedTid(r))
<1>1. EncodedTid(r) \in Tids /\ \A line \in ToSet(r.body) : ~IsEndOf(line, EncodedTid(r))
  <2>1. CASE Quoted(r, r.tid)
    BY <2>1 DEF Fresh, EncodedTid
  <2>2. CASE ~Quoted(r, r.tid)
    BY <2>2 DEF Sendable, EncodedTid, Outgoing
  <2> QED
    BY <2>1, <2>2
<1>2. \A i \in 1..Len(r.body) : r.body[i] \in ToSet(r.body)
  <2>1. r.body \in Seq(BodyLines)
    BY DEF Outgoing
  <2> QED
    BY <2>1 DEF ToSet
<1> QED
  BY <1>1, <1>2

\* The read loop cuts such a message behind its end line.
LEMMA CutAtTheEnd ==
  ASSUME NEW w, NEW r, NEW k \in Nat \ {0}, NEW e \in Nat, NEW names, NEW S,
         TextOf(w, r, k, e, names, S), Outgoing(r), EncodedTid(r) \in Tids,
         \A i \in 1..Len(r.body) : ~IsEndOf(r.body[i], EncodedTid(r))
  PROVE  MatchedLines(w) = w
<1> DEFINE tid == EncodedTid(r)
           I == {i \in 1..Len(w) : w[i].type = "end" /\ w[i].name = w[1].name}
<1>1. /\ w \in Seq(S) /\ Len(w) = e /\ k < e
      /\ w[1] = FirstLine(tid, r.what) /\ w[e] = EndLine(tid, r.flag)
      /\ Titled(w, k, names)
      /\ r.body = None => e = k + 1
      /\ r.body # None => w[k + 1] = Blank /\ e = k + 2 + Len(r.body)
      /\ r.body # None => \A i \in 1..Len(r.body) : w[k + 1 + i] = r.body[i]
  BY DEF TextOf
<1>2. I # {} => MatchedLines(w) = SubSeq(w, 1, Min(I))
  <2> DEFINE n == SelectInSeq(w, LAMBDA l : l.type = "end" /\ l.name = w[1].name)
  <2>1. I # {} => n = Min(I)
    BY DEF SelectInSeq
  <2>2. MatchedLines(w) = SubSeq(w, 1, n)
    BY DEF MatchedLines
  <2> HIDE DEF n, I
  <2> QED
    BY <2>1, <2>2
<1>3. /\ w[1].type = "first" /\ w[1].name = tid
      /\ w[e].type = "end" /\ w[e].name = tid /\ Blank.type = "blank"
  <2> HIDE DEF tid
  <2>1. w[1] = FirstLine(tid, r.what) /\ w[e] = EndLine(tid, r.flag)
    BY <1>1
  <2>2. w[1].type = "first" /\ w[1].name = tid /\ w[e].type = "end" /\ w[e].name = tid
    BY <2>1 DEF FirstLine, EndLine, Line
  <2>3. Blank.type = "blank"
    BY DEF Blank, Line
  <2> QED
    BY <2>2, <2>3
<1>4. I \in SUBSET Nat /\ e \in I
  BY <1>1, <1>3
<1>5. Len(r.body) \in Nat
  BY DEF Outgoing
<1>6. \A i \in 1..Len(r.body) : ~(r.body[i].type = "end" /\ r.body[i].name = tid)
  BY BeginsAssumption DEF IsEndOf
<1> HIDE DEF tid
<1>7. ASSUME NEW i \in I PROVE i = e
  <2> SUFFICES ASSUME i # e PROVE FALSE
    OBVIOUS
  <2>1. i \in 1..e - 1 /\ w[i].type = "end" /\ w[i].name = tid
    BY <1>1, <1>3
  <2>2. CASE i = 1
    BY <1>3, <2>1, <2>2
  <2>3. CASE i \in 2..k
    BY <1>1, <2>1, <2>3 DEF Titled, HeaderLine
  <2>4. CASE r.body # None /\ i = k + 1
    BY <1>1, <1>3, <2>1, <2>4
  <2>5. CASE r.body # None /\ i > k + 1
    <3> DEFINE c == Len(r.body)
    <3>1. e = k + 2 + c /\ c \in Nat /\ i \in 1..e - 1
      BY <1>1, <1>5, <2>1, <2>5
    <3>2. \A j \in 1..c : w[k + 1 + j] = r.body[j]
      BY <1>1, <2>5
    <3>3. \A j \in 1..c : ~(r.body[j].type = "end" /\ r.body[j].name = tid)
      BY <1>6
    <3> HIDE DEF c
    <3>4. i - k - 1 \in 1..c /\ k + 1 + (i - k - 1) = i
      BY <2>5, <3>1
    <3>5. w[i] = r.body[i - k - 1]
      BY <3>2, <3>4
    <3> QED
      BY <2>1, <3>3, <3>4, <3>5
  <2> QED
    BY <1>1, <2>1, <2>2, <2>3, <2>4, <2>5
<1> HIDE DEF I
<1>8. Min(I) = e
  BY <1>4, <1>7, MinOfNaturals
<1>9. SubSeq(w, 1, e) = w
  BY <1>1, SubSeqFull
<1> QED
  BY <1>2, <1>4, <1>8, <1>9

\* Where the end line of a text is found.
LEMMA MessageEndAt ==
  ASSUME NEW w, NEW r, NEW k \in Nat \ {0}, NEW e \in Nat, NEW names, NEW S,
         TextOf(w, r, k, e, names, S), HeadersEnd(w) = k + 1,
         Outgoing(r), EncodedTid(r) \in Tids,
         \A i \in 1..Len(r.body) : ~IsEndOf(r.body[i], EncodedTid(r))
  PROVE  MessageEnd(w) = e
<1> DEFINE tid == EncodedTid(r)
<1>1. /\ Len(w) = e /\ w[1].name = tid /\ w[e].type = "end" /\ IsEndOf(w[e], tid)
      /\ r.body = None => e = k + 1
      /\ r.body # None => w[k + 1].type = "blank" /\ e = k + 2 + Len(r.body)
      /\ r.body # None => \A i \in 1..Len(r.body) : w[k + 1 + i] = r.body[i]
  <2>1. w[1] = FirstLine(tid, r.what) /\ w[e] = EndLine(tid, r.flag)
    BY DEF TextOf
  <2>2. w[1].name = tid /\ w[e].type = "end" /\ w[e].name = tid
    BY <2>1 DEF FirstLine, EndLine, Line
  <2>3. Blank.type = "blank"
    BY DEF Blank, Line
  <2>4. /\ Len(w) = e
        /\ r.body = None => e = k + 1
        /\ r.body # None => w[k + 1] = Blank /\ e = k + 2 + Len(r.body)
        /\ r.body # None => \A i \in 1..Len(r.body) : w[k + 1 + i] = r.body[i]
    BY DEF TextOf
  <2> QED
    BY <2>2, <2>3, <2>4, BeginsAssumption DEF IsEndOf
<1> HIDE DEF tid
<1>2. CASE r.body = None
  BY <1>1, <1>2 DEF MessageEnd
<1>3. CASE r.body # None
  <2> DEFINE ends == {i \in k + 3..e : IsEndOf(w[i], tid)}
             c == Len(r.body)
  <2>1. MessageEnd(w) = IF ends = {} THEN 0 ELSE Min(ends)
    <3>1. HeadersEnd(w) + 2 = k + 3
      OBVIOUS
    <3> QED
      BY <1>1, <1>3, <3>1 DEF MessageEnd, BodyEnd
  <2>2. c \in Nat \ {0}
    <3>1. r.body \in Seq(BodyLines)
      BY DEF Outgoing
    <3> QED
      BY <1>3, <3>1, EmptySeq DEF None
  <2>3. \A i \in 1..c : ~IsEndOf(w[k + 1 + i], tid)
    BY <1>1, <1>3 DEF tid
  <2>4. e = k + 2 + c
    BY <1>1, <1>3
  <2> HIDE DEF c
  <2>5. ASSUME NEW i \in ends PROVE i = e
    <3> SUFFICES ASSUME i # e PROVE FALSE
      OBVIOUS
    <3>1. i - k - 1 \in 1..c /\ k + 1 + (i - k - 1) = i
      BY <2>2, <2>4
    <3>2. ~IsEndOf(w[i], tid)
      BY <2>3, <3>1
    <3> QED
      BY <3>2
  <2>6. e \in ends
    BY <1>1, <2>2, <2>4
  <2>7. ends \in SUBSET Nat /\ ends # {}
    BY <2>6
  <2> HIDE DEF ends
  <2>8. Min(ends) \in ends
    BY <2>7, MinOfNaturals
  <2> QED
    BY <2>1, <2>5, <2>7, <2>8
<1> QED
  BY <1>2, <1>3

\* What the parser finds between the headers and the end line.
LEMMA BodyIs ==
  ASSUME NEW w, NEW r, NEW k \in Nat \ {0}, NEW e \in Nat, NEW names, NEW S,
         TextOf(w, r, k, e, names, S), Outgoing(r)
  PROVE  SubSeq(w, k + 2, e - 1) = r.body
<1>1. w \in Seq(S) /\ Len(w) = e /\ k < e
  BY DEF TextOf
<1>2. CASE r.body = None
  <2>1. e - 1 < k + 2
    BY <1>2 DEF TextOf
  <2>2. SubSeq(w, k + 2, e - 1) = <<>>
    BY <1>1, <2>1, SubSeqEmpty
  <2> QED
    BY <1>2, <2>2 DEF None
<1>3. CASE r.body # None
  <2> DEFINE c == Len(r.body)
             s == SubSeq(w, k + 2, e - 1)
             a == k + 2
             b == e - 1
  <2>1. r.body \in Seq(BodyLines) /\ c \in Nat
    BY DEF Outgoing
  <2>2. e = k + 2 + c /\ \A i \in 1..c : w[k + 1 + i] = r.body[i]
    BY <1>3 DEF TextOf
  <2> HIDE DEF c
  <2>3. a \in 1..e + 1 /\ b \in a - 1..e /\ b - a + 1 = c
    BY <2>1, <2>2
  <2>4. \A i \in 1..c : a + i - 1 = k + 1 + i
    BY <2>1
  <2>5. s = SubSeq(w, a, b)
    OBVIOUS
  <2> HIDE DEF a, b, s
  <2>6. /\ s \in Seq(S) /\ Len(s) = b - a + 1
        /\ \A i \in 1..b - a + 1 : s[i] = w[a + i - 1]
    BY <1>1, <2>3, <2>5, Cut
  <2>7. Len(s) = c /\ \A i \in 1..c : s[i] = r.body[i]
    BY <2>2, <2>3, <2>4, <2>6
  <2>8. s \in Seq(S \cup BodyLines) /\ r.body \in Seq(S \cup BodyLines)
    BY <2>1, <2>6
  <2>9. s = r.body
    BY <2>7, <2>8, SeqEqual DEF c
  <2> QED
    BY <2>9 DEF s
<1> QED
  BY <1>2, <1>3

\* What this library encodes is cut at its end and parsed, and as it was meant.
LEMMA ParsedAs ==
  ASSUME NEW r, Outgoing(r), Sendable(r), Quoted(r, r.tid) => Fresh(r)
  PROVE  \E p \in ParseMessage(MatchedLines(Encode(r))) : Means(p, r)
<1> DEFINE w == Encode(r)
<1>0. PICK k \in Nat \ {0}, e \in Nat : \E names, S : TextOf(w, r, k, e, names, S)
  BY EncodedText
<1> HIDE DEF w
<1>1. PICK names, S : TextOf(w, r, k, e, names, S)
  BY <1>0
<1>2. /\ EncodedTid(r) \in Tids
      /\ \A i \in 1..Len(r.body) : ~IsEndOf(r.body[i], EncodedTid(r))
  BY NoEarlyEnd
<1>3. /\ w[1].type = "first" /\ w[1].name = EncodedTid(r) /\ w[1].value[1] = r.what
      /\ w[e].name = EncodedTid(r) /\ w[e].value[1] = r.flag /\ Len(w) = e /\ k < e
      /\ Titled(w, k, names) /\ HeadersSay(w, k, r)
  BY <1>1 DEF TextOf, FirstLine, EndLine, Line
<1>4. w[k + 1].type = "blank" \/ IsEndOf(w[k + 1], w[1].name)
  <2>1. CASE r.body = None
    <3>1. w[k + 1] = EndLine(EncodedTid(r), r.flag)
      BY <1>1, <2>1 DEF TextOf
    <3> QED
      BY <1>2, <1>3, <3>1, BeginsAssumption DEF EndLine, Line, IsEndOf
  <2>2. CASE r.body # None
    <3>1. w[k + 1] = Blank
      BY <1>1, <2>2 DEF TextOf
    <3>2. Blank.type = "blank"
      BY DEF Blank, Line
    <3> QED
      BY <3>1, <3>2
  <2> QED
    BY <2>1, <2>2
<1>5. HeadersEnd(w) = k + 1
  BY <1>3, <1>4, HeadersEndAt
<1>6. MessageEnd(w) = e
  BY <1>1, <1>2, <1>5, MessageEndAt
<1>7. IsParsed(w)
  <2>1. \A i \in 2..HeadersEnd(w) - 1 : ReadableHeader(w, i)
    <3>1. HeadersEnd(w) - 1 = k
      BY <1>5
    <3> QED
      BY <1>3, <3>1 DEF Titled, HeaderLine, ReadableHeader
  <2>2. KnownHeadersOK(w)
    <3>1. ASSUME NEW n \in KnownHeaders
          PROVE  \A i, j \in Named(w, n) : i = j /\ w[i].value # <<>>
      BY <1>3, <1>5, HeaderFound
    <3> QED
      BY <3>1 DEF KnownHeadersOK
  <2>3. HeadersEnd(w) # 0 /\ MessageEnd(w) # 0
    BY <1>3, <1>5, <1>6
  <2> QED
    BY <1>3, <2>1, <2>2, <2>3 DEF IsParsed
<1>8. ASSUME NEW n \in OwnNames PROVE FirstValue(w, n) = Sent(r, n)
  <2>1. \A v : Says(w, k, n, v) <=> Said(r.headers, n, v)
    BY <1>3 DEF HeadersSay
  <2>2. CASE \E v : Said(r.headers, n, v)
    <3>1. PICK v : Said(r.headers, n, v)
      BY <2>2
    <3>2. Sent(r, n) = v
      BY <3>1, SentIs
    <3>3. FirstValue(w, n) = v
      BY <1>3, <1>5, <2>1, <3>1, HeaderFound
    <3> QED
      BY <3>2, <3>3
  <2>3. CASE \A v : ~Said(r.headers, n, v)
    <3>1. Sent(r, n) = None
      BY <2>3, SentIs
    <3>2. \A v : ~Says(w, k, n, v)
      BY <2>1, <2>3
    <3>3. FirstValue(w, n) = None
      BY <1>3, <1>5, <3>2, HeaderFound
    <3> QED
      BY <3>1, <3>3
  <2> QED
    BY <2>2, <2>3
<1>9. FirstValue(w, "Message-ID") = Sent(r, "Message-ID")
  BY <1>8 DEF OwnNames
<1>10. FirstValue(w, "Failure-Report") = Sent(r, "Failure-Report")
  BY <1>8 DEF OwnNames
<1>11. (IF IsResponse(w) THEN None ELSE FirstValue(w, "Status")) = Sent(r, "Status")
  <2>1. CASE r.what \in Statuses
    <3>1. r.headers = <<>>
      BY <2>1, OwnHeaders
    <3>2. \A n, v : ~Said(r.headers, n, v)
      BY <3>1 DEF Said
    <3>3. Sent(r, "Status") = None
      BY <3>2, SentIs
    <3> QED
      BY <1>3, <2>1, <3>3 DEF IsResponse
  <2>2. CASE r.what \notin Statuses
    <3>1. FirstValue(w, "Status") = Sent(r, "Status")
      BY <1>8 DEF OwnNames
    <3> QED
      BY <1>3, <2>2, <3>1 DEF IsResponse
  <2> QED
    BY <2>1, <2>2
<1>12. LastValue(w, "To-Path") = r.toPath
  BY <1>3, <1>5, HeaderFound DEF HeadersSay
<1>13. LastValue(w, "From-Path") = r.fromPath
  BY <1>3, <1>5, HeaderFound DEF HeadersSay
<1>14. r.byteRange # None => DecodedRange(w) = r.byteRange
  <2> SUFFICES ASSUME r.byteRange # None PROVE DecodedRange(w) = r.byteRange
    OBVIOUS
  <2>1. PICK v : /\ Said(EncodedRange(r.byteRange), "Byte-Range", v) /\ v # None
                 /\ [i \in 1..3 |-> DecodedNumber(v[i])] = r.byteRange
    BY RangeHeader
  <2>2. Says(w, k, "Byte-Range", v)
    BY <1>3, <2>1 DEF HeadersSay
  <2>3. FirstValue(w, "Byte-Range") = v
    BY <1>3, <1>5, <2>2, HeaderFound
  <2> QED
    BY <2>1, <2>3 DEF DecodedRange
<1>15. SubSeq(w, HeadersEnd(w) + 1, MessageEnd(w) - 1) = r.body
  <2>1. HeadersEnd(w) + 1 = k + 2 /\ MessageEnd(w) = e
    BY <1>5, <1>6
  <2>2. SubSeq(w, k + 2, e - 1) = r.body
    BY <1>1, BodyIs
  <2> QED
    BY <2>1, <2>2
<1> DEFINE p == [tid |-> w[1].name, what |-> w[1].value[1],
                 toPath |-> LastValue(w, "To-Path"), fromPath |-> LastValue(w, "From-Path"),
                 messageId |-> FirstValue(w, "Message-ID"),
                 reports |-> FirstValue(w, "Failure-Report"),
                 status |-> IF IsResponse(w) THEN None ELSE FirstValue(w, "Status"),
                 byteRange |-> DecodedRange(w),
                 body |-> SubSeq(w, HeadersEnd(w) + 1, MessageEnd(w) - 1),
                 flag |-> ContinuationFlag(w)]
<1>16. p \in ParseMessage(w)
  BY <1>7 DEF ParseMessage
<1>17. /\ p.what = w[1].value[1] /\ p.toPath = LastValue(w, "To-Path")
       /\ p.fromPath = LastValue(w, "From-Path")
       /\ p.messageId = FirstValue(w, "Message-ID")
       /\ p.reports = FirstValue(w, "Failure-Report")
       /\ p.status = IF IsResponse(w) THEN None ELSE FirstValue(w, "Status")
       /\ p.byteRange = DecodedRange(w)
       /\ p.body = SubSeq(w, HeadersEnd(w) + 1, MessageEnd(w) - 1)
       /\ p.flag = ContinuationFlag(w)
  OBVIOUS
<1> HIDE DEF p
<1>18. p.what = r.what /\ p.toPath = r.toPath /\ p.fromPath = r.fromPath
  BY <1>3, <1>12, <1>13, <1>17
<1>19. p.messageId = Sent(r, "Message-ID") /\ p.reports = Sent(r, "Failure-Report")
  BY <1>9, <1>10, <1>17
<1>20. p.status = Sent(r, "Status") /\ p.body = r.body /\ p.flag = r.flag
  BY <1>3, <1>6, <1>11, <1>15, <1>17 DEF ContinuationFlag
<1>21. Means(p, r)
  BY <1>14, <1>17, <1>18, <1>19, <1>20 DEF Means
<1>22. MatchedLines(w) = w
  BY <1>1, <1>2, CutAtTheEnd
<1> QED
  BY <1>16, <1>21, <1>22 DEF w

\* What one party with this library encodes, the other handles as what was
\* meant, whatever surrounds it in the stream, if encode sees what in the body
\* looks like the end.
THEOREM EncodedIsHandled == Spec => []HandledIsMeant
<1>1. ReadInv => HandledIsMeant
  <2> SUFFICES ASSUME ReadInv, NEW m \in Messages, NEW r \in Written[m], Sendable(r),
                      ~reading, End[m] <= arrived
               PROVE  handled[m] = 1 /\ \E p \in Parsed[m] : Means(p, r)
    BY DEF HandledIsMeant
  <2>1. /\ Outgoing(r) /\ Text[m] = MatchedLines(Encode(r))
        /\ Quoted(r, r.tid) => Fresh(r)
    BY ReadingAssumption DEF Fresh
  <2>2. /\ Parsed[m] = ParseMessage(MatchedLines(Encode(r)))
        /\ Parsable = {n \in Messages : Parsed[n] # {}}
    BY <2>1, ReadingAssumption
  <2>3. \E p \in Parsed[m] : Means(p, r)
    BY <2>1, <2>2, ParsedAs
  <2>4. m \in Parsable
    BY <2>2, <2>3
  <2>5. handled[m] = 1
    BY <2>4 DEF ReadInv, NothingHeldBack
  <2> QED
    BY <2>3, <2>5
<1> QED
  BY <1>1, ReadInvariant, PTL
=============================================================================
