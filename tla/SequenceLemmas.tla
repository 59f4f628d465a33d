--------------------------- MODULE SequenceLemmas ---------------------------
(***************************************************************************)
(* Lemmas about numbers, about the cutting of a length into pieces, and    *)
(* about the operators of the community modules that the models use.  What *)
(* FlattenSeq computes is proved from the existence of a recursive         *)
(* function, and that by looking for the smallest number that has none.    *)
(***************************************************************************)
EXTENDS Integers, SequencesExt, SequenceTheorems, FiniteSetTheorems,
        WellFoundedInduction, TLAPS

-----------------------------------------------------------------------------
(* Numbers.                                                                *)

\* A set of numbers that has 0 and with each number the next has them all.
LEMMA Induction ==
  ASSUME NEW T \in SUBSET Nat, 0 \in T, \A n \in T : n + 1 \in T
  PROVE  T = Nat
<1> SUFFICES ASSUME T # Nat PROVE FALSE
  OBVIOUS
<1>1. Nat \ T # {} /\ Nat \ T \subseteq Nat
  OBVIOUS
<1>2. PICK x \in Nat \ T : \A y \in Nat \ T : ~(<<y, x>> \in OpToRel(<, Nat))
  BY <1>1, NatLessThanWellFounded, WFMin, Zenon
<1>3. x # 0 /\ x \in Nat
  BY <1>2
<1>4. x - 1 \in Nat /\ x - 1 < x /\ x - 1 + 1 = x
  BY <1>3
<1>5. x - 1 \in T
  BY <1>2, <1>3, <1>4 DEF OpToRel
<1> QED
  BY <1>2, <1>4, <1>5

\* A set of natural numbers has a least element, and Min picks it.
LEMMA MinOfNaturals ==
  ASSUME NEW T \in SUBSET Nat, T # {}
  PROVE  Min(T) \in T /\ \A y \in T : Min(T) <= y
<1>1. PICK x \in T : \A y \in T : ~(<<y, x>> \in OpToRel(<, Nat))
  BY NatLessThanWellFounded, WFMin, Zenon
<1>2. \A y \in T : ~(y < x)
  BY <1>1 DEF OpToRel
<1>3. \A y \in T : x <= y
  BY <1>2
<1> QED
  BY <1>3 DEF Min

\* A bounded one has a greatest element.
LEMMA GreatestExists ==
  ASSUME NEW T \in SUBSET Nat, T # {}, NEW bound \in Nat, \A x \in T : x <= bound
  PROVE  \E x \in T : \A y \in T : y <= x
<1> DEFINE D == {bound - x : x \in T}
<1>1. D \in SUBSET Nat /\ D # {}
  OBVIOUS
<1>2. Min(D) \in D /\ \A y \in D : Min(D) <= y
  BY <1>1, MinOfNaturals
<1>3. PICK x \in T : Min(D) = bound - x
  BY <1>2
<1>4. \A y \in T : bound - x <= bound - y
  BY <1>2, <1>3
<1> QED
  BY <1>4

LEMMA MinMaxOfTwo ==
  ASSUME NEW a \in Nat, NEW b \in Nat
  PROVE  /\ Max({a, b}) \in {a, b} /\ a <= Max({a, b}) /\ b <= Max({a, b})
         /\ Min({a, b}) \in {a, b} /\ Min({a, b}) <= a /\ Min({a, b}) <= b
<1>1. \E x \in {a, b} : \A y \in {a, b} : x >= y
  OBVIOUS
<1>2. \E x \in {a, b} : \A y \in {a, b} : x <= y
  OBVIOUS
<1> QED
  BY <1>1, <1>2 DEF Max, Min

\* The same of integers.
LEMMA SmallerOfTwo ==
  ASSUME NEW a \in Int, NEW b \in Int
  PROVE  Min({a, b}) = IF a <= b THEN a ELSE b
<1> DEFINE x == IF a <= b THEN a ELSE b
<1>1. x \in {a, b} /\ \A y \in {a, b} : x <= y
  OBVIOUS
<1>2. \A z \in {a, b} : (\A y \in {a, b} : z <= y) => z = x
  OBVIOUS
<1> HIDE DEF x
<1>3. Min({a, b}) = x
  BY <1>1, <1>2 DEF Min
<1> QED
  BY <1>3 DEF x

LEMMA Quotient ==
  ASSUME NEW a \in Nat, NEW b \in Nat \ {0}
  PROVE  a \div b \in Nat /\ (a \div b) * b <= a /\ a < (a \div b) * b + b
BY Z3

LEMMA Multiples ==
  ASSUME NEW i \in Nat, NEW j \in Nat, i < j, NEW c \in Nat \ {0}
  PROVE  i * c \in Nat /\ j * c \in Nat /\ i * c + c <= j * c
BY Z3

LEMMA PreviousMultiple ==
  ASSUME NEW i \in Nat \ {0}, NEW c \in Nat \ {0}
  PROVE  (i - 1) * c \in Nat /\ i * c \in Nat /\ (i - 1) * c + c = i * c
BY Z3

\* A length is cut into pieces: all but the last are full, and the last ends it.
LEMMA Pieces ==
  ASSUME NEW L \in Nat, NEW C \in Nat \ {0},
         NEW n, n = IF L = 0 THEN 1 ELSE (L + C - 1) \div C
  PROVE  /\ n \in Nat \ {0} /\ n * C \in Nat /\ L <= n * C
         /\ \A i \in 0..n - 1 : i * C \in Nat /\ i * C <= L /\ (i > 0 => i * C < L)
<1>1. n \in Nat /\ n * C \in Nat /\ L <= n * C /\ (L > 0 => n * C < L + C) /\ (L = 0 => n = 1)
  <2>1. CASE L = 0
    <3>1. n = 1
      BY <2>1
    <3> QED
      BY <2>1, <3>1
  <2>2. CASE L > 0
    <3> DEFINE a == L + C - 1
    <3>1. n = a \div C /\ a \in Nat
      BY <2>2
    <3>2. a = L + C - 1
      OBVIOUS
    <3> HIDE DEF a
    <3>3. a \div C \in Nat /\ (a \div C) * C <= a /\ a < (a \div C) * C + C
      BY <3>1, Quotient
    <3>4. n \in Nat /\ n * C <= a /\ a < n * C + C
      BY <3>1, <3>3, Zenon
    <3>5. n * C \in Nat
      BY <3>4
    <3> QED
      BY <2>2, <3>2, <3>4, <3>5
  <2> QED
    BY <2>1, <2>2
<1>2. n # 0
  <2> SUFFICES ASSUME n = 0 PROVE FALSE
    OBVIOUS
  <2>1. n * C = 0
    BY <1>1
  <2> QED
    BY <1>1, <2>1
<1>3. ASSUME NEW i \in 0..n - 1
      PROVE  i * C \in Nat /\ i * C <= L /\ (i > 0 => i * C < L)
  <2>1. i \in Nat /\ i < n
    BY <1>1
  <2>2. i * C \in Nat /\ i * C + C <= n * C
    BY <1>1, <2>1, Multiples
  <2>3. CASE L = 0
    <3>1. i = 0
      BY <1>1, <2>1, <2>3
    <3>2. i * C = 0
      BY <3>1
    <3> QED
      BY <2>3, <3>1, <3>2
  <2>4. CASE L > 0
    BY <1>1, <2>2, <2>4
  <2> QED
    BY <2>3, <2>4
<1> QED
  BY <1>1, <1>2, <1>3

-----------------------------------------------------------------------------
(* Sequences.                                                              *)

LEMMA FrontLastFacts ==
  ASSUME NEW S, NEW s \in Seq(S), s # <<>>
  PROVE  /\ Front(s) \in Seq(S) /\ Len(Front(s)) = Len(s) - 1
         /\ \A i \in 1..Len(s) - 1 : Front(s)[i] = s[i]
         /\ Last(s) \in S /\ Last(s) = s[Len(s)]
<1>1. Len(s) \in Nat \ {0} /\ \A i \in 1..Len(s) : s[i] \in S
  BY EmptySeq, LenProperties, ElementOfSeq, Zenon
<1>2. Len(s) - 1 \in Nat /\ Len(s) - 1 <= Len(s)
  BY <1>1
<1>3. Front(s) = [i \in 1..Len(s) - 1 |-> s[i]]
  BY <1>1 DEF Front
<1>4. \A i \in 1..Len(s) - 1 : s[i] \in S
  BY <1>1
<1>5. Front(s) \in Seq(S) /\ Len(Front(s)) = Len(s) - 1
  BY <1>2, <1>3, <1>4
<1> QED
  BY <1>1, <1>3, <1>5 DEF Last

\* Replacing the last element leaves the others.
LEMMA LastReplaced ==
  ASSUME NEW S, NEW s \in Seq(S), s # <<>>, NEW f \in S
  PROVE  LET t == Append(Front(s), f) IN
         /\ t \in Seq(S) /\ t # <<>> /\ Len(t) = Len(s) /\ Last(t) = f
         /\ \A i \in 1..Len(t) - 1 : t[i] = s[i]
<1> DEFINE t == Append(Front(s), f)
<1>1. /\ Front(s) \in Seq(S) /\ Len(Front(s)) = Len(s) - 1
      /\ \A i \in 1..Len(s) - 1 : Front(s)[i] = s[i]
  BY FrontLastFacts
<1>2. /\ t \in Seq(S) /\ Len(t) = Len(Front(s)) + 1
      /\ \A i \in 1..Len(Front(s)) : t[i] = Front(s)[i]
      /\ t[Len(Front(s)) + 1] = f
  BY <1>1, AppendProperties
<1>3. Len(s) \in Nat
  BY LenProperties
<1> HIDE DEF t
<1>4. t # <<>> /\ Len(t) = Len(s) /\ t[Len(t)] = f
  BY <1>1, <1>2, <1>3
<1>5. Last(t) = f
  BY <1>4 DEF Last
<1>6. \A i \in 1..Len(t) - 1 : t[i] = s[i]
  BY <1>1, <1>2, <1>3, <1>4
<1> QED
  BY <1>2, <1>4, <1>5, <1>6 DEF t

\* The piece of a sequence between two positions.
LEMMA Cut ==
  ASSUME NEW S, NEW s \in Seq(S), NEW a \in 1..Len(s) + 1, NEW b \in a - 1..Len(s)
  PROVE  /\ SubSeq(s, a, b) \in Seq(S)
         /\ Len(SubSeq(s, a, b)) = b - a + 1
         /\ \A i \in 1..b - a + 1 : SubSeq(s, a, b)[i] = s[a + i - 1]
<1>1. Len(s) \in Nat /\ a \in Int /\ b \in Int
  OBVIOUS
<1>2. \A i \in a..b : s[i] \in S
  OBVIOUS
<1> QED
  BY <1>1, <1>2, SubSeqProperties

\* FlattenSeq joins one sequence after the other.
LEMMA FlattenFacts ==
  ASSUME NEW S, NEW q \in Seq(Seq(S)), Len(q) > 0
  PROVE  \E f \in [1..Len(q) -> Seq(S)] :
           /\ \A i \in 1..Len(q) : f[i] = IF i = 1 THEN q[i] ELSE f[i - 1] \o q[i]
           /\ FlattenSeq(q) = f[Len(q)]
<1> DEFINE Joined(f, i) == IF i = 1 THEN q[i] ELSE f[i - 1] \o q[i]
           Has == {n \in Nat : n < Len(q) =>
                     \E f : f = [i \in 1..n + 1 |-> Joined(f, i)]}
<1>1. Len(q) \in Nat /\ \A i \in 1..Len(q) : q[i] \in Seq(S)
  OBVIOUS
<1>2. 0 \in Has
  <2> DEFINE g == [i \in 1..1 |-> q[i]]
  <2>1. \A i \in 1..1 : Joined(g, i) = q[i]
    OBVIOUS
  <2>2. g = [i \in 1..0 + 1 |-> Joined(g, i)]
    <3> HIDE DEF Joined
    <3> QED BY <2>1
  <2>3. \E f : f = [i \in 1..0 + 1 |-> Joined(f, i)]
    <3> HIDE DEF g, Joined
    <3> QED BY <2>2
  <2> QED
    BY <2>3
<1>3. ASSUME NEW n \in Has PROVE n + 1 \in Has
  <2>1. n \in Nat
    OBVIOUS
  <2> SUFFICES ASSUME n + 1 < Len(q)
               PROVE  \E f : f = [i \in 1..n + 1 + 1 |-> Joined(f, i)]
    <3> HIDE DEF Joined
    <3> QED BY <2>1
  <2>2. n < Len(q)
    BY <1>1, <2>1
  <2>3. PICK f : f = [i \in 1..n + 1 |-> Joined(f, i)]
    BY <2>2
  <2> DEFINE g == [i \in 1..n + 1 + 1 |-> IF i <= n + 1 THEN f[i] ELSE f[n + 1] \o q[n + 2]]
  <2>4. \A i \in 1..n + 1 : f[i] = Joined(f, i)
    <3> HIDE DEF Joined
    <3> QED BY <2>3
  <2>5. \A i \in 1..n + 1 : g[i] = f[i]
    BY <2>1
  <2>6. g[n + 2] = f[n + 1] \o q[n + 2]
    <3>1. n + 2 \in 1..n + 1 + 1 /\ ~(n + 2 <= n + 1)
      BY <2>1
    <3> QED
      BY <3>1
  <2>7. ASSUME NEW i \in 1..n + 1 + 1 PROVE g[i] = Joined(g, i)
    <3> HIDE DEF g
    <3>1. CASE i = 1
      <4>1. i \in 1..n + 1
        BY <2>1, <3>1
      <4>2. g[i] = f[i] /\ f[i] = Joined(f, i)
        <5> HIDE DEF Joined
        <5> QED BY <2>4, <2>5, <4>1
      <4> QED
        BY <3>1, <4>2
    <3>2. CASE i > 1 /\ i <= n + 1
      <4>1. i \in 1..n + 1 /\ i - 1 \in 1..n + 1
        BY <2>1, <3>2
      <4> QED
        BY <2>4, <2>5, <3>2, <4>1
    <3>3. CASE i = n + 2
      <4>1. i - 1 = n + 1 /\ i # 1 /\ n + 1 \in 1..n + 1
        BY <2>1, <3>3
      <4> QED
        BY <2>5, <2>6, <3>3, <4>1
    <3> QED
      BY <2>1, <3>1, <3>2, <3>3
  <2>8. g = [i \in 1..n + 1 + 1 |-> Joined(g, i)]
    <3> HIDE DEF Joined
    <3> QED BY <2>7
  <2> HIDE DEF g, Joined
  <2> QED
    BY <2>8
<1>4. Len(q) - 1 \in Has
  <2> HIDE DEF Has
  <2>1. Has \in SUBSET Nat
    BY DEF Has
  <2>2. Has = Nat
    BY <1>2, <1>3, <2>1, Induction
  <2> QED
    BY <1>1, <2>2
<1>5. \E f : f = [i \in 1..Len(q) |-> Joined(f, i)]
  <2>1. Len(q) - 1 < Len(q) /\ Len(q) - 1 + 1 = Len(q)
    BY <1>1
  <2>2. \E f : f = [i \in 1..Len(q) - 1 + 1 |-> Joined(f, i)]
    <3> HIDE DEF Joined
    <3> QED BY <1>4, <2>1
  <2> HIDE DEF Joined
  <2> QED
    BY <2>1, <2>2
<1> DEFINE c == CHOOSE f : f = [i \in 1..Len(q) |-> Joined(f, i)]
<1>6. c = [i \in 1..Len(q) |-> Joined(c, i)]
  <2> HIDE DEF Joined
  <2> QED BY <1>5
<1>7. FlattenSeq(q) = c[Len(q)]
  BY <1>1 DEF FlattenSeq
<1> HIDE DEF c
<1>8. \A i \in 1..Len(q) : c[i] = Joined(c, i)
  <2> HIDE DEF Joined
  <2> QED BY <1>6
<1> DEFINE Typed == {n \in Nat : n < Len(q) => c[n + 1] \in Seq(S)}
<1>9. 0 \in Typed
  <2>1. 1 \in 1..Len(q)
    BY <1>1
  <2> QED
    BY <1>1, <1>8, <2>1
<1>10. ASSUME NEW n \in Typed PROVE n + 1 \in Typed
  <2>1. n \in Nat
    OBVIOUS
  <2> SUFFICES ASSUME n + 1 < Len(q) PROVE c[n + 2] \in Seq(S)
    BY <2>1
  <2>2. n + 2 \in 1..Len(q) /\ n + 2 # 1 /\ n + 2 - 1 = n + 1 /\ n < Len(q)
    BY <1>1, <2>1
  <2>3. c[n + 2] = c[n + 1] \o q[n + 2]
    <3>1. c[n + 2] = Joined(c, n + 2)
      <4> HIDE DEF Joined
      <4> QED BY <1>8, <2>2
    <3>2. PICK k \in Nat : k = n + 2
      BY <2>1
    <3>3. k # 1 /\ k - 1 = n + 1
      BY <2>1, <3>2
    <3>4. Joined(c, k) = c[k - 1] \o q[k]
      BY <3>3
    <3> QED
      BY <3>1, <3>2, <3>3, <3>4
  <2>4. c[n + 1] \in Seq(S) /\ q[n + 2] \in Seq(S)
    BY <1>1, <2>2
  <2> QED
    BY <2>3, <2>4, ConcatProperties
<1>11. Typed = Nat
  <2> HIDE DEF Typed
  <2>1. Typed \in SUBSET Nat
    BY DEF Typed
  <2> QED
    BY <1>9, <1>10, <2>1, Induction
<1>12. \A i \in 1..Len(q) : c[i] \in Seq(S)
  <2> TAKE i \in 1..Len(q)
  <2>1. i - 1 \in Nat /\ i - 1 < Len(q) /\ i - 1 + 1 = i
    BY <1>1
  <2>2. i - 1 \in Typed
    BY <1>11, <2>1
  <2> QED
    BY <2>1, <2>2
<1>13. c \in [1..Len(q) -> Seq(S)]
  <2>1. c = [i \in 1..Len(q) |-> c[i]]
    <3> HIDE DEF Joined
    <3> QED BY <1>6, <1>8
  <2> QED
    BY <1>12, <2>1
<1> QED
  BY <1>7, <1>8, <1>13

LEMMA FlattenType ==
  ASSUME NEW S, NEW q \in Seq(Seq(S))
  PROVE  FlattenSeq(q) \in Seq(S)
<1>1. CASE Len(q) = 0
  <2>1. q = <<>>
    BY <1>1, EmptySeq
  <2>2. FlattenSeq(q) = <<>>
    BY <1>1, <2>1 DEF FlattenSeq
  <2> QED
    BY <2>2, EmptySeq
<1>2. CASE Len(q) > 0
  <2>1. PICK f \in [1..Len(q) -> Seq(S)] : FlattenSeq(q) = f[Len(q)]
    BY <1>2, FlattenFacts
  <2>2. Len(q) \in 1..Len(q)
    BY <1>2
  <2> QED
    BY <2>1, <2>2
<1>3. Len(q) \in Nat
  OBVIOUS
<1> QED
  BY <1>1, <1>2, <1>3

\* Joining one-element sequences gives the sequence of the elements.
LEMMA FlattenSingles ==
  ASSUME NEW S, NEW b \in Seq(S)
  PROVE  FlattenSeq([j \in DOMAIN b |-> <<b[j]>>]) = b
<1> DEFINE q == [j \in DOMAIN b |-> <<b[j]>>]
<1>1. /\ Len(b) \in Nat /\ DOMAIN b = 1..Len(b)
      /\ \A j \in 1..Len(b) : b[j] \in S
  OBVIOUS
<1>2. \A j \in 1..Len(b) : <<b[j]>> \in Seq(S)
  BY <1>1
<1>3. q \in Seq(Seq(S)) /\ Len(q) = Len(b)
  <2>1. q \in [1..Len(b) -> Seq(S)]
    BY <1>1, <1>2
  <2> HIDE DEF q
  <2> QED
    BY <1>1, <2>1
<1>4. \A j \in 1..Len(b) : q[j] = <<b[j]>>
  BY <1>1
<1> HIDE DEF q
<1>5. CASE Len(b) = 0
  <2>1. q = <<>> /\ b = <<>>
    BY <1>3, <1>5, EmptySeq
  <2>2. FlattenSeq(q) = <<>>
    BY <2>1, <1>3, <1>5 DEF FlattenSeq
  <2> QED
    BY <2>1, <2>2 DEF q
<1>6. CASE Len(b) > 0
  <2>1. PICK f \in [1..Len(b) -> Seq(S)] :
          /\ \A i \in 1..Len(b) : f[i] = IF i = 1 THEN q[i] ELSE f[i - 1] \o q[i]
          /\ FlattenSeq(q) = f[Len(b)]
    BY <1>3, <1>6, FlattenFacts
  <2> DEFINE Good == {n \in Nat : n < Len(b) =>
                        /\ Len(f[n + 1]) = n + 1
                        /\ \A j \in 1..n + 1 : f[n + 1][j] = b[j]}
  <2>2. 0 \in Good
    <3>1. 1 \in 1..Len(b)
      BY <1>1, <1>6
    <3>2. f[1] = <<b[1]>>
      BY <1>4, <2>1, <3>1
    <3>3. Len(f[1]) = 1 /\ f[1][1] = b[1]
      BY <3>2
    <3>4. 0 + 1 = 1 /\ \A j \in 1..1 : j = 1
      OBVIOUS
    <3> QED
      BY <3>3, <3>4
  <2>3. ASSUME NEW n \in Good PROVE n + 1 \in Good
    <3>1. n \in Nat
      OBVIOUS
    <3> SUFFICES ASSUME n + 1 < Len(b)
                 PROVE  /\ Len(f[n + 1 + 1]) = n + 1 + 1
                        /\ \A j \in 1..n + 1 + 1 : f[n + 1 + 1][j] = b[j]
      BY <3>1
    <3>2. /\ n + 2 \in 1..Len(b) /\ n + 1 \in 1..Len(b) /\ n < Len(b)
          /\ n + 2 # 1 /\ n + 2 - 1 = n + 1 /\ n + 1 + 1 = n + 2
      BY <1>1, <3>1
    <3>3. f[n + 2] = f[n + 1] \o <<b[n + 2]>>
      <4>1. PICK k \in Nat : k = n + 2
        BY <3>1
      <4>2. k # 1 /\ k - 1 = n + 1 /\ k \in 1..Len(b)
        BY <3>1, <3>2, <4>1
      <4>3. f[k] = f[k - 1] \o q[k] /\ q[k] = <<b[k]>>
        BY <1>4, <2>1, <4>2
      <4> QED
        BY <4>1, <4>2, <4>3
    <3>4. /\ Len(f[n + 1]) = n + 1 /\ f[n + 1] \in Seq(S)
          /\ \A j \in 1..n + 1 : f[n + 1][j] = b[j]
      BY <2>1, <3>2
    <3>5. b[n + 2] \in S
      BY <1>1, <3>2
    <3> HIDE DEF Good
    <3> QED
      BY <3>1, <3>2, <3>3, <3>4, <3>5
  <2>4. Good = Nat
    <3>1. Good \in SUBSET Nat
      OBVIOUS
    <3> HIDE DEF Good
    <3> QED BY <2>2, <2>3, <3>1, Induction
  <2>5. Len(b) - 1 \in Nat /\ Len(b) - 1 < Len(b) /\ Len(b) - 1 + 1 = Len(b)
    BY <1>1, <1>6
  <2>6. Len(b) - 1 \in Good
    BY <2>4, <2>5
  <2>7. /\ Len(f[Len(b)]) = Len(b)
        /\ \A j \in 1..Len(b) : f[Len(b)][j] = b[j]
    BY <2>5, <2>6
  <2>8. f[Len(b)] \in Seq(S)
    BY <1>1, <1>6, <2>1
  <2>9. f[Len(b)] = b
    BY <2>7, <2>8, SeqEqual
  <2> QED
    BY <2>1, <2>9 DEF q
<1> QED
  BY <1>1, <1>5, <1>6
=============================================================================
