----------------------------- MODULE Sdp_proofs -----------------------------
(***************************************************************************)
(* Proofs about Sdp: which descriptions are accepted, what is read of them *)
(* and what may then be sent, for descriptions of any lines.               *)
(***************************************************************************)
EXTENDS Sdp, SequenceLemmas

-----------------------------------------------------------------------------
(* The invariant: where the reader is in the description.                  *)

\* How many lines have been read.
Pos == Len(input) - Len(lines)
Type(i) == input[i].type

Parts ==
  {"v", "o", "s", "preTiming", "timing", "preMedia", "media", "rejected"}

TypeInv ==
  /\ input \in Seq(Lines) \ {<<>>}
  /\ \A d \in local : d \in Locals /\ input = Written(d)
  /\ part \in Parts
  /\ part # "rejected" =>
       /\ Len(lines) \in 0..Len(input)
       /\ lines = SubSeq(input, Pos + 1, Len(input))

Heading(n) ==
  /\ Len(input) >= 4
  /\ \A i \in 1..n : Type(i) = <<"v", "o", "s">>[i]

\* The first line of the times is t.
TimesAt(t) ==
  /\ t \in 4..Len(input) /\ Type(t) = "t"
  /\ \A i \in 4..t - 1 : Type(i) \in PreTimingTypes

\* The lines from t to q are the times.
Times(t, q) ==
  /\ TimesAt(t) /\ q \in t..Len(input)
  /\ \A i \in t..q : Type(i) \in {"t", "r"}
  /\ q < Len(input) => Type(q + 1) \notin {"t", "r"}

\* The reader is in the times that begin at t, or behind those from t to q.
InTimes(t) ==
  /\ TimesAt(t)
  /\ Pos = t - 1 \/ (Pos >= t /\ \A i \in t..Pos : Type(i) \in {"t", "r"})
  /\ Pos >= t /\ lines # <<>> => Type(Pos + 1) # "r"
Behind(t, q) == Times(t, q) /\ \A i \in q + 1..Pos : Type(i) \in PreMediaTypes

PrefixInv ==
  /\ part = "v" => Pos = 0
  /\ part = "o" => Pos = 1 /\ Heading(1)
  /\ part = "s" => Pos = 2 /\ Heading(2)
  /\ part = "preTiming" =>
       Pos >= 3 /\ Heading(3) /\ \A i \in 4..Pos : Type(i) \in PreTimingTypes
  /\ part = "timing" => Heading(3) /\ \E t \in 4..Len(input) : InTimes(t)
  /\ part = "preMedia" =>
       Heading(3) /\ \E t \in 4..Len(input) : \E q \in t..Pos : Behind(t, q)
  /\ part = "media" => PrefixOK
  /\ part = "rejected" => ~PrefixOK

\* The media that have been read are the first sections, in their order.
SectionRead(i) == ReadMedia(input[i], SubSeq(input, i + 1, SectionEnd(i)))
ReadAt(at) ==
  /\ DOMAIN at = DOMAIN media
  /\ \A k \in DOMAIN at : at[k] \in Sections /\ at[k] <= Pos /\ media[k] = SectionRead(at[k])
  /\ \A k, l \in DOMAIN at : k < l => at[k] < at[l]
  /\ \A i \in Sections : i <= Pos => \E k \in DOMAIN at : at[k] = i

MediaInv ==
  /\ media \in Seq({SectionRead(i) : i \in Sections})
  /\ part # "media" => media = <<>>
  /\ part = "media" =>
       /\ lines # <<>> => lines[1].type = "m"
       /\ \E at \in Seq(Nat) : ReadAt(at)

OutcomeInv ==
  /\ outcome \in {"none", "threw", "success", "failure"}
  /\ outcome = "threw" =>
       (part = "rejected" \/ (part = "media" /\ lines = <<>>)) /\ Chosen(media) = 0
  /\ outcome \in {"success", "failure"} =>
       /\ part = "media" /\ lines = <<>> /\ Chosen(media) # 0
       /\ (outcome = "success") <=> "path" \in DOMAIN media[Chosen(media)].attributes
       /\ outcome = "success" => remote = media[Chosen(media)].attributes

SdpInv == TypeInv /\ PrefixInv /\ MediaInv /\ OutcomeInv

-----------------------------------------------------------------------------
(* Pieces of sequences.                                                    *)

LEMMA CutOfCut ==
  ASSUME NEW S, NEW s \in Seq(S), NEW a \in 1..Len(s) + 1, NEW b \in a - 1..Len(s),
         NEW i \in 1..b - a + 2, NEW j \in i - 1..b - a + 1
  PROVE  SubSeq(SubSeq(s, a, b), i, j) = SubSeq(s, a + i - 1, a + j - 1)
<1> DEFINE t == SubSeq(s, a, b)
           u == SubSeq(t, i, j)
           v == SubSeq(s, a + i - 1, a + j - 1)
<1>1. /\ t \in Seq(S) /\ Len(t) = b - a + 1
      /\ \A k \in 1..b - a + 1 : t[k] = s[a + k - 1]
  BY Cut
<1>2. Len(s) \in Nat /\ a \in Nat /\ b \in Int /\ i \in Nat /\ j \in Int
  OBVIOUS
<1> HIDE DEF t
<1>3. /\ u \in Seq(S) /\ Len(u) = j - i + 1
      /\ \A k \in 1..j - i + 1 : u[k] = t[i + k - 1]
  <2>1. i \in 1..Len(t) + 1 /\ j \in i - 1..Len(t)
    BY <1>1, <1>2
  <2> QED
    BY <1>1, <2>1, Cut
<1>4. /\ v \in Seq(S) /\ Len(v) = j - i + 1
      /\ \A k \in 1..j - i + 1 : v[k] = s[a + i - 1 + k - 1]
  <2>1. /\ a + i - 1 \in 1..Len(s) + 1 /\ a + j - 1 \in a + i - 1 - 1..Len(s)
        /\ a + j - 1 - (a + i - 1) + 1 = j - i + 1
    BY <1>2
  <2> HIDE DEF v
  <2>2. /\ SubSeq(s, a + i - 1, a + j - 1) \in Seq(S)
        /\ Len(SubSeq(s, a + i - 1, a + j - 1)) = a + j - 1 - (a + i - 1) + 1
        /\ \A k \in 1..a + j - 1 - (a + i - 1) + 1 :
             SubSeq(s, a + i - 1, a + j - 1)[k] = s[a + i - 1 + k - 1]
    BY <2>1, Cut
  <2> QED
    BY <2>1, <2>2 DEF v
<1> HIDE DEF u, v
<1>5. ASSUME NEW k \in 1..j - i + 1 PROVE u[k] = v[k]
  <2>1. i + k - 1 \in 1..b - a + 1 /\ a + (i + k - 1) - 1 = a + i - 1 + k - 1
    BY <1>2
  <2>2. t[i + k - 1] = s[a + (i + k - 1) - 1]
    BY <1>1, <2>1
  <2> QED
    BY <1>3, <1>4, <2>1, <2>2
<1>6. u = v
  <2>1. Len(u) = Len(v) /\ \A k \in 1..Len(u) : u[k] = v[k]
    BY <1>3, <1>4, <1>5
  <2> QED
    BY <1>3, <1>4, <2>1, SeqEqual
<1> QED
  BY <1>6 DEF u, v, t

\* What UpTo takes of a sequence of lines, and where it ends.
LEMMA UpToFacts ==
  ASSUME NEW s \in Seq(Lines), NEW types
  PROVE  LET n == Len(UpTo(s, types)) IN
         /\ n \in 0..Len(s)
         /\ UpTo(s, types) = SubSeq(s, 1, n)
         /\ \A i \in 1..n : s[i].type \in types
         /\ n < Len(s) => s[n + 1].type \notin types
         /\ After(s, types) = SubSeq(s, n + 1, Len(s))
<1> DEFINE ends == {i \in DOMAIN s : s[i].type \notin types}
           n == Len(UpTo(s, types))
<1>1. Len(s) \in Nat /\ DOMAIN s = 1..Len(s)
  OBVIOUS
<1>2. After(s, types) = SubSeq(s, n + 1, Len(s))
  BY DEF After
<1>3. CASE ends = {}
  <2>1. UpTo(s, types) = s
    BY <1>3 DEF UpTo
  <2>2. SubSeq(s, 1, Len(s)) = s
    BY SubSeqFull
  <2> QED
    BY <1>1, <1>2, <1>3, <2>1, <2>2
<1>4. CASE ends # {}
  <2> DEFINE e == Min(ends)
  <2>1. UpTo(s, types) = SubSeq(s, 1, e - 1)
    BY <1>4 DEF UpTo
  <2>2. ends \in SUBSET Nat
    BY <1>1
  <2>3. e \in ends /\ \A y \in ends : e <= y
    BY <1>4, <2>2, MinOfNaturals
  <2> HIDE DEF e
  <2>4. e \in 1..Len(s) /\ e - 1 \in 1 - 1..Len(s) /\ 1 \in 1..Len(s) + 1
    BY <1>1, <2>3
  <2>5. Len(SubSeq(s, 1, e - 1)) = e - 1 - 1 + 1
    BY <2>4, Cut
  <2>6. n = e - 1
    BY <2>1, <2>4, <2>5
  <2>7. \A i \in 1..e - 1 : s[i].type \in types
    BY <1>1, <2>3, <2>4
  <2>8. s[e].type \notin types
    BY <2>3
  <2> HIDE DEF n, ends
  <2>9. /\ n \in 0..Len(s) /\ n + 1 = e
        /\ UpTo(s, types) = SubSeq(s, 1, n)
        /\ \A i \in 1..n : s[i].type \in types
    BY <2>1, <2>4, <2>6, <2>7
  <2> QED
    BY <1>2, <2>8, <2>9 DEF n
<1> QED
  BY <1>3, <1>4

-----------------------------------------------------------------------------
(* The reader.                                                             *)

\* The lines that are left are those of the description behind the position.
LEMMA Ahead ==
  ASSUME TypeInv, part # "rejected", NEW p, p = Pos
  PROVE  /\ Len(input) \in Nat \ {0} /\ p \in 0..Len(input)
         /\ lines \in Seq(Lines) /\ Len(lines) = Len(input) - p
         /\ \A i \in 1..Len(lines) : lines[i] = input[p + i]
         /\ lines # <<>> <=> p < Len(input)
         /\ lines = SubSeq(input, p + 1, Len(input))
<1>1. Len(input) \in Nat \ {0} /\ input \in Seq(Lines)
  BY EmptySeq DEF TypeInv
<1>2. p \in 0..Len(input) /\ lines = SubSeq(input, p + 1, Len(input))
  BY <1>1 DEF TypeInv, Pos
<1>3. p + 1 \in 1..Len(input) + 1 /\ Len(input) \in p + 1 - 1..Len(input)
      /\ Len(input) - (p + 1) + 1 = Len(input) - p
  BY <1>1, <1>2
<1>4. /\ SubSeq(input, p + 1, Len(input)) \in Seq(Lines)
      /\ Len(SubSeq(input, p + 1, Len(input))) = Len(input) - (p + 1) + 1
      /\ \A i \in 1..Len(input) - (p + 1) + 1 :
           SubSeq(input, p + 1, Len(input))[i] = input[p + 1 + i - 1]
  BY <1>1, <1>3, Cut
<1>5. \A i \in 1..Len(lines) : p + 1 + i - 1 = p + i
  BY <1>1, <1>2
<1>6. lines \in Seq(Lines) /\ Len(lines) = Len(input) - p
      /\ \A i \in 1..Len(lines) : lines[i] = input[p + i]
  BY <1>2, <1>3, <1>4, <1>5
<1>7. lines # <<>> <=> Len(lines) # 0
  BY <1>6, EmptySeq
<1> QED
  BY <1>1, <1>2, <1>6, <1>7

LEMMA CutRest ==
  ASSUME NEW S, NEW s \in Seq(S), NEW a \in 0..Len(s), NEW c \in 0..Len(s) - a
  PROVE  /\ SubSeq(SubSeq(s, a + 1, Len(s)), c + 1, Len(s) - a) = SubSeq(s, a + c + 1, Len(s))
         /\ SubSeq(SubSeq(s, a + 1, Len(s)), 1, c) = SubSeq(s, a + 1, a + c)
         /\ Len(SubSeq(s, a + c + 1, Len(s))) = Len(s) - (a + c)
<1> DEFINE n == Len(s)
<1>1. n \in Nat /\ a \in 0..n /\ c \in 0..n - a
  OBVIOUS
<1> HIDE DEF n
<1>2. /\ a + 1 \in 1..n + 1 /\ n \in a + 1 - 1..n
      /\ c + 1 \in 1..n - (a + 1) + 2 /\ n - a \in c + 1 - 1..n - (a + 1) + 1
      /\ a + 1 + (c + 1) - 1 = a + c + 1 /\ a + 1 + (n - a) - 1 = n
  BY <1>1
<1>3. /\ 1 \in 1..n - (a + 1) + 2 /\ c \in 1 - 1..n - (a + 1) + 1
      /\ a + 1 + 1 - 1 = a + 1 /\ a + 1 + c - 1 = a + c
  BY <1>1
<1>4. /\ a + c + 1 \in 1..n + 1 /\ n \in a + c + 1 - 1..n
      /\ n - (a + c + 1) + 1 = n - (a + c)
  BY <1>1
<1>5. SubSeq(SubSeq(s, a + 1, n), c + 1, n - a) = SubSeq(s, a + 1 + (c + 1) - 1, a + 1 + (n - a) - 1)
  <2> DEFINE i == c + 1
             j == n - a
             b == a + 1
  <2>1. b \in 1..n + 1 /\ n \in b - 1..n /\ i \in 1..n - b + 2 /\ j \in i - 1..n - b + 1
    BY <1>2
  <2> HIDE DEF i, j, b
  <2>2. SubSeq(SubSeq(s, b, n), i, j) = SubSeq(s, b + i - 1, b + j - 1)
    BY <2>1, CutOfCut DEF n
  <2> QED
    BY <2>2 DEF i, j, b
<1>6. SubSeq(SubSeq(s, a + 1, n), 1, c) = SubSeq(s, a + 1 + 1 - 1, a + 1 + c - 1)
  <2> DEFINE b == a + 1
  <2>1. b \in 1..n + 1 /\ n \in b - 1..n /\ 1 \in 1..n - b + 2 /\ c \in 1 - 1..n - b + 1
    BY <1>2, <1>3
  <2> HIDE DEF b
  <2>2. SubSeq(SubSeq(s, b, n), 1, c) = SubSeq(s, b + 1 - 1, b + c - 1)
    BY <2>1, CutOfCut DEF n
  <2> QED
    BY <2>2 DEF b
<1>7. Len(SubSeq(s, a + c + 1, n)) = n - (a + c + 1) + 1
  <2> DEFINE b == a + c + 1
  <2>1. b \in 1..n + 1 /\ n \in b - 1..n
    BY <1>4
  <2> HIDE DEF b
  <2>2. Len(SubSeq(s, b, n)) = n - b + 1
    BY <2>1, Cut DEF n
  <2> QED
    BY <2>2 DEF b
<1>8. /\ SubSeq(SubSeq(s, a + 1, n), c + 1, n - a) = SubSeq(s, a + c + 1, n)
      /\ SubSeq(SubSeq(s, a + 1, n), 1, c) = SubSeq(s, a + 1, a + c)
      /\ Len(SubSeq(s, a + c + 1, n)) = n - (a + c)
  BY <1>2, <1>3, <1>4, <1>5, <1>6, <1>7
<1> QED
  BY <1>8 DEF n

\* Reading c lines moves the position by c.
LEMMA Moved ==
  ASSUME TypeInv, part # "rejected", NEW c \in 0..Len(lines), input' = input,
         lines' = SubSeq(lines, c + 1, Len(lines))
  PROVE  /\ Pos' = Pos + c /\ Len(lines') \in 0..Len(input)
         /\ lines' = SubSeq(input, Pos' + 1, Len(input))
<1>1. /\ Len(input) \in Nat \ {0} /\ Pos \in 0..Len(input) /\ input \in Seq(Lines)
      /\ Len(lines) = Len(input) - Pos /\ lines = SubSeq(input, Pos + 1, Len(input))
  BY Ahead DEF TypeInv
<1>2. c \in 0..Len(input) - Pos
  BY <1>1
<1>3. /\ SubSeq(SubSeq(input, Pos + 1, Len(input)), c + 1, Len(input) - Pos)
           = SubSeq(input, Pos + c + 1, Len(input))
      /\ Len(SubSeq(input, Pos + c + 1, Len(input))) = Len(input) - (Pos + c)
  BY <1>1, <1>2, CutRest
<1>4. lines' = SubSeq(input, Pos + c + 1, Len(input))
  BY <1>1, <1>3
<1>5. Len(lines') = Len(input) - (Pos + c)
  BY <1>3, <1>4
<1>6. Pos' = Len(input) - Len(lines')
  BY DEF Pos
<1>7. Pos' = Pos + c /\ Len(lines') \in 0..Len(input)
  <2> DEFINE p == Pos
  <2> HIDE DEF p
  <2>1. p = Pos /\ p \in 0..Len(input)
    BY <1>1 DEF p
  <2> QED
    BY <1>1, <1>2, <1>5, <1>6, <2>1
<1> QED
  BY <1>4, <1>7

\* Where the first line of the media is, or where the description ends.
FirstAt(m) ==
  /\ m \in 1..Len(input) + 1
  /\ m <= Len(input) => Type(m) = "m"
  /\ \A i \in 1..m - 1 : Type(i) # "m"

LEMMA FirstIsMin ==
  ASSUME input \in Seq(Lines)
  PROVE  \A m : FirstAt(m) <=> m = Min(Sections \cup {Len(input) + 1})
<1> DEFINE n == Len(input)
           T == Sections \cup {n + 1}
<1>1. n \in Nat /\ DOMAIN input = 1..n
  OBVIOUS
<1>2. \A i : i \in Sections <=> i \in 1..n /\ Type(i) = "m"
  BY <1>1 DEF Sections, Type
<1> HIDE DEF n
<1>3. T \in SUBSET Nat /\ T # {}
  BY <1>1, <1>2
<1>4. Min(T) \in T /\ \A y \in T : Min(T) <= y
  BY <1>3, MinOfNaturals
<1>5. FirstAt(Min(T))
  <2>1. Min(T) \in 1..n + 1
    BY <1>1, <1>2, <1>4
  <2>2. Min(T) <= n => Type(Min(T)) = "m"
    BY <1>1, <1>2, <1>4
  <2>3. \A i \in 1..Min(T) - 1 : Type(i) # "m"
    <3> SUFFICES ASSUME NEW i \in 1..Min(T) - 1, Type(i) = "m" PROVE FALSE
      OBVIOUS
    <3>1. i \in 1..n /\ ~(Min(T) <= i)
      BY <1>1, <2>1
    <3> QED
      BY <1>2, <1>4, <3>1
  <2> QED
    BY <2>1, <2>2, <2>3 DEF FirstAt, n
<1>6. ASSUME NEW m, FirstAt(m) PROVE m = Min(T)
  <2>1. m \in 1..n + 1 /\ (m <= n => Type(m) = "m") /\ \A i \in 1..m - 1 : Type(i) # "m"
    BY <1>6 DEF FirstAt, n
  <2>2. m \in T
    BY <1>1, <1>2, <2>1
  <2>3. \A y \in T : m <= y
    BY <1>1, <1>2, <2>1
  <2>4. Min(T) \in Nat /\ m \in Nat /\ Min(T) <= m /\ m <= Min(T)
    BY <1>1, <1>3, <1>4, <2>1, <2>2, <2>3
  <2> QED
    BY <2>4
<1> QED
  BY <1>5, <1>6 DEF n

\* What PrefixOK says, with the two lines it looks for named.
WellFormed(t, m) ==
  /\ FirstAt(m) /\ TimesAt(t) /\ t < m /\ Heading(3)
  /\ \A i \in t..m - 1 :
       /\ Type(i) \in {"t", "r"} \cup PreMediaTypes
       /\ Type(i) \in {"t", "r"} => i = t \/ Type(i - 1) \in {"t", "r"}

LEMMA PrefixMeaning ==
  ASSUME input \in Seq(Lines)
  PROVE  PrefixOK <=> \E t, m \in Nat : WellFormed(t, m)
<1> DEFINE n == Len(input)
           m == Min(Sections \cup {n + 1})
           timings == {t \in 4..m - 1 : input[t].type = "t"}
           e == Min(timings)
           s == SubSeq(input, e, m - 1)
           types == \A i \in DOMAIN s : s[i].type \in {"t", "r"} \cup PreMediaTypes
           Threes == \A i \in 1..3 : input[i].type = <<"v", "o", "s">>[i]
           Before == \A i \in 4..e - 1 : input[i].type \in PreTimingTypes
           Joined == \A i \in e..m - 1 : input[i].type \in {"t", "r"} =>
                       input[i - 1].type \in {"t", "r"} \/ i = e
<1>1. n \in Nat /\ DOMAIN input = 1..n /\ FirstAt(m)
  <2>1. n \in Nat /\ DOMAIN input = 1..n
    OBVIOUS
  <2>2. FirstAt(m)
    <3> HIDE DEF m
    <3> QED BY FirstIsMin DEF m
  <2> QED
    BY <2>1, <2>2
<1>2. PrefixOK <=> m > 4 /\ Threes /\ timings # {} /\ Before /\ types /\ Joined
  BY DEF PrefixOK
<1>3. m \in 1..n + 1
  BY <1>1 DEF FirstAt
<1> HIDE DEF m
<1>4. timings \in SUBSET Nat
  BY <1>3
<1>5. timings # {} => e \in timings /\ \A y \in timings : e <= y
  BY <1>4, MinOfNaturals
<1>6. ASSUME timings # {}
      PROVE  types <=> \A i \in e..m - 1 : Type(i) \in {"t", "r"} \cup PreMediaTypes
  <2>1. e \in 4..m - 1 /\ e \in 1..n + 1 /\ m - 1 \in e - 1..n
    <3>1. e \in timings
      BY <1>5, <1>6
    <3> HIDE DEF e, n
    <3> QED
      BY <1>1, <1>3, <3>1
  <2> HIDE DEF e, n
  <2>2. /\ s \in Seq(Lines) /\ Len(s) = m - 1 - e + 1
        /\ \A i \in 1..m - 1 - e + 1 : s[i] = input[e + i - 1]
    BY <2>1, Cut DEF n
  <2>3. DOMAIN s = 1..m - e
    BY <1>3, <2>1, <2>2
  <2> HIDE DEF s
  <2>4. ASSUME types PROVE \A i \in e..m - 1 : Type(i) \in {"t", "r"} \cup PreMediaTypes
    <3> SUFFICES ASSUME NEW i \in e..m - 1
                 PROVE  Type(i) \in {"t", "r"} \cup PreMediaTypes
      OBVIOUS
    <3>1. i - e + 1 \in 1..m - e /\ i - e + 1 \in 1..m - 1 - e + 1
          /\ e + (i - e + 1) - 1 = i
      BY <1>3, <2>1
    <3>2. s[i - e + 1] = input[i]
      BY <2>2, <3>1
    <3> QED
      BY <2>3, <2>4, <3>1, <3>2 DEF Type
  <2>5. ASSUME \A i \in e..m - 1 : Type(i) \in {"t", "r"} \cup PreMediaTypes PROVE types
    <3> SUFFICES ASSUME NEW i \in DOMAIN s
                 PROVE  s[i].type \in {"t", "r"} \cup PreMediaTypes
      OBVIOUS
    <3>1. e + i - 1 \in e..m - 1 /\ i \in 1..m - 1 - e + 1
      BY <1>3, <2>1, <2>3
    <3>2. s[i] = input[e + i - 1]
      BY <2>2, <3>1
    <3> QED
      BY <2>5, <3>1, <3>2 DEF Type
  <2> HIDE DEF types
  <2> QED
    BY <2>4, <2>5
<1>7. ASSUME PrefixOK PROVE WellFormed(e, m) /\ e \in Nat /\ m \in Nat
  <2>1. e \in 4..m - 1 /\ input[e].type = "t"
    BY <1>2, <1>5, <1>7
  <2>2. TimesAt(e)
    BY <1>1, <1>2, <1>3, <1>7, <2>1 DEF TimesAt, Type
  <2>3. Heading(3)
    BY <1>1, <1>2, <1>3, <1>7 DEF Heading, Type
  <2>4. \A i \in e..m - 1 :
          /\ Type(i) \in {"t", "r"} \cup PreMediaTypes
          /\ Type(i) \in {"t", "r"} => i = e \/ Type(i - 1) \in {"t", "r"}
    <3> HIDE DEF types, e
    <3> QED
      BY <1>2, <1>6, <1>7 DEF Type
  <2> HIDE DEF e
  <2>5. e \in Nat /\ m \in Nat /\ e < m
    BY <1>3, <2>1
  <2>6. FirstAt(m)
    BY <1>1
  <2>7. WellFormed(e, m)
    BY <2>2, <2>3, <2>4, <2>5, <2>6 DEF WellFormed
  <2> QED
    BY <2>5, <2>7
<1>8. ASSUME NEW t, NEW q, WellFormed(t, q) PROVE PrefixOK
  <2>1. q = m
    BY <1>8, FirstIsMin DEF WellFormed, m
  <2>2. TimesAt(t) /\ t < m /\ Heading(3)
    BY <1>8, <2>1 DEF WellFormed
  <2>3. t \in 4..n /\ t \in 4..m - 1 /\ input[t].type = "t" /\ m > 4
    BY <1>1, <1>3, <2>2 DEF TimesAt, Type
  <2>4. \A y \in timings : t <= y
    <3> SUFFICES ASSUME NEW y \in timings, ~(t <= y) PROVE FALSE
      OBVIOUS
    <3>1. y \in 4..t - 1 /\ input[y].type = "t"
      BY <2>3
    <3>2. input[y].type \in PreTimingTypes
      BY <2>2, <3>1 DEF TimesAt, Type
    <3> QED
      BY <3>1, <3>2 DEF PreTimingTypes
  <2>5. timings # {} /\ e = t
    <3>1. t \in timings
      BY <2>3
    <3>2. e \in timings /\ \A y \in timings : e <= y
      BY <1>5, <3>1
    <3> HIDE DEF e
    <3>3. e \in Nat /\ t \in Nat /\ e <= t /\ t <= e
      BY <1>4, <2>4, <3>1, <3>2
    <3> QED
      BY <3>1, <3>3
  <2>6. Threes /\ Before
    <3> HIDE DEF e
    <3> QED BY <2>2, <2>5 DEF Heading, TimesAt, Type
  <2>7. /\ \A i \in e..m - 1 : Type(i) \in {"t", "r"} \cup PreMediaTypes
        /\ Joined
    <3> HIDE DEF e
    <3> QED BY <1>8, <2>1, <2>5 DEF WellFormed, Type
  <2> QED
    BY <1>2, <1>6, <2>3, <2>5, <2>6, <2>7
<1> QED
  BY <1>7, <1>8

-----------------------------------------------------------------------------
(* The steps up to the media.                                              *)

LEMMA TailMoves ==
  ASSUME TypeInv, part # "rejected", lines # <<>>, UNCHANGED <<input, local>>,
         lines' = Tail(lines), part' \in Parts
  PROVE  /\ TypeInv' /\ Pos' = Pos + 1 /\ Pos \in Nat /\ Pos < Len(input)
         /\ lines[1] = input[Pos + 1]
         /\ lines' # <<>> => lines'[1] = input[Pos + 2] /\ Pos + 2 <= Len(input)
<1>1. /\ lines \in Seq(Lines) /\ Len(lines) \in Nat \ {0} /\ Pos \in 0..Len(input)
      /\ Pos < Len(input) /\ Len(input) \in Nat /\ Len(lines) = Len(input) - Pos
      /\ \A i \in 1..Len(lines) : lines[i] = input[Pos + i]
  BY Ahead, EmptySeq
<1>2. Tail(lines) = SubSeq(lines, 2, Len(lines)) /\ 1 \in 0..Len(lines)
  <2>1. Tail(lines) = SubSeq(lines, 2, Len(lines))
    BY <1>1, TailIsSubSeq
  <2> DEFINE k == Len(lines)
  <2>2. k \in Nat \ {0}
    BY <1>1
  <2> HIDE DEF k
  <2>3. 1 \in 0..k
    BY <2>2
  <2> QED
    BY <2>1, <2>3 DEF k
<1>3. /\ Pos' = Pos + 1 /\ Len(lines') \in 0..Len(input)
      /\ lines' = SubSeq(input, Pos' + 1, Len(input))
  <2>1. lines' = SubSeq(lines, 1 + 1, Len(lines))
    BY <1>2
  <2> QED
    BY <1>2, <2>1, Moved
<1>4. TypeInv'
  BY <1>3 DEF TypeInv
<1>5. lines[1] = input[Pos + 1]
  BY <1>1
<1>6. ASSUME lines' # <<>> PROVE lines'[1] = input[Pos + 2] /\ Pos + 2 <= Len(input)
  <2>1. /\ Tail(lines) \in Seq(Lines) /\ Len(Tail(lines)) = Len(lines) - 1
        /\ \A i \in 1..Len(Tail(lines)) : Tail(lines)[i] = lines[i + 1]
    BY <1>1, HeadTailProperties
  <2>2. Len(Tail(lines)) \in Nat \ {0}
    BY <1>6, <2>1, EmptySeq
  <2> DEFINE k == Len(lines)
             p == Pos
             r == Len(Tail(lines))
  <2>3. k \in Nat /\ k >= 2 /\ p \in Nat /\ k = Len(input) - p /\ Len(input) \in Nat
    <3>1. k \in Nat /\ p \in Nat /\ k = Len(input) - p /\ Len(input) \in Nat
      BY <1>1
    <3>2. r = k - 1 /\ r \in Nat \ {0}
      BY <2>1, <2>2
    <3> HIDE DEF k, p, r
    <3>3. k >= 2
      BY <3>1, <3>2
    <3> QED
      BY <3>1, <3>3
  <2>4. Tail(lines)[1] = lines[2] /\ lines[2] = input[p + 2]
    <3>1. 1 \in 1..r
      <4>1. r \in Nat \ {0}
        BY <2>2
      <4> HIDE DEF r
      <4> QED
        BY <4>1
    <3>2. 2 \in 1..k
      <4> HIDE DEF k
      <4> QED BY <2>3
    <3> QED
      BY <1>1, <2>1, <3>1, <3>2
  <2> HIDE DEF k, p
  <2>5. p + 2 <= Len(input)
    BY <2>3
  <2> QED
    BY <2>4, <2>5 DEF p
<1> QED
  BY <1>1, <1>3, <1>4, <1>5, <1>6

LEMMA PrefixStays ==
  ASSUME UNCHANGED input
  PROVE  PrefixOK' <=> PrefixOK
<1> DEFINE OK(s, ms) ==
      LET m == Min(ms \cup {Len(s) + 1})
          types(u) == \A i \in DOMAIN u : u[i].type \in {"t", "r"} \cup PreMediaTypes
          timings == {t \in 4..m - 1 : s[t].type = "t"}
      IN /\ m > 4 /\ \A i \in 1..3 : s[i].type = <<"v", "o", "s">>[i]
         /\ timings # {}
         /\ \A i \in 4 .. Min(timings) - 1 : s[i].type \in PreTimingTypes
         /\ types(SubSeq(s, Min(timings), m - 1))
         /\ \A i \in Min(timings) .. m - 1 : s[i].type \in {"t", "r"} =>
              s[i - 1].type \in {"t", "r"} \/ i = Min(timings)
<1>1. PrefixOK = OK(input, Sections)
  BY Zenon DEF PrefixOK
<1>2. PrefixOK' = OK(input', Sections')
  BY Zenon DEF PrefixOK
<1>3. Sections' = Sections
  BY DEF Sections
<1> HIDE DEF OK
<1> QED
  BY <1>1, <1>2, <1>3

\* Lines after the first three cannot make these well formed.
LEMMA BadHeading ==
  ASSUME input \in Seq(Lines), PrefixOK
  PROVE  Heading(3)
BY PrefixMeaning DEF WellFormed

LEMMA HeadingLonger ==
  ASSUME NEW n \in 0..2, Heading(n), Type(n + 1) = <<"v", "o", "s">>[n + 1]
  PROVE  Heading(n + 1)
BY DEF Heading

LEMMA FixedStep ==
  ASSUME TypeInv, PrefixInv, NEW type, NEW next, FixedLine(type, next),
         <<type, next>> \in {<<"v", "o">>, <<"o", "s">>, <<"s", "preTiming">>}
  PROVE  TypeInv' /\ PrefixInv'
<1>1. /\ part = type /\ lines' = Tail(lines) /\ UNCHANGED <<input, local>>
      /\ part' = IF lines[1].type = type /\ (type = "v" => Len(lines) >= 4)
                 THEN next ELSE "rejected"
  BY DEF FixedLine, Reads, Keep
<1>2. part # "rejected" /\ part' \in Parts
  BY <1>1 DEF Parts
<1>3. input \in Seq(Lines) /\ Len(input) \in Nat \ {0}
  BY EmptySeq DEF TypeInv
<1>4. PICK n \in 0..2 : Pos = n /\ type = <<"v", "o", "s">>[n + 1] /\ (n > 0 => Heading(n))
                       /\ next = <<"o", "s", "preTiming">>[n + 1]
  <2>1. CASE type = "v" /\ next = "o"
    BY <1>1, <2>1 DEF PrefixInv
  <2>2. CASE type = "o" /\ next = "s"
    BY <1>1, <2>2 DEF PrefixInv
  <2>3. CASE type = "s" /\ next = "preTiming"
    BY <1>1, <2>3 DEF PrefixInv
  <2> QED
    BY <2>1, <2>2, <2>3
<1>5. lines # <<>>
  <2>1. n < Len(input)
    BY <1>3, <1>4 DEF Heading
  <2> QED
    BY <1>2, <1>4, <2>1, Ahead
<1>6. TypeInv' /\ Pos' = n + 1 /\ lines[1] = input[n + 1]
  BY <1>1, <1>2, <1>4, <1>5, TailMoves
<1>7. CASE part' = "rejected"
  <2>1. ~Heading(3)
    <3>1. CASE lines[1].type # type
      BY <1>4, <1>6, <3>1 DEF Heading, Type
    <3>2. CASE type = "v" /\ ~(Len(lines) >= 4)
      <4>1. n = 0
        BY <1>4, <3>2
      <4>2. Len(lines) = Len(input)
        BY <1>2, <1>3, <1>4, <4>1, Ahead
      <4> QED
        BY <3>2, <4>2 DEF Heading
    <3>3. next # "rejected"
      BY <1>4
    <3> QED
      BY <1>1, <1>7, <3>1, <3>2, <3>3
  <2>2. ~PrefixOK
    BY <1>3, <2>1, BadHeading
  <2>3. ~PrefixOK'
    BY <1>1, <2>2, PrefixStays
  <2> QED
    BY <1>6, <1>7, <2>3 DEF PrefixInv
<1>8. CASE part' = next /\ part' # "rejected"
  <2>1. Heading(n + 1)
    <3>1. lines[1].type = type /\ (type = "v" => Len(lines) >= 4)
      BY <1>1, <1>8
    <3>2. Type(n + 1) = <<"v", "o", "s">>[n + 1]
      BY <1>4, <1>6, <3>1 DEF Type
    <3>3. CASE n = 0
      <4>1. type = "v" /\ Len(lines) = Len(input)
        BY <1>2, <1>3, <1>4, <3>3, Ahead
      <4> QED
        BY <3>1, <3>2, <3>3, <4>1 DEF Heading
    <3>4. CASE n > 0
      BY <1>4, <3>2, <3>4, HeadingLonger
    <3> QED
      BY <3>3, <3>4
  <2>2. Heading(n + 1)'
    BY <1>1, <2>1 DEF Heading, Type
  <2>3. n = 2 => \A i \in 4..Pos' : Type(i)' \in PreTimingTypes
    BY <1>6
  <2> QED
    BY <1>4, <1>6, <1>8, <2>2, <2>3 DEF PrefixInv
<1> QED
  BY <1>1, <1>7, <1>8

LEMMA PreTimingStep ==
  ASSUME TypeInv, PrefixInv, PreTimingLine \/ PreTimingEnds
  PROVE  TypeInv' /\ PrefixInv'
<1>1. /\ part = "preTiming" /\ UNCHANGED <<input, local>>
      /\ Pos >= 3 /\ Heading(3) /\ \A i \in 4..Pos : Type(i) \in PreTimingTypes
      /\ input \in Seq(Lines)
  BY DEF PreTimingLine, PreTimingEnds, Reads, Keep, PrefixInv, TypeInv
<1>2. Len(input) \in Nat /\ Pos \in 0..Len(input) /\ (lines # <<>> <=> Pos < Len(input))
  BY <1>1, Ahead
<1>3. CASE PreTimingLine
  <2>1. /\ lines # <<>> /\ lines[1].type # "t" /\ lines' = Tail(lines)
        /\ part' = IF lines[1].type \in PreTimingTypes THEN part ELSE "rejected"
    BY <1>3 DEF PreTimingLine
  <2>2. TypeInv' /\ Pos' = Pos + 1 /\ Pos < Len(input) /\ lines[1] = input[Pos + 1]
    BY <1>1, <2>1, TailMoves DEF Parts
  <2>3. CASE lines[1].type \in PreTimingTypes
    <3>1. \A i \in 4..Pos + 1 : Type(i) \in PreTimingTypes
      BY <1>1, <1>2, <2>2, <2>3 DEF Type
    <3>2. \A i \in 4..Pos' : Type(i)' \in PreTimingTypes
      BY <1>1, <2>2, <3>1 DEF Type
    <3>3. Heading(3)' /\ Pos' >= 3
      BY <1>1, <1>2, <2>2 DEF Heading, Type
    <3> QED
      BY <1>1, <2>1, <2>2, <2>3, <3>2, <3>3 DEF PrefixInv
  <2>4. CASE lines[1].type \notin PreTimingTypes
    <3>1. ~PrefixOK
      <4> SUFFICES ASSUME PrefixOK PROVE FALSE
        OBVIOUS
      <4>1. PICK t \in Nat : TimesAt(t)
        BY <1>1, PrefixMeaning DEF WellFormed
      <4>2. t \in 4..Len(input) /\ Type(t) = "t" /\ \A i \in 4..t - 1 : Type(i) \in PreTimingTypes
        BY <4>1 DEF TimesAt
      <4>3. ~(t <= Pos)
        BY <1>1, <1>2, <4>2 DEF PreTimingTypes
      <4>4. t # Pos + 1
        BY <2>1, <2>2, <4>2 DEF Type
      <4>5. Pos + 1 \in 4..t - 1
        BY <1>1, <1>2, <4>2, <4>3, <4>4
      <4> QED
        BY <2>2, <2>4, <4>2, <4>5 DEF Type
    <3>2. ~PrefixOK'
      BY <1>1, <3>1, PrefixStays
    <3> QED
      BY <2>1, <2>2, <2>4, <3>2 DEF PrefixInv
  <2> QED
    BY <2>3, <2>4
<1>4. CASE PreTimingEnds
  <2>1. /\ lines' = lines /\ Pos' = Pos
        /\ lines # <<>> => lines[1].type = "t"
        /\ part' = IF lines = <<>> THEN "rejected" ELSE "timing"
    BY <1>1, <1>4 DEF PreTimingEnds, Pos
  <2>2. TypeInv'
    BY <1>1, <2>1 DEF TypeInv, Parts
  <2>3. CASE lines = <<>>
    <3>1. ~PrefixOK
      <4> SUFFICES ASSUME PrefixOK PROVE FALSE
        OBVIOUS
      <4>1. PICK t \in Nat : TimesAt(t)
        BY <1>1, PrefixMeaning DEF WellFormed
      <4>2. t \in 4..Len(input) /\ Type(t) = "t"
        BY <4>1 DEF TimesAt
      <4>3. t \in 4..Pos
        BY <1>2, <2>3, <4>2
      <4> QED
        BY <1>1, <4>2, <4>3 DEF PreTimingTypes
    <3>2. ~PrefixOK'
      BY <1>1, <3>1, PrefixStays
    <3> QED
      BY <2>1, <2>2, <2>3, <3>2 DEF PrefixInv
  <2>4. CASE lines # <<>>
    <3>1. lines[1] = input[Pos + 1]
      <4>1. /\ \A i \in 1..Len(lines) : lines[i] = input[Pos + i]
            /\ Len(lines) \in Nat \ {0}
        BY <1>1, <2>4, Ahead, EmptySeq
      <4> QED
        BY <4>1
    <3>2. TimesAt(Pos + 1) /\ Pos + 1 \in 4..Len(input)
      BY <1>1, <1>2, <2>1, <2>4, <3>1 DEF TimesAt, Type
    <3>3. InTimes(Pos + 1)
      BY <1>2, <3>2 DEF InTimes
    <3>4. InTimes(Pos + 1)'
      BY <1>1, <2>1, <3>3 DEF InTimes, TimesAt, Type
    <3>5. Heading(3)'
      BY <1>1 DEF Heading, Type
    <3>6. \E t \in 4..Len(input') : InTimes(t)'
      BY <1>1, <2>1, <3>2, <3>4
    <3> QED
      BY <2>1, <2>2, <2>4, <3>5, <3>6 DEF PrefixInv
  <2> QED
    BY <2>3, <2>4
<1> QED
  BY <1>3, <1>4

\* Reading a line and those behind it whose types are among these.
LEMMA Skipped ==
  ASSUME TypeInv, part # "rejected", lines # <<>>, UNCHANGED <<input, local>>,
         NEW types, lines' = After(Tail(lines), types), part' \in Parts
  PROVE  LET u == UpTo(Tail(lines), types) IN
         /\ TypeInv' /\ Pos \in Nat /\ Pos < Len(input) /\ lines[1] = input[Pos + 1]
         /\ Len(u) \in Nat /\ Pos' = Pos + 1 + Len(u) /\ Pos' <= Len(input)
         /\ u = SubSeq(input, Pos + 2, Pos')
         /\ \A i \in Pos + 2..Pos' : Type(i) \in types
         /\ lines' # <<>> <=> Pos' < Len(input)
         /\ lines' # <<>> => lines'[1] = input[Pos' + 1] /\ Type(Pos' + 1) \notin types
<1> DEFINE p == Pos
           n == Len(input)
           t == Tail(lines)
           u == UpTo(t, types)
           k == Len(u)
<1>1. /\ lines \in Seq(Lines) /\ Len(lines) \in Nat \ {0} /\ p \in 0..n /\ p < n
      /\ n \in Nat /\ Len(lines) = n - p /\ lines = SubSeq(input, p + 1, n)
      /\ \A i \in 1..Len(lines) : lines[i] = input[p + i]
      /\ input \in Seq(Lines)
  BY Ahead, EmptySeq DEF TypeInv
<1>2. /\ t \in Seq(Lines) /\ Len(t) = Len(lines) - 1
      /\ \A i \in 1..Len(t) : t[i] = lines[i + 1]
      /\ t = SubSeq(lines, 2, Len(lines))
  BY <1>1, HeadTailProperties, TailIsSubSeq
<1>3. /\ k \in 0..Len(t) /\ u = SubSeq(t, 1, k)
      /\ \A i \in 1..k : t[i].type \in types
      /\ k < Len(t) => t[k + 1].type \notin types
      /\ lines' = SubSeq(t, k + 1, Len(t))
  BY <1>2, UpToFacts
<1>4. lines[1] = input[p + 1]
  BY <1>1
<1> HIDE DEF p, t, u, k
<1> HIDE DEF n
<1>5. Len(t) = n - (p + 1) /\ p + 1 \in 0..n /\ k \in 0..n - (p + 1) /\ 1 \in 0..n - p
  BY <1>1, <1>2, <1>3
<1>6. t = SubSeq(input, p + 1 + 1, n)
  <2>1. SubSeq(SubSeq(input, p + 1, n), 1 + 1, n - p) = SubSeq(input, p + 1 + 1, n)
    BY <1>1, <1>5, CutRest DEF n
  <2>2. SubSeq(lines, 2, Len(lines)) = SubSeq(SubSeq(input, p + 1, n), 1 + 1, n - p)
    BY <1>1
  <2> QED
    BY <1>2, <2>1, <2>2
<1>7. \A i \in 1..n - (p + 1) : t[i] = input[p + 1 + i]
  <2> SUFFICES ASSUME NEW i \in 1..n - (p + 1) PROVE t[i] = input[p + 1 + i]
    OBVIOUS
  <2>1. i \in 1..Len(t) /\ i + 1 \in 1..Len(lines) /\ p + (i + 1) = p + 1 + i
    BY <1>1, <1>2, <1>5
  <2> QED
    BY <1>1, <1>2, <2>1
<1>8. /\ SubSeq(SubSeq(input, p + 1 + 1, n), k + 1, n - (p + 1)) = SubSeq(input, p + 1 + k + 1, n)
      /\ SubSeq(SubSeq(input, p + 1 + 1, n), 1, k) = SubSeq(input, p + 1 + 1, p + 1 + k)
      /\ Len(SubSeq(input, p + 1 + k + 1, n)) = n - (p + 1 + k)
  <2> DEFINE a == p + 1
  <2>1. a \in 0..n /\ k \in 0..n - a
    BY <1>5
  <2> HIDE DEF a
  <2>2. /\ SubSeq(SubSeq(input, a + 1, n), k + 1, n - a) = SubSeq(input, a + k + 1, n)
        /\ SubSeq(SubSeq(input, a + 1, n), 1, k) = SubSeq(input, a + 1, a + k)
        /\ Len(SubSeq(input, a + k + 1, n)) = n - (a + k)
    BY <1>1, <2>1, CutRest DEF n
  <2> QED
    BY <2>2 DEF a
<1>9. /\ lines' = SubSeq(input, p + 1 + k + 1, n) /\ Len(lines') = n - (p + 1 + k)
      /\ u = SubSeq(input, p + 1 + 1, p + 1 + k)
  BY <1>3, <1>5, <1>6, <1>8
<1>10. Pos' = p + 1 + k
  <2>1. Pos' = n - Len(lines')
    BY DEF Pos, n
  <2> QED
    BY <1>1, <1>5, <1>9, <2>1
<1>11. k \in Nat /\ p + 1 + k <= n /\ Len(lines') \in 0..n /\ p + 2 = p + 1 + 1
  BY <1>1, <1>5, <1>9
<1>12. TypeInv'
  BY <1>9, <1>10, <1>11 DEF TypeInv, n
<1>13. \A i \in p + 2..p + 1 + k : Type(i) \in types
  <2> SUFFICES ASSUME NEW i \in p + 2..p + 1 + k PROVE Type(i) \in types
    OBVIOUS
  <2>1. i - (p + 1) \in 1..k /\ i - (p + 1) \in 1..n - (p + 1) /\ p + 1 + (i - (p + 1)) = i
    BY <1>1, <1>5
  <2>2. t[i - (p + 1)].type \in types /\ t[i - (p + 1)] = input[i]
    BY <1>3, <1>7, <2>1
  <2> QED
    BY <2>2 DEF Type
<1>14. lines' # <<>> <=> p + 1 + k < n
  <2>1. lines' = SubSeq(input, p + 1 + k + 1, n) /\ p + 1 + k + 1 \in 1..n + 1 /\ n \in p + 1 + k + 1 - 1..n
    BY <1>1, <1>5, <1>9
  <2> DEFINE b == p + 1 + k + 1
  <2> HIDE DEF b
  <2>2. b \in 1..n + 1 /\ n \in b - 1..n /\ lines' = SubSeq(input, b, n)
    BY <2>1 DEF b
  <2>3. lines' \in Seq(Lines)
    <3>1. b \in 1..Len(input) + 1 /\ Len(input) \in b - 1..Len(input) /\ input \in Seq(Lines)
      BY <1>1, <2>2 DEF n
    <3>2. SubSeq(input, b, Len(input)) \in Seq(Lines)
      BY <3>1, Cut
    <3> QED
      BY <2>2, <3>2 DEF n
  <2>4. lines' # <<>> <=> Len(lines') # 0
    BY <2>3, EmptySeq
  <2> QED
    BY <1>1, <1>5, <1>9, <2>4
<1>15. ASSUME lines' # <<>>
       PROVE  lines'[1] = input[p + 1 + k + 1] /\ Type(p + 1 + k + 1) \notin types
  <2> DEFINE b == p + 1 + k + 1
  <2>1. /\ b \in 1..n + 1 /\ n \in b - 1..n /\ lines' = SubSeq(input, b, n)
        /\ 1 \in 1..n - b + 1 /\ b + 1 - 1 = b
        /\ k + 1 \in 1..n - (p + 1) /\ p + 1 + (k + 1) = b
    BY <1>1, <1>5, <1>9, <1>14, <1>15
  <2> HIDE DEF b
  <2>2. \A i \in 1..n - b + 1 : SubSeq(input, b, n)[i] = input[b + i - 1]
    BY <1>1, <2>1, Cut DEF n
  <2>3. lines'[1] = input[b + 1 - 1]
    BY <2>1, <2>2
  <2>4. lines'[1] = input[b]
    BY <2>1, <2>3
  <2>5. k < Len(t)
    BY <1>1, <1>5, <1>14, <1>15
  <2>6. t[k + 1] = input[p + 1 + (k + 1)]
    BY <1>7, <2>1
  <2>7. t[k + 1] = input[b]
    BY <2>1, <2>6
  <2>8. Type(b) \notin types
    BY <1>3, <2>5, <2>7 DEF Type
  <2> QED
    BY <2>4, <2>8 DEF b
<1>16. /\ TypeInv' /\ p \in Nat /\ p < n /\ lines[1] = input[p + 1]
       /\ k \in Nat /\ Pos' = p + 1 + k /\ Pos' <= n
       /\ u = SubSeq(input, p + 2, Pos')
       /\ \A i \in p + 2..Pos' : Type(i) \in types
       /\ lines' # <<>> <=> Pos' < n
       /\ lines' # <<>> => lines'[1] = input[Pos' + 1] /\ Type(Pos' + 1) \notin types
  BY <1>1, <1>4, <1>9, <1>10, <1>11, <1>12, <1>13, <1>14, <1>15
<1> QED
  BY <1>16 DEF p, n, t, u, k

LEMMA NextLine ==
  ASSUME TypeInv, part # "rejected"
  PROVE  /\ Len(input) \in Nat /\ Pos \in 0..Len(input) /\ (lines # <<>> <=> Pos < Len(input))
         /\ lines # <<>> => lines[1] = input[Pos + 1]
         /\ input \in Seq(Lines) /\ DOMAIN input = 1..Len(input)
<1>1. input \in Seq(Lines)
  BY DEF TypeInv
<1>2. /\ \A i \in 1..Len(lines) : lines[i] = input[Pos + i]
      /\ Len(input) \in Nat /\ Pos \in 0..Len(input) /\ (lines # <<>> <=> Pos < Len(input))
      /\ lines \in Seq(Lines)
  BY Ahead
<1>3. ASSUME lines # <<>> PROVE lines[1] = input[Pos + 1]
  <2>1. Len(lines) \in Nat \ {0}
    BY <1>2, <1>3, EmptySeq
  <2> QED
    BY <1>2, <2>1
<1>4. DOMAIN input = 1..Len(input)
  BY <1>1
<1> QED
  BY <1>1, <1>2, <1>3, <1>4

LEMMA TimingStep ==
  ASSUME TypeInv, PrefixInv, Timing \/ TimingEnds
  PROVE  TypeInv' /\ PrefixInv'
<1>1. /\ part = "timing" /\ UNCHANGED <<input, local>> /\ Heading(3)
  BY DEF Timing, TimingEnds, Reads, Keep, PrefixInv
<1>2. PICK t \in 4..Len(input) : InTimes(t)
  BY <1>1 DEF PrefixInv
<1>3. /\ Len(input) \in Nat /\ Pos \in 0..Len(input) /\ (lines # <<>> <=> Pos < Len(input))
      /\ lines # <<>> => lines[1] = input[Pos + 1]
  BY <1>1, NextLine
<1>4. /\ TimesAt(t) /\ Type(t) = "t"
      /\ Pos = t - 1 \/ (Pos >= t /\ \A i \in t..Pos : Type(i) \in {"t", "r"})
      /\ Pos >= t /\ lines # <<>> => Type(Pos + 1) # "r"
  BY <1>2 DEF InTimes, TimesAt
<1>5. Heading(3)'
  BY <1>1 DEF Heading, Type
<1>6. CASE Timing
  <2>1. /\ lines # <<>> /\ lines[1].type = "t" /\ part' = part
        /\ lines' = After(Tail(lines), {"r"})
    BY <1>6 DEF Timing
  <2> DEFINE u == UpTo(Tail(lines), {"r"})
  <2>2. part' \in Parts /\ part # "rejected"
    BY <1>1, <2>1 DEF Parts
  <2>3. /\ TypeInv' /\ Len(u) \in Nat /\ Pos' = Pos + 1 + Len(u) /\ Pos' <= Len(input)
        /\ \A i \in Pos + 2..Pos' : Type(i) \in {"r"}
        /\ lines' # <<>> => Type(Pos' + 1) \notin {"r"}
    BY <1>1, <2>1, <2>2, Skipped
  <2> HIDE DEF u
  <2>4. Type(Pos + 1) = "t"
    BY <1>3, <2>1 DEF Type
  <2>5. Pos' >= t /\ Pos' \in Nat /\ \A i \in t..Pos' : Type(i) \in {"t", "r"}
    <3>1. Pos' \in Nat /\ Pos' >= Pos + 1
      BY <1>3, <2>3
    <3>2. ASSUME NEW i \in t..Pos' PROVE Type(i) \in {"t", "r"}
      <4>1. i \in t..Pos \/ i = Pos + 1 \/ i \in Pos + 2..Pos'
        BY <1>3, <3>1
      <4> QED
        BY <1>3, <1>4, <2>3, <2>4, <4>1
    <3> QED
      BY <1>3, <1>4, <3>1, <3>2
  <2>6. InTimes(t)'
    <3>1. TimesAt(t)'
      BY <1>1, <1>4 DEF TimesAt, Type
    <3>2. \A i : Type(i)' = Type(i)
      BY <1>1 DEF Type
    <3>3. Type(Pos + 1)' = Type(Pos' + 1)
      BY <1>1 DEF Type
    <3> QED
      BY <2>3, <2>5, <3>1, <3>2, <3>3 DEF InTimes
  <2>7. \E e \in 4..Len(input') : InTimes(e)'
    BY <1>1, <2>6
  <2> QED
    BY <1>1, <1>5, <2>1, <2>3, <2>7 DEF PrefixInv
<1>7. CASE TimingEnds
  <2>1. /\ lines' = lines /\ part' = "preMedia" /\ Pos' = Pos
        /\ lines # <<>> => lines[1].type # "t"
    BY <1>1, <1>7 DEF TimingEnds, Pos
  <2>2. TypeInv'
    BY <1>1, <2>1 DEF TypeInv, Parts
  <2>3. Pos # t - 1
    BY <1>3, <1>4, <2>1 DEF Type
  <2>4. PICK p \in t..Len(input) : p = Pos
    BY <1>3, <1>4, <2>3
  <2>5. Times(t, p)
    <3>1. p < Len(input) => Type(p + 1) \notin {"t", "r"}
      BY <1>3, <1>4, <2>1, <2>3, <2>4 DEF Type
    <3> QED
      BY <1>3, <1>4, <2>3, <2>4, <3>1 DEF Times
  <2>6. Behind(t, p)'
    <3>1. Behind(t, p)
      BY <1>3, <2>4, <2>5 DEF Behind
    <3> QED
      BY <1>1, <2>1, <3>1 DEF Behind, Times, TimesAt, Type
  <2>7. \E e \in 4..Len(input') : \E q \in e..Pos' : Behind(e, q)'
    BY <1>1, <1>3, <2>1, <2>4, <2>6
  <2> QED
    BY <1>5, <2>1, <2>2, <2>7 DEF PrefixInv
<1> QED
  BY <1>6, <1>7

LEMMA BeforeMedia ==
  ASSUME TypeInv, part # "rejected", Heading(3), NEW t \in 4..Len(input), NEW q \in t..Pos,
         Behind(t, q)
  PROVE  \A i \in 1..Pos : Type(i) # "m"
<1>1. Len(input) \in Nat /\ Pos \in 0..Len(input)
  BY NextLine
<1>2. /\ \A i \in 4..t - 1 : Type(i) \in PreTimingTypes
      /\ \A i \in t..q : Type(i) \in {"t", "r"}
      /\ \A i \in q + 1..Pos : Type(i) \in PreMediaTypes
  BY DEF Behind, Times, TimesAt
<1>3. Type(1) # "m" /\ Type(2) # "m" /\ Type(3) # "m"
  BY DEF Heading
<1>4. "m" \notin PreTimingTypes \cup {"t", "r"} \cup PreMediaTypes
  BY DEF PreTimingTypes, PreMediaTypes
<1> SUFFICES ASSUME NEW i \in 1..Pos PROVE Type(i) # "m"
  OBVIOUS
<1>5. i \in {1, 2, 3} \/ i \in 4..t - 1 \/ i \in t..q \/ i \in q + 1..Pos
  BY <1>1
<1> QED
  BY <1>2, <1>3, <1>4, <1>5

LEMMA PreMediaStep ==
  ASSUME TypeInv, PrefixInv, PreMediaLine \/ PreMediaEnds
  PROVE  TypeInv' /\ PrefixInv'
<1>1. part = "preMedia" /\ UNCHANGED <<input, local>> /\ Heading(3)
  BY DEF PreMediaLine, PreMediaEnds, Reads, Keep, PrefixInv
<1>2. PICK t \in 4..Len(input) : \E q \in t..Pos : Behind(t, q)
  BY <1>1 DEF PrefixInv
<1>3. PICK q \in t..Pos : Behind(t, q)
  BY <1>2
<1>4. /\ Len(input) \in Nat /\ Pos \in 0..Len(input) /\ (lines # <<>> <=> Pos < Len(input))
      /\ lines # <<>> => lines[1] = input[Pos + 1]
      /\ input \in Seq(Lines)
  BY <1>1, NextLine
<1>5. PICK p \in 0..Len(input) : p = Pos
  BY <1>4
<1>6. /\ TimesAt(t) /\ Times(t, q) /\ t \in Nat /\ q \in Nat
      /\ t >= 4 /\ t <= q /\ q <= p
      /\ \A i \in t..q : Type(i) \in {"t", "r"}
      /\ q < Len(input) => Type(q + 1) \notin {"t", "r"}
      /\ \A i \in q + 1..p : Type(i) \in PreMediaTypes
  BY <1>3, <1>4, <1>5 DEF Behind, Times
<1>7. \A i \in 1..p : Type(i) # "m"
  BY <1>1, <1>2, <1>3, <1>5, BeforeMedia
<1>8. CASE PreMediaLine
  <2>1. /\ lines # <<>> /\ lines[1].type # "m" /\ lines' = Tail(lines)
        /\ part' = IF lines[1].type \in PreMediaTypes THEN part ELSE "rejected"
    BY <1>8 DEF PreMediaLine
  <2>2. TypeInv' /\ Pos' = p + 1 /\ p < Len(input) /\ lines[1] = input[p + 1]
    BY <1>1, <1>5, <2>1, TailMoves DEF Parts
  <2>3. CASE lines[1].type \in PreMediaTypes
    <3>1. \A i \in q + 1..p + 1 : Type(i) \in PreMediaTypes
      BY <1>4, <1>5, <1>6, <2>2, <2>3 DEF Type
    <3>2. Behind(t, q)'
      BY <1>1, <1>6, <2>2, <3>1 DEF Behind, Times, TimesAt, Type
    <3>3. Heading(3)' /\ t \in 4..Len(input') /\ q \in t..Pos'
      BY <1>1, <1>4, <1>6, <1>5, <2>2 DEF Heading, Type
    <3>4. \E e \in 4..Len(input') : \E f \in e..Pos' : Behind(e, f)'
      BY <3>2, <3>3
    <3> QED
      BY <1>1, <2>1, <2>2, <2>3, <3>3, <3>4 DEF PrefixInv
  <2>4. CASE lines[1].type \notin PreMediaTypes
    <3>1. ~PrefixOK
      <4> SUFFICES ASSUME PrefixOK PROVE FALSE
        OBVIOUS
      <4>1. PICK e \in Nat, m \in Nat : WellFormed(e, m)
        BY <1>4, <1>5, PrefixMeaning
      <4>2. e = t
        BY <1>4, <1>5, <1>6, <4>1 DEF WellFormed, TimesAt, PreTimingTypes
      <4>3. ~(m <= p + 1)
        <5> SUFFICES ASSUME m <= p + 1 PROVE FALSE
          OBVIOUS
        <5>1. m \in 1..Len(input) /\ Type(m) = "m"
          BY <1>4, <1>5, <2>2, <4>1 DEF WellFormed, FirstAt
        <5>2. m \in 1..p \/ m = p + 1
          BY <1>4, <1>5, <5>1
        <5> QED
          BY <1>7, <2>1, <2>2, <5>1, <5>2 DEF Type
      <4>4. p + 1 \in e..m - 1 /\ p + 1 # e /\ p + 1 - 1 = p
        BY <1>4, <1>5, <1>6, <4>2, <4>3
      <4>5. /\ Type(p + 1) \in {"t", "r"} \cup PreMediaTypes
            /\ Type(p + 1) \in {"t", "r"} => Type(p + 1 - 1) \in {"t", "r"}
        BY <4>1, <4>4 DEF WellFormed
      <4>6. Type(p + 1) \in {"t", "r"} /\ Type(p) \in {"t", "r"}
        BY <2>2, <2>4, <4>4, <4>5 DEF Type
      <4>7. CASE p = q
        BY <1>6, <2>2, <4>6, <4>7
      <4>8. CASE p # q
        <5>1. p \in q + 1..p
          BY <1>4, <1>5, <1>6, <4>8
        <5> QED
          BY <1>6, <4>6, <5>1 DEF PreMediaTypes
      <4> QED
        BY <4>7, <4>8
    <3>2. ~PrefixOK'
      BY <1>1, <3>1, PrefixStays
    <3> QED
      BY <2>1, <2>2, <2>4, <3>2 DEF PrefixInv
  <2> QED
    BY <2>3, <2>4
<1>9. CASE PreMediaEnds
  <2>1. /\ lines' = lines /\ part' = "media"
        /\ lines # <<>> => lines[1].type = "m"
    BY <1>9 DEF PreMediaEnds
  <2>2. TypeInv' /\ part' = "media"
    BY <1>1, <2>1 DEF TypeInv, Parts, Pos
  <2>3. FirstAt(p + 1)
    <3>1. p + 1 \in 1..Len(input) + 1 /\ p + 1 - 1 = p
      BY <1>4, <1>5
    <3>2. p + 1 <= Len(input) => Type(p + 1) = "m"
      BY <1>4, <1>5, <2>1 DEF Type
    <3> QED
      BY <1>7, <3>1, <3>2 DEF FirstAt
  <2>4. ASSUME NEW i \in t..p + 1 - 1
        PROVE  /\ Type(i) \in {"t", "r"} \cup PreMediaTypes
               /\ Type(i) \in {"t", "r"} => i = t \/ Type(i - 1) \in {"t", "r"}
    <3>1. CASE i \in t..q
      <4>1. i = t \/ i - 1 \in t..q
        BY <1>6, <3>1
      <4> QED
        BY <1>6, <3>1, <4>1
    <3>2. CASE i \in q + 1..p
      BY <1>6, <3>2 DEF PreMediaTypes
    <3>3. i \in t..q \/ i \in q + 1..p
      BY <1>4, <1>5, <1>6
    <3> QED
      BY <3>1, <3>2, <3>3
  <2>5. t < p + 1 /\ p + 1 \in Nat
    BY <1>4, <1>5, <1>6
  <2>6. WellFormed(t, p + 1)
    BY <1>1, <1>6, <2>3, <2>4, <2>5 DEF WellFormed
  <2>7. PrefixOK
    BY <1>4, <1>5, <1>6, <2>5, <2>6, PrefixMeaning
  <2>8. PrefixOK'
    BY <1>1, <2>7, PrefixStays
  <2> QED
    BY <2>2, <2>8 DEF PrefixInv
<1> QED
  BY <1>8, <1>9

-----------------------------------------------------------------------------
(* The media.                                                              *)

LEMMA SectionEndIs ==
  ASSUME input \in Seq(Lines), NEW i \in 1..Len(input), NEW e \in i..Len(input),
         \A j \in i + 1..e : Type(j) # "m", e < Len(input) => Type(e + 1) = "m"
  PROVE  SectionEnd(i) = e
<1> DEFINE n == Len(input)
           T == {j \in Sections : j > i} \cup {n + 1}
<1>1. n \in Nat /\ \A j : j \in Sections <=> j \in 1..n /\ Type(j) = "m"
  BY DEF Sections, Type
<1>2. /\ i \in 1..n /\ e \in i..n /\ \A j \in i + 1..e : Type(j) # "m"
      /\ e < n => Type(e + 1) = "m"
  OBVIOUS
<1>3. SectionEnd(i) = Min(T) - 1
  BY DEF SectionEnd
<1> HIDE DEF n
<1>4. T \in SUBSET Nat /\ T # {}
  BY <1>1, <1>2
<1>5. e + 1 \in T
  BY <1>1, <1>2
<1>6. \A y \in T : e + 1 <= y
  <2> SUFFICES ASSUME NEW y \in T, ~(e + 1 <= y) PROVE FALSE
    OBVIOUS
  <2>1. y \in Sections /\ y \in i + 1..e
    BY <1>1, <1>2
  <2> QED
    BY <1>1, <1>2, <2>1
<1>7. Min(T) \in T /\ \A y \in T : Min(T) <= y
  BY <1>4, MinOfNaturals
<1>8. Min(T) \in Nat /\ Min(T) <= e + 1 /\ e + 1 <= Min(T)
  BY <1>4, <1>5, <1>6, <1>7
<1> HIDE DEF T
<1> QED
  BY <1>2, <1>3, <1>8

LEMMA SectionsStay ==
  ASSUME UNCHANGED input
  PROVE  /\ Sections' = Sections
         /\ \A i : SectionRead(i)' = SectionRead(i)
<1>1. Sections' = Sections
  BY DEF Sections
<1>2. ASSUME NEW i PROVE SectionRead(i)' = SectionRead(i)
  <2> DEFINE Read(s, ms) ==
        ReadMedia(s[i], SubSeq(s, i + 1, Min({j \in ms : j > i} \cup {Len(s) + 1}) - 1))
  <2>1. SectionRead(i) = Read(input, Sections)
    BY Zenon DEF SectionRead, SectionEnd
  <2>2. SectionRead(i)' = Read(input', Sections')
    BY Zenon DEF SectionRead, SectionEnd
  <2> HIDE DEF Read
  <2> QED
    BY <1>1, <2>1, <2>2
<1> QED
  BY <1>1, <1>2

LEMMA MediaStep ==
  ASSUME TypeInv, PrefixInv, MediaInv, MediaSection
  PROVE  TypeInv' /\ PrefixInv' /\ MediaInv'
<1>1. /\ part = "media" /\ UNCHANGED <<input, local, part>> /\ lines # <<>>
      /\ media' = Append(media, ReadMedia(lines[1], UpTo(Tail(lines), NotMedia)))
      /\ lines' = After(Tail(lines), NotMedia)
  BY DEF MediaSection, Reads
<1>2. part # "rejected" /\ part' \in Parts
  BY <1>1 DEF Parts
<1> DEFINE u == UpTo(Tail(lines), NotMedia)
<1>3. /\ TypeInv' /\ Pos \in Nat /\ Pos < Len(input) /\ lines[1] = input[Pos + 1]
      /\ Len(u) \in Nat /\ Pos' = Pos + 1 + Len(u) /\ Pos' <= Len(input)
      /\ u = SubSeq(input, Pos + 2, Pos')
      /\ \A i \in Pos + 2..Pos' : Type(i) \in NotMedia
      /\ lines' # <<>> <=> Pos' < Len(input)
      /\ lines' # <<>> => lines'[1] = input[Pos' + 1] /\ Type(Pos' + 1) \notin NotMedia
  BY <1>1, <1>2, Skipped
<1>4. input \in Seq(Lines) /\ Len(input) \in Nat
  BY <1>2, NextLine
<1>5. PICK p \in 0..Len(input), e \in 0..Len(input) :
        /\ p = Pos /\ e = Pos' /\ p < e
  BY <1>3, <1>4
<1> HIDE DEF u
<1>6. \A i \in 1..Len(input) : Type(i) \in NotMedia \cup {"m"}
  <2> SUFFICES ASSUME NEW i \in 1..Len(input) PROVE input[i].type \in NotMedia \cup {"m"}
    BY DEF Type
  <2>1. input[i] \in Lines
    BY <1>4, ElementOfSeq
  <2> QED
    BY <2>1 DEF Lines
<1>7. e < Len(input) => Type(e + 1) = "m"
  <2>1. e < Len(input) => e + 1 \in 1..Len(input)
    BY <1>4
  <2> QED
    BY <1>3, <1>5, <1>6, <2>1
<1>8. Type(p + 1) = "m" /\ p + 1 \in 1..Len(input) /\ p + 1 + 1 = p + 2
  BY <1>1, <1>3, <1>4, <1>5 DEF MediaInv, Type
<1>9. "m" \notin NotMedia
  BY DEF NotMedia
<1>10. \A j \in p + 2..e : Type(j) # "m"
  BY <1>3, <1>5, <1>9
<1>11. SectionEnd(p + 1) = e
  <2> DEFINE i == p + 1
  <2>1. /\ i \in 1..Len(input) /\ e \in i..Len(input) /\ \A j \in i + 1..e : Type(j) # "m"
    BY <1>4, <1>5, <1>8, <1>10
  <2> HIDE DEF i
  <2>2. SectionEnd(i) = e
    BY <1>4, <1>7, <2>1, SectionEndIs
  <2> QED
    BY <2>2 DEF i
<1>12. media' = Append(media, SectionRead(p + 1)) /\ p + 1 \in Sections
  <2>1. u = SubSeq(input, p + 2, e)
    BY <1>3, <1>5
  <2>2. ReadMedia(lines[1], u) = SectionRead(p + 1)
    BY <1>3, <1>5, <1>8, <1>11, <2>1 DEF SectionRead
  <2>3. DOMAIN input = 1..Len(input)
    BY <1>4
  <2> QED
    BY <1>1, <1>8, <2>2, <2>3 DEF u, Sections, Type
<1>13. Sections' = Sections /\ \A i : SectionRead(i)' = SectionRead(i)
  BY <1>1, SectionsStay
<1>14. PICK at \in Seq(Nat) : ReadAt(at)
  BY <1>1 DEF MediaInv
<1> DEFINE S == {SectionRead(i) : i \in Sections}
           k == Len(media)
           b == Append(at, p + 1)
<1>15. media \in Seq(S) /\ SectionRead(p + 1) \in S
  BY <1>12 DEF MediaInv
<1> HIDE DEF S
<1>16. /\ k \in Nat /\ DOMAIN media = 1..k
       /\ media' \in Seq(S) /\ DOMAIN media' = 1..k + 1
       /\ \A l \in 1..k : media'[l] = media[l]
       /\ media'[k + 1] = SectionRead(p + 1)
  BY <1>12, <1>15
<1>17. /\ DOMAIN at = 1..k /\ Len(at) = k
       /\ \A l \in 1..k : at[l] \in Sections /\ at[l] <= p /\ media[l] = SectionRead(at[l])
       /\ \A l, o \in 1..k : l < o => at[l] < at[o]
       /\ \A i \in Sections : i <= p => \E l \in 1..k : at[l] = i
  <2>1. DOMAIN at = 1..k
    BY <1>14, <1>16 DEF ReadAt
  <2>2. Len(at) \in Nat /\ DOMAIN at = 1..Len(at)
    BY <1>14
  <2> HIDE DEF k
  <2>3. Len(at) = k
    BY <1>16, <2>1, <2>2
  <2>4. /\ \A l \in DOMAIN at : at[l] \in Sections /\ at[l] <= p /\ media[l] = SectionRead(at[l])
        /\ \A l, o \in DOMAIN at : l < o => at[l] < at[o]
        /\ \A i \in Sections : i <= p => \E l \in DOMAIN at : at[l] = i
    BY <1>5, <1>14 DEF ReadAt
  <2> QED
    BY <2>1, <2>3, <2>4
<1>18. /\ b \in Seq(Nat) /\ DOMAIN b = 1..k + 1 /\ b[k + 1] = p + 1
       /\ \A l \in 1..k : b[l] = at[l]
  <2>1. p + 1 \in Nat
    BY <1>5
  <2> QED
    BY <1>16, <1>17, <2>1
<1> HIDE DEF b, k
<1>19. ReadAt(b)'
  <2>1. DOMAIN b = DOMAIN media'
    BY <1>16, <1>18
  <2>2. ASSUME NEW l \in 1..k + 1
        PROVE  b[l] \in Sections /\ b[l] <= e /\ media'[l] = SectionRead(b[l])
    <3>1. CASE l = k + 1
      BY <1>5, <1>12, <1>16, <1>18, <3>1
    <3>2. CASE l \in 1..k
      <4>1. b[l] = at[l] /\ b[l] \in Nat
        BY <1>14, <1>17, <1>18, <3>2
      <4> QED
        BY <1>5, <1>16, <1>17, <3>2, <4>1
    <3> QED
      BY <1>16, <3>1, <3>2
  <2>3. ASSUME NEW l \in 1..k + 1, NEW o \in 1..k + 1, l < o PROVE b[l] < b[o]
    <3>1. l \in 1..k
      BY <1>16, <2>3
    <3>2. b[l] = at[l] /\ b[l] <= p
      BY <1>17, <1>18, <3>1
    <3>3. b[l] \in Nat
      BY <1>16, <1>18, <2>3
    <3>4. CASE o = k + 1
      BY <1>5, <1>18, <3>2, <3>3, <3>4
    <3>5. CASE o \in 1..k
      BY <1>17, <1>18, <2>3, <3>1, <3>2, <3>5
    <3> QED
      BY <1>16, <3>4, <3>5
  <2>4. ASSUME NEW i \in Sections, i <= e PROVE \E l \in 1..k + 1 : b[l] = i
    <3>1. i \in 1..Len(input) /\ Type(i) = "m"
      BY <1>4 DEF Sections, Type
    <3>2. i \notin p + 2..e
      BY <1>10, <3>1
    <3>3. i <= p \/ i = p + 1
      BY <1>4, <1>5, <2>4, <3>1, <3>2
    <3>4. CASE i <= p
      <4>1. PICK l \in 1..k : at[l] = i
        BY <1>17, <3>4
      <4> QED
        BY <1>16, <1>18, <4>1
    <3>5. CASE i = p + 1
      BY <1>16, <1>18, <3>5
    <3> QED
      BY <3>3, <3>4, <3>5
  <2>5. /\ \A l \in DOMAIN b : b[l] \in Sections' /\ b[l] <= Pos' /\ media'[l] = SectionRead(b[l])'
        /\ \A l, o \in DOMAIN b : l < o => b[l] < b[o]
        /\ \A i \in Sections' : i <= Pos' => \E l \in DOMAIN b : b[l] = i
    <3>1. /\ \A l \in 1..k + 1 : b[l] \in Sections' /\ b[l] <= e /\ media'[l] = SectionRead(b[l])'
          /\ \A i \in Sections' : i <= e => \E l \in 1..k + 1 : b[l] = i
      BY <1>13, <2>2, <2>4
    <3> QED
      BY <1>5, <1>18, <2>3, <3>1
  <2> QED
    BY <2>1, <2>5 DEF ReadAt
<1>20. media' \in Seq({SectionRead(i) : i \in Sections})'
  BY <1>13, <1>16 DEF S
<1>21. lines' # <<>> => lines'[1].type = "m"
  BY <1>3, <1>5, <1>7 DEF Type
<1>22. MediaInv'
  BY <1>1, <1>18, <1>19, <1>20, <1>21 DEF MediaInv
<1>23. PrefixInv'
  <2>1. PrefixOK'
    BY <1>1, PrefixStays DEF PrefixInv
  <2> QED
    BY <1>1, <2>1 DEF PrefixInv
<1> QED
  BY <1>3, <1>22, <1>23

-----------------------------------------------------------------------------
(* The invariant holds.                                                    *)

LEMMA NoneRead ==
  ASSUME TypeInv, media = <<>>, part = "media" => (lines # <<>> => lines[1].type = "m"),
         part = "media" => \A i \in Sections : ~(i <= Pos)
  PROVE  MediaInv
<1>1. media \in Seq({SectionRead(i) : i \in Sections})
  OBVIOUS
<1>2. ASSUME part = "media" PROVE \E at \in Seq(Nat) : ReadAt(at)
  <2> DEFINE at == <<>>
  <2>1. at \in Seq(Nat) /\ DOMAIN at = {} /\ DOMAIN media = {}
    OBVIOUS
  <2> HIDE DEF at
  <2>2. ReadAt(at)
    BY <1>2, <2>1 DEF ReadAt
  <2> QED
    BY <2>1, <2>2
<1> QED
  BY <1>1, <1>2 DEF MediaInv

\* The steps before the media.
Early ==
  \/ FixedLine("v", "o") \/ FixedLine("o", "s") \/ FixedLine("s", "preTiming")
  \/ PreTimingLine \/ PreTimingEnds \/ Timing \/ TimingEnds \/ PreMediaLine \/ PreMediaEnds

LEMMA EarlyPrefix ==
  ASSUME TypeInv, PrefixInv, Early
  PROVE  TypeInv' /\ PrefixInv'
<1>1. CASE FixedLine("v", "o")
  BY <1>1, FixedStep
<1>2. CASE FixedLine("o", "s")
  BY <1>2, FixedStep
<1>3. CASE FixedLine("s", "preTiming")
  BY <1>3, FixedStep
<1>4. CASE PreTimingLine \/ PreTimingEnds
  BY <1>4, PreTimingStep
<1>5. CASE Timing \/ TimingEnds
  BY <1>5, TimingStep
<1>6. CASE PreMediaLine \/ PreMediaEnds
  BY <1>6, PreMediaStep
<1> QED
  BY <1>1, <1>2, <1>3, <1>4, <1>5, <1>6 DEF Early

LEMMA EarlyStep ==
  ASSUME SdpInv, Early
  PROVE  SdpInv'
<1>1. TypeInv /\ PrefixInv /\ MediaInv /\ OutcomeInv
  BY DEF SdpInv
<1>2. TypeInv' /\ PrefixInv'
  BY <1>1, EarlyPrefix
<1>3. /\ UNCHANGED <<input, media, outcome, remote>> /\ outcome = "none"
      /\ part \in {"v", "o", "s", "preTiming", "timing", "preMedia"}
      /\ part' # "media" \/ PreMediaEnds
  BY DEF Early, FixedLine, PreTimingLine, PreTimingEnds, Timing, TimingEnds, PreMediaLine,
     PreMediaEnds, Reads, Keep
<1>4. media' = <<>>
  BY <1>1, <1>3 DEF MediaInv
<1>5. ASSUME part' = "media"
      PROVE  /\ lines' # <<>> => lines'[1].type = "m"
             /\ \A i \in Sections' : ~(i <= Pos')
  <2>1. PreMediaEnds /\ lines' = lines /\ part = "preMedia" /\ Pos' = Pos
    BY <1>3, <1>5 DEF PreMediaEnds, Reads, Pos
  <2>2. lines # <<>> => lines[1].type = "m"
    BY <2>1 DEF PreMediaEnds
  <2>3. PICK t \in 4..Len(input) : \E q \in t..Pos : Behind(t, q)
    BY <1>1, <2>1 DEF PrefixInv
  <2>4. PICK q \in t..Pos : Behind(t, q)
    BY <2>3
  <2>5. \A i \in 1..Pos : Type(i) # "m"
    BY <1>1, <2>1, <2>3, <2>4, BeforeMedia DEF PrefixInv
  <2>6. Pos \in Nat /\ DOMAIN input = 1..Len(input) /\ Len(input) \in Nat
    BY <1>1, <2>1, NextLine
  <2>7. \A i \in Sections : ~(i <= Pos)
    BY <2>5, <2>6 DEF Sections, Type
  <2>8. Sections' = Sections
    BY <1>3 DEF Sections
  <2> QED
    BY <2>1, <2>2, <2>7, <2>8
<1>6. MediaInv'
  <2>1. /\ TypeInv' /\ media' = <<>>
        /\ part' = "media" => (lines' # <<>> => lines'[1].type = "m")
        /\ part' = "media" => \A i \in Sections' : ~(i <= Pos')
    BY <1>2, <1>4, <1>5
  <2>2. media' \in Seq({SectionRead(i) : i \in Sections})'
    BY <1>4
  <2>3. ASSUME part' = "media" PROVE \E at \in Seq(Nat) : ReadAt(at)'
    <3> DEFINE at == <<>>
    <3>1. at \in Seq(Nat) /\ DOMAIN at = {} /\ DOMAIN media' = {}
      BY <1>4
    <3> HIDE DEF at
    <3>2. ReadAt(at)'
      BY <2>1, <2>3, <3>1 DEF ReadAt
    <3> QED
      BY <3>1, <3>2
  <2> QED
    BY <2>1, <2>2, <2>3 DEF MediaInv
<1>7. OutcomeInv'
  BY <1>3 DEF OutcomeInv
<1> QED
  BY <1>2, <1>6, <1>7 DEF SdpInv

LEMMA Unmoved ==
  ASSUME TypeInv, PrefixInv, MediaInv, UNCHANGED <<input, local, lines, part, media>>
  PROVE  TypeInv' /\ PrefixInv' /\ MediaInv'
<1>1. TypeInv' /\ Pos' = Pos
  BY DEF TypeInv, Pos
<1>2. PrefixOK' <=> PrefixOK
  BY PrefixStays
<1>3. PrefixInv'
  BY <1>1, <1>2 DEF PrefixInv, Heading, InTimes, Behind, Times, TimesAt, Type
<1>4. Sections' = Sections /\ \A i : SectionRead(i)' = SectionRead(i)
  BY SectionsStay
<1>5. \A at : ReadAt(at)' <=> ReadAt(at)
  BY <1>1, <1>4 DEF ReadAt
<1>6. {SectionRead(i) : i \in Sections}' = {SectionRead(i) : i \in Sections}
  BY <1>4
<1>7. MediaInv'
  BY <1>5, <1>6 DEF MediaInv
<1> QED
  BY <1>1, <1>3, <1>7

LEMMA SdpStep ==
  ASSUME SdpInv, [Next]_vars
  PROVE  SdpInv'
<1>1. TypeInv /\ PrefixInv /\ MediaInv /\ OutcomeInv
  BY DEF SdpInv
<1>2. CASE Early
  BY <1>2, EarlyStep
<1>3. CASE MediaSection
  <2>1. TypeInv' /\ PrefixInv' /\ MediaInv'
    BY <1>1, <1>3, MediaStep
  <2>2. outcome' = "none"
    BY <1>3 DEF MediaSection, Reads
  <2> QED
    BY <2>1, <2>2 DEF SdpInv, OutcomeInv
<1>4. CASE NoMedia
  <2>1. TypeInv' /\ PrefixInv' /\ MediaInv'
    BY <1>1, <1>4, Unmoved DEF NoMedia
  <2>2. OutcomeInv'
    BY <1>4 DEF OutcomeInv, NoMedia
  <2> QED
    BY <2>1, <2>2 DEF SdpInv
<1>5. CASE SetDescription
  <2>1. TypeInv' /\ PrefixInv' /\ MediaInv'
    BY <1>1, <1>5, Unmoved DEF SetDescription
  <2>2. OutcomeInv'
    BY <1>5 DEF OutcomeInv, SetDescription
  <2> QED
    BY <2>1, <2>2 DEF SdpInv
<1>6. CASE UNCHANGED vars
  <2>1. TypeInv' /\ PrefixInv' /\ MediaInv'
    BY <1>1, <1>6, Unmoved DEF vars
  <2>2. OutcomeInv'
    BY <1>1, <1>6 DEF OutcomeInv, vars
  <2> QED
    BY <2>1, <2>2 DEF SdpInv
<1> QED
  BY <1>2, <1>3, <1>4, <1>5, <1>6 DEF Next, Early

LEMMA WrittenType ==
  ASSUME NEW d \in Locals
  PROVE  Written(d) \in Seq(Lines) \ {<<>>}
<1>1. d.acceptTypes \in Seq(Values) /\ d.setup \in Values /\ d.path \in Values
  BY DescriptionAssumption
<1>2. \A type \in NotMedia \cup {"m"} : \A name \in Words : \A value \in Seq(Values) :
        Line(type, name, value) \in Lines
  BY DEF Line, Lines
<1>3. <<>> \in Seq(Values) /\ "a" \in NotMedia /\ "" \in Words
  <2>1. <<>> \in Seq(Values)
    OBVIOUS
  <2>2. "a" \in NotMedia
    BY DEF NotMedia
  <2>3. "" \in Words
    BY DescriptionAssumption
  <2> QED
    BY <2>1, <2>2, <2>3
<1>4. Line("m", "TCP/MSRP", <<>>) \in Lines
  BY <1>2, <1>3, DescriptionAssumption
<1>5. /\ Plain("v") \in Lines /\ Plain("o") \in Lines /\ Plain("s") \in Lines
      /\ Plain("c") \in Lines /\ Plain("t") \in Lines
  <2>1. \A type \in NotMedia : Plain(type) \in Lines
    BY <1>2, <1>3 DEF Plain
  <2> QED
    BY <2>1 DEF NotMedia
<1>6. /\ Attribute("accept-types", d.acceptTypes) \in Lines
      /\ Attribute("setup", <<d.setup>>) \in Lines /\ Attribute("path", <<d.path>>) \in Lines
  <2>1. \A name \in Words : \A value \in Seq(Values) : Attribute(name, value) \in Lines
    BY <1>2, <1>3 DEF Attribute
  <2>2. <<d.setup>> \in Seq(Values) /\ <<d.path>> \in Seq(Values)
    BY <1>1
  <2>3. "accept-types" \in Words /\ "setup" \in Words /\ "path" \in Words
    BY DescriptionAssumption
  <2> QED
    BY <1>1, <2>1, <2>2, <2>3
<1>7. <<Plain("v"), Plain("o"), Plain("s"), Plain("c"), Plain("t"),
        Line("m", "TCP/MSRP", <<>>)>> \in Seq(Lines)
  BY <1>4, <1>5
<1>8. <<Attribute("accept-types", d.acceptTypes), Attribute("setup", <<d.setup>>),
        Attribute("path", <<d.path>>)>> \in Seq(Lines)
  BY <1>6
<1>9. Written(d) \in Seq(Lines) /\ Len(Written(d)) = 9
  BY <1>7, <1>8, ConcatProperties DEF Written
<1> QED
  BY <1>9, EmptySeq

LEMMA SdpInit ==
  ASSUME Init
  PROVE  SdpInv
<1>1. /\ lines = input /\ part = "v" /\ media = <<>> /\ outcome = "none"
  BY DEF Init
<1>2. input \in Seq(Lines) \ {<<>>} /\ \A d \in local : d \in Locals /\ input = Written(d)
  BY WrittenType, DescriptionAssumption DEF Init
<1>3. Len(input) \in Nat /\ SubSeq(input, 1, Len(input)) = input
  BY <1>2, SubSeqFull
<1>4. Pos = 0
  BY <1>1, <1>3 DEF Pos
<1>5. TypeInv
  BY <1>1, <1>2, <1>3, <1>4 DEF TypeInv, Parts
<1>6. PrefixInv
  BY <1>1, <1>4 DEF PrefixInv
<1>7. MediaInv
  BY <1>1, <1>5, NoneRead
<1>8. OutcomeInv
  BY <1>1 DEF OutcomeInv
<1> QED
  BY <1>5, <1>6, <1>7, <1>8 DEF SdpInv

LEMMA SdpInvariance == Spec => []SdpInv
<1>1. Init => SdpInv
  BY SdpInit
<1>2. SdpInv /\ [Next]_vars => SdpInv'
  BY SdpStep
<1> QED
  BY <1>1, <1>2, PTL DEF Spec

-----------------------------------------------------------------------------
(* The attributes of a medium.                                             *)

\* The lines are read one after the other.
LEMMA LineByLine ==
  ASSUME NEW s \in Seq(Lines)
  PROVE  \E f : /\ f[0] = NoAttributes
                /\ \A i \in 1..Len(s) : f[i] = AddLine(f[i - 1], s[i])
                /\ FoldLeft(AddLine, NoAttributes, s) = f[Len(s)]
<1> DEFINE K == DOMAIN s
           Following(f, T) == IF T = {} THEN NoAttributes
                          ELSE AddLine(f[T \ {Max(T)}], s[Max(T)])
           Dom(n) == {S \in SUBSET K : Cardinality(S) <= n}
           Reached == {n \in Nat : \E f : f = [T \in Dom(n) |-> Following(f, T)]}
<1>1. K = 1..Len(s) /\ Len(s) \in Nat /\ IsFiniteSet(K)
  BY FS_Interval
<1>2. \A S \in SUBSET K : /\ IsFiniteSet(S) /\ Cardinality(S) \in Nat
                          /\ Cardinality(S) <= Cardinality(K)
  BY <1>1, FS_Subset, FS_CardinalityType
<1>3. \A S \in SUBSET K : S # {} => Max(S) \in S /\ \A y \in S : y <= Max(S)
  <2> SUFFICES ASSUME NEW S \in SUBSET K, S # {}
               PROVE  Max(S) \in S /\ \A y \in S : y <= Max(S)
    OBVIOUS
  <2>1. S \in SUBSET Nat /\ \A x \in S : x <= Len(s)
    BY <1>1
  <2>2. \E x \in S : \A y \in S : y <= x
    BY <1>1, <2>1, GreatestExists
  <2>3. \E x \in S : \A y \in S : x >= y
    BY <2>1, <2>2
  <2>4. Max(S) \in S /\ \A y \in S : Max(S) >= y
    BY <2>3 DEF Max
  <2> QED
    BY <2>1, <2>4
<1>4. \A S \in SUBSET K : S # {} => /\ S \ {Max(S)} \in SUBSET K
                                    /\ Cardinality(S \ {Max(S)}) = Cardinality(S) - 1
  BY <1>2, <1>3, FS_RemoveElement
<1>5. 0 \in Reached
  <2> DEFINE g == [T \in Dom(0) |-> NoAttributes]
  <2>1. \A S \in Dom(0) : S = {}
    BY <1>2, FS_EmptySet
  <2>2. g = [T \in Dom(0) |-> Following(g, T)]
    BY <2>1
  <2> QED
    BY <2>2
<1>6. ASSUME NEW n \in Reached PROVE n + 1 \in Reached
  <2>1. PICK f : f = [T \in Dom(n) |-> Following(f, T)]
    OBVIOUS
  <2> DEFINE g == [T \in Dom(n + 1) |-> IF T \in Dom(n) THEN f[T] ELSE Following(f, T)]
  <2>2. n \in Nat /\ Dom(n) \subseteq Dom(n + 1)
    BY <1>2
  <2>3. ASSUME NEW T \in Dom(n + 1), T # {}
        PROVE  T \ {Max(T)} \in Dom(n)
    BY <1>2, <1>4, <2>2, <2>3
  <2>4. ASSUME NEW T \in Dom(n + 1) PROVE g[T] = Following(g, T)
    <3>1. CASE T = {}
      <4>1. {} \in Dom(n)
        BY <2>2, FS_EmptySet
      <4> QED
        BY <2>1, <2>2, <3>1, <4>1
    <3>2. CASE T # {}
      <4>1. T \ {Max(T)} \in Dom(n)
        BY <2>3, <3>2
      <4>2. g[T \ {Max(T)}] = f[T \ {Max(T)}]
        BY <2>2, <4>1
      <4>3. g[T] = Following(f, T)
        <5> HIDE DEF Dom, Following
        <5> QED BY <2>1, <2>2
      <4> QED
        BY <3>2, <4>2, <4>3
    <3> QED
      BY <3>1, <3>2
  <2>5. g = [T \in Dom(n + 1) |-> Following(g, T)]
    <3> HIDE DEF Following
    <3> QED BY <2>4
  <2> HIDE DEF Following, Dom, g
  <2> QED
    BY <2>2, <2>5
<1>7. Cardinality(K) \in Reached
  <2> HIDE DEF Reached
  <2>1. Reached \in SUBSET Nat
    BY DEF Reached
  <2> QED
    BY <1>1, <1>5, <1>6, <2>1, Induction, FS_CardinalityType
<1>8. Dom(Cardinality(K)) = SUBSET K
  BY <1>2
<1>9. \E f : f = [T \in SUBSET K |-> Following(f, T)]
  BY <1>7, <1>8
<1> DEFINE c == CHOOSE f : f = [T \in SUBSET K |-> Following(f, T)]
<1>10. c = [T \in SUBSET K |-> Following(c, T)]
  BY <1>9
<1>11. FoldLeft(AddLine, NoAttributes, s) = c[K]
  BY DEF FoldLeft, MapThenFoldSet
<1> HIDE DEF c
<1> DEFINE f == [i \in 0..Len(s) |-> c[1..i]]
<1>12. f[0] = NoAttributes
  <2>1. 1..0 = {} /\ {} \in SUBSET K /\ 0 \in 0..Len(s)
    BY <1>1
  <2>2. c[{}] = Following(c, {})
    <3> HIDE DEF Following
    <3> QED BY <1>10, <2>1
  <2> QED
    BY <2>1, <2>2
<1>13. ASSUME NEW i \in 1..Len(s) PROVE f[i] = AddLine(f[i - 1], s[i])
  <2>1. 1..i \in SUBSET K /\ 1..i # {} /\ i \in 1..i /\ (1..i) \ {i} = 1..i - 1
        /\ i \in 0..Len(s) /\ i - 1 \in 0..Len(s)
    <3> DEFINE n == Len(s)
    <3>1. n \in Nat /\ i \in 1..n /\ K = 1..n
      BY <1>1
    <3> HIDE DEF n, K
    <3>2. 1..i \in SUBSET K /\ i \in 1..i /\ (1..i) \ {i} = 1..i - 1
          /\ i \in 0..n /\ i - 1 \in 0..n
      BY <3>1
    <3> QED
      BY <3>2 DEF n
  <2>2. Max(1..i) = i
    <3>1. Max(1..i) \in 1..i /\ \A y \in 1..i : y <= Max(1..i)
      BY <1>3, <2>1
    <3> DEFINE m == Max(1..i)
    <3>2. m \in 1..i /\ i <= m
      BY <2>1, <3>1
    <3> HIDE DEF m
    <3>3. m = i
      BY <1>1, <3>2
    <3> QED
      BY <3>3 DEF m
  <2>3. c[1..i] = Following(c, 1..i)
    <3> HIDE DEF Following
    <3> QED BY <1>10, <2>1
  <2>4. c[1..i] = AddLine(c[(1..i) \ {Max(1..i)}], s[Max(1..i)])
    BY <2>1, <2>3
  <2> QED
    BY <2>1, <2>2, <2>4
<1>14. f[Len(s)] = c[K]
  BY <1>1
<1> HIDE DEF f
<1> QED
  BY <1>11, <1>12, <1>13, <1>14

\* The attributes F are what the first i lines of s say.
Collected(F, s, i) ==
  /\ \A n : n \in DOMAIN F <=> \E j \in 1..i : s[j].type = "a" /\ s[j].name = n
  /\ \A n \in DOMAIN F :
       /\ F[n] \in Seq(Values)
       /\ \A v : v \in ToSet(F[n]) <=>
            \E j \in 1..i : s[j].type = "a" /\ s[j].name = n /\ v \in ToSet(s[j].value)

LEMMA ConcatElements ==
  ASSUME NEW S, NEW a \in Seq(S), NEW b \in Seq(S)
  PROVE  a \o b \in Seq(S) /\ ToSet(a \o b) = ToSet(a) \cup ToSet(b)
<1> DEFINE m == Len(a)
           n == Len(b)
           c == a \o b
<1>1. /\ m \in Nat /\ n \in Nat /\ DOMAIN a = 1..m /\ DOMAIN b = 1..n
      /\ c \in Seq(S) /\ DOMAIN c = 1..m + n
      /\ \A i \in 1..m + n : c[i] = IF i <= m THEN a[i] ELSE b[i - m]
  <2>1. Len(c) = m + n /\ c \in Seq(S)
    BY ConcatProperties
  <2> QED
    BY <2>1, ConcatProperties, LenProperties
<1> HIDE DEF m, n, c
<1>2. ASSUME NEW i \in 1..m + n PROVE c[i] \in ToSet(a) \cup ToSet(b)
  <2>1. CASE i <= m
    <3>1. i \in 1..m /\ c[i] = a[i]
      BY <1>1, <2>1
    <3> QED
      BY <1>1, <3>1 DEF ToSet
  <2>2. CASE ~(i <= m)
    <3>1. i - m \in 1..n /\ c[i] = b[i - m]
      BY <1>1, <2>2
    <3> QED
      BY <1>1, <3>1 DEF ToSet
  <2> QED
    BY <2>1, <2>2
<1>3. ASSUME NEW i \in 1..m PROVE a[i] \in ToSet(c)
  <2>1. i \in 1..m + n /\ c[i] = a[i]
    BY <1>1
  <2> QED
    BY <1>1, <2>1 DEF ToSet
<1>4. ASSUME NEW i \in 1..n PROVE b[i] \in ToSet(c)
  <2>1. m + i \in 1..m + n /\ ~(m + i <= m) /\ m + i - m = i
    BY <1>1
  <2>2. c[m + i] = b[i]
    BY <1>1, <2>1
  <2> QED
    BY <1>1, <2>1, <2>2 DEF ToSet
<1>5. ToSet(c) = {c[i] : i \in 1..m + n} /\ ToSet(a) = {a[i] : i \in 1..m}
      /\ ToSet(b) = {b[i] : i \in 1..n}
  BY <1>1 DEF ToSet
<1>6. ToSet(c) = ToSet(a) \cup ToSet(b)
  BY <1>2, <1>3, <1>4, <1>5
<1> QED
  BY <1>1, <1>6 DEF c

LEMMA NextCollected ==
  ASSUME NEW s \in Seq(Lines), NEW i \in 1..Len(s), NEW F, Collected(F, s, i - 1)
  PROVE  Collected(AddLine(F, s[i]), s, i)
<1> DEFINE l == s[i]
           G == AddLine(F, l)
<1>1. l \in Lines
  BY ElementOfSeq
<1>2. l.value \in Seq(Values)
  BY <1>1 DEF Lines
<1>3. /\ i \in Nat /\ i \in 1..i /\ s[i] = l
      /\ \A j : j \in 1..i <=> j \in 1..i - 1 \/ j = i
  OBVIOUS
<1>4. /\ \A n : n \in DOMAIN F <=> \E j \in 1..i - 1 : s[j].type = "a" /\ s[j].name = n
      /\ \A n \in DOMAIN F : F[n] \in Seq(Values)
      /\ \A n \in DOMAIN F : \A v : v \in ToSet(F[n]) <=>
           \E j \in 1..i - 1 : s[j].type = "a" /\ s[j].name = n /\ v \in ToSet(s[j].value)
  BY DEF Collected
<1>5. CASE l.type # "a"
  <2>1. G = F
    BY <1>5 DEF AddLine
  <2> HIDE DEF l, G
  <2>2. \A n : (\E j \in 1..i : s[j].type = "a" /\ s[j].name = n)
                 <=> \E j \in 1..i - 1 : s[j].type = "a" /\ s[j].name = n
    BY <1>3, <1>5
  <2>3. \A n, v : (\E j \in 1..i : s[j].type = "a" /\ s[j].name = n /\ v \in ToSet(s[j].value))
          <=> \E j \in 1..i - 1 : s[j].type = "a" /\ s[j].name = n /\ v \in ToSet(s[j].value)
    BY <1>3, <1>5
  <2>4. \A n : n \in DOMAIN F <=> \E j \in 1..i : s[j].type = "a" /\ s[j].name = n
    BY <1>4, <2>2, Zenon
  <2>5. ASSUME NEW n \in DOMAIN F
        PROVE  /\ F[n] \in Seq(Values)
               /\ \A v : v \in ToSet(F[n]) <=>
                    \E j \in 1..i : s[j].type = "a" /\ s[j].name = n /\ v \in ToSet(s[j].value)
    <3>1. F[n] \in Seq(Values)
      BY <1>4
    <3>2. ASSUME NEW v
          PROVE  v \in ToSet(F[n]) <=>
                   \E j \in 1..i : s[j].type = "a" /\ s[j].name = n /\ v \in ToSet(s[j].value)
      <4>1. v \in ToSet(F[n]) <=> \E j \in 1..i - 1 :
              s[j].type = "a" /\ s[j].name = n /\ v \in ToSet(s[j].value)
        BY <1>4, Zenon
      <4> QED
        BY <2>3, <4>1, Zenon
    <3> QED
      BY <3>1, <3>2
  <2>6. Collected(F, s, i)
    BY <2>4, <2>5, Zenon DEF Collected
  <2>7. Collected(G, s, i)
    BY <2>1, <2>6
  <2> QED
    BY <2>7 DEF G, l
<1>6. CASE l.type = "a"
  <2>1. /\ DOMAIN G = DOMAIN F \cup {l.name}
        /\ \A n \in DOMAIN F : n # l.name => G[n] = F[n]
        /\ G[l.name] = IF l.name \in DOMAIN F THEN F[l.name] \o l.value ELSE l.value
    BY <1>6 DEF AddLine, AddAttribute
  <2> HIDE DEF l, G
  <2>2. ASSUME NEW n
        PROVE  n \in DOMAIN G <=> \E j \in 1..i : s[j].type = "a" /\ s[j].name = n
    <3>1. n \in DOMAIN G <=> n \in DOMAIN F \/ n = l.name
      BY <2>1
    <3>2. (\E j \in 1..i : s[j].type = "a" /\ s[j].name = n)
            <=> (\E j \in 1..i - 1 : s[j].type = "a" /\ s[j].name = n) \/ n = l.name
      BY <1>3, <1>6
    <3> QED
      BY <1>4, <3>1, <3>2
  <2>3. ASSUME NEW n \in DOMAIN G
        PROVE  /\ G[n] \in Seq(Values)
               /\ \A v : v \in ToSet(G[n]) <=>
                    \E j \in 1..i : s[j].type = "a" /\ s[j].name = n /\ v \in ToSet(s[j].value)
    <3>1. CASE n # l.name
      <4>1. n \in DOMAIN F /\ G[n] = F[n]
        BY <2>1, <2>3, <3>1
      <4>2. \A v : (\E j \in 1..i : s[j].type = "a" /\ s[j].name = n /\ v \in ToSet(s[j].value))
              <=> \E j \in 1..i - 1 :
                    s[j].type = "a" /\ s[j].name = n /\ v \in ToSet(s[j].value)
        BY <1>3, <3>1
      <4> QED
        BY <1>4, <4>1, <4>2
    <3>2. CASE n = l.name /\ n \notin DOMAIN F
      <4>1. G[n] = l.value
        BY <2>1, <3>2
      <4>2. \A v : (\E j \in 1..i : s[j].type = "a" /\ s[j].name = n /\ v \in ToSet(s[j].value))
              <=> v \in ToSet(l.value)
        BY <1>3, <1>4, <1>6, <3>2
      <4> QED
        BY <1>2, <4>1, <4>2
    <3>3. CASE n = l.name /\ n \in DOMAIN F
      <4>1. G[n] = F[n] \o l.value /\ F[n] \in Seq(Values)
        BY <1>4, <2>1, <3>3
      <4>2. G[n] \in Seq(Values) /\ ToSet(G[n]) = ToSet(F[n]) \cup ToSet(l.value)
        BY <1>2, <4>1, ConcatElements
      <4>3. \A v : (\E j \in 1..i : s[j].type = "a" /\ s[j].name = n /\ v \in ToSet(s[j].value))
              <=> \/ \E j \in 1..i - 1 :
                       s[j].type = "a" /\ s[j].name = n /\ v \in ToSet(s[j].value)
                  \/ v \in ToSet(l.value)
        BY <1>3, <1>6, <3>3
      <4> QED
        BY <1>4, <3>3, <4>2, <4>3
    <3> QED
      BY <3>1, <3>2, <3>3
  <2>4. Collected(G, s, i)
    BY <2>2, <2>3 DEF Collected
  <2> QED
    BY <2>4 DEF G, l
<1> QED
  BY <1>5, <1>6

LEMMA AllCollected ==
  ASSUME NEW s \in Seq(Lines)
  PROVE  Collected(FoldLeft(AddLine, NoAttributes, s), s, Len(s))
<1>1. PICK f : /\ f[0] = NoAttributes
               /\ \A i \in 1..Len(s) : f[i] = AddLine(f[i - 1], s[i])
               /\ FoldLeft(AddLine, NoAttributes, s) = f[Len(s)]
  BY LineByLine
<1> DEFINE T == {i \in Nat : i <= Len(s) => Collected(f[i], s, i)}
<1>2. 0 \in T
  <2>1. DOMAIN NoAttributes = {} /\ 1..0 = {}
    BY DEF NoAttributes
  <2>2. Collected(NoAttributes, s, 0)
    BY <2>1 DEF Collected
  <2> QED
    BY <1>1, <2>2
<1>3. ASSUME NEW i \in T PROVE i + 1 \in T
  <2>1. i \in Nat /\ i + 1 \in Nat /\ i + 1 - 1 = i
    OBVIOUS
  <2>2. ASSUME i + 1 <= Len(s) PROVE Collected(f[i + 1], s, i + 1)
    <3>1. i + 1 \in 1..Len(s) /\ Collected(f[i], s, i)
      <4> DEFINE n == Len(s)
      <4>1. n \in Nat /\ i + 1 <= n /\ (i <= n => Collected(f[i], s, i))
        BY <2>2
      <4> HIDE DEF n
      <4>2. i + 1 \in 1..n /\ Collected(f[i], s, i)
        BY <2>1, <4>1
      <4> QED
        BY <4>2 DEF n
    <3>2. f[i + 1] = AddLine(f[i], s[i + 1])
      BY <1>1, <2>1, <3>1
    <3> DEFINE k == i + 1
    <3>3. k \in 1..Len(s) /\ Collected(f[i], s, k - 1)
      BY <2>1, <3>1
    <3> HIDE DEF k
    <3>4. Collected(AddLine(f[i], s[k]), s, k)
      BY <3>3, NextCollected
    <3> QED
      BY <3>2, <3>4 DEF k
  <2> QED
    BY <2>1, <2>2
<1>4. T = Nat
  <2> HIDE DEF T
  <2>1. T \in SUBSET Nat
    BY DEF T
  <2> QED
    BY <1>2, <1>3, <2>1, Induction
<1>5. Len(s) \in Nat
  OBVIOUS
<1>6. Collected(f[Len(s)], s, Len(s))
  BY <1>4, <1>5
<1> QED
  BY <1>1, <1>6

-----------------------------------------------------------------------------
(* What has been read of a section, and which section is chosen.           *)

LEMMA SectionEndRange ==
  ASSUME input \in Seq(Lines), NEW i \in Sections
  PROVE  i \in 1..Len(input) /\ SectionEnd(i) \in i..Len(input)
<1> DEFINE n == Len(input)
           T == {j \in Sections : j > i} \cup {n + 1}
<1>1. n \in Nat /\ i \in 1..n /\ \A j \in Sections : j \in 1..n
  BY DEF Sections
<1>2. SectionEnd(i) = Min(T) - 1
  BY DEF SectionEnd
<1> HIDE DEF n
<1>3. T \in SUBSET Nat /\ T # {}
  <2>1. \A j \in T : j \in Nat
    <3> SUFFICES ASSUME NEW j \in T PROVE j \in Nat
      OBVIOUS
    <3>1. j \in 1..n \/ j = n + 1
      BY <1>1
    <3> QED
      BY <1>1, <3>1
  <2>2. n + 1 \in T
    OBVIOUS
  <2> HIDE DEF T
  <2> QED
    BY <2>1, <2>2
<1>4. PICK m \in T : m = Min(T)
  BY <1>3, MinOfNaturals
<1>5. m \in i + 1..n + 1
  BY <1>1, <1>4
<1> HIDE DEF T
<1>6. SectionEnd(i) \in i..n
  BY <1>1, <1>2, <1>4, <1>5
<1> QED
  BY <1>1, <1>6 DEF n

\* The lines of a section that count are those that ReadMedia takes.
LEMMA CountedLines ==
  ASSUME input \in Seq(Lines), NEW i \in Sections,
         NEW u, u = UpTo(SubSeq(input, i + 1, SectionEnd(i)), MediaTypes)
  PROVE  /\ u \in Seq(Lines)
         /\ \A j : Counts(i, j) <=> j \in i + 1..i + Len(u)
         /\ \A k \in 1..Len(u) : u[k] = input[i + k]
         /\ i \in Nat /\ i + Len(u) <= Len(input)
<1> DEFINE e == SectionEnd(i)
           s == SubSeq(input, i + 1, e)
           n == Len(u)
<1>1. Len(input) \in Nat /\ i \in 1..Len(input) /\ e \in i..Len(input)
  BY SectionEndRange
<1> HIDE DEF e
<1>2. s \in Seq(Lines) /\ Len(s) = e - i /\ \A k \in 1..e - i : s[k] = input[i + k]
  <2> DEFINE a == i + 1
  <2>1. a \in 1..Len(input) + 1 /\ e \in a - 1..Len(input) /\ e - a + 1 = e - i
        /\ \A k \in 1..e - i : a + k - 1 = i + k
    BY <1>1
  <2> HIDE DEF a
  <2>2. /\ SubSeq(input, a, e) \in Seq(Lines)
        /\ Len(SubSeq(input, a, e)) = e - a + 1
        /\ \A k \in 1..e - a + 1 : SubSeq(input, a, e)[k] = input[a + k - 1]
    BY <2>1, Cut
  <2> QED
    BY <2>1, <2>2 DEF a
<1> HIDE DEF s
<1>3. /\ n \in 0..Len(s) /\ u = SubSeq(s, 1, n)
      /\ \A k \in 1..n : s[k].type \in MediaTypes
      /\ n < Len(s) => s[n + 1].type \notin MediaTypes
  <2>1. u = UpTo(s, MediaTypes)
    BY DEF s, e
  <2> QED
    BY <1>2, <2>1, UpToFacts
<1>4. n \in 0..e - i
  BY <1>2, <1>3
<1>5. u \in Seq(Lines) /\ \A k \in 1..n : u[k] = s[k]
  <2>1. 1 \in 1..Len(s) + 1 /\ n \in 1 - 1..Len(s) /\ n - 1 + 1 = n
        /\ \A k \in 1..n : 1 + k - 1 = k
    BY <1>1, <1>2, <1>4
  <2> HIDE DEF n
  <2>2. /\ SubSeq(s, 1, n) \in Seq(Lines)
        /\ \A k \in 1..n - 1 + 1 : SubSeq(s, 1, n)[k] = s[1 + k - 1]
    BY <1>2, <2>1, Cut
  <2> QED
    BY <1>3, <2>1, <2>2
<1> HIDE DEF n
<1>6. ASSUME NEW j, Counts(i, j) PROVE j \in i + 1..i + n
  <2>1. j \in i + 1..e /\ \A k \in i + 1..j : input[k].type \in MediaTypes
    BY <1>6 DEF Counts, Section, e
  <2> SUFFICES ASSUME i + n < j PROVE FALSE
    BY <1>1, <1>4, <2>1
  <2>2. n < e - i /\ n + 1 \in 1..e - i /\ i + (n + 1) \in i + 1..j
    BY <1>1, <1>4, <2>1
  <2>3. s[n + 1] = input[i + (n + 1)]
    BY <1>2, <2>2
  <2> QED
    BY <1>2, <1>3, <2>1, <2>2, <2>3
<1>7. ASSUME NEW j \in i + 1..i + n PROVE Counts(i, j)
  <2>1. j \in i + 1..e
    BY <1>1, <1>4
  <2>2. ASSUME NEW k \in i + 1..j PROVE input[k].type \in MediaTypes
    <3>1. k - i \in 1..n /\ k - i \in 1..e - i /\ i + (k - i) = k
      BY <1>1, <1>4
    <3>2. s[k - i] = input[i + (k - i)]
      BY <1>2, <3>1
    <3> QED
      BY <1>3, <3>1, <3>2
  <2> QED
    BY <2>1, <2>2 DEF Counts, Section, e
<1>8. \A k \in 1..n : u[k] = input[i + k]
  <2>1. \A k \in 1..n : k \in 1..e - i
    BY <1>1, <1>4
  <2> QED
    BY <1>2, <1>5, <2>1
<1>9. i \in Nat /\ i + n <= Len(input)
  BY <1>1, <1>4
<1> QED
  BY <1>5, <1>6, <1>7, <1>8, <1>9 DEF n

\* A line that says v of the attribute n, in the section at i.
Says(i, n, v, j) ==
  Counts(i, j) /\ input[j].type = "a" /\ input[j].name = n /\ v \in ToSet(input[j].value)

LEMMA SectionFacts ==
  ASSUME input \in Seq(Lines), NEW i \in Sections, NEW r, r = SectionRead(i)
  PROVE  /\ Msrp(r) <=> input[i].name \in MsrpProtocols \cup {"short"}
         /\ \A n : n \in DOMAIN r.attributes <=> Has(i, n)
         /\ \A n \in DOMAIN r.attributes :
              /\ r.attributes[n] \in Seq(Values)
              /\ \A v : v \in ToSet(r.attributes[n]) <=> \E j \in DOMAIN input : Says(i, n, v, j)
<1> DEFINE s == SubSeq(input, i + 1, SectionEnd(i))
           u == UpTo(s, MediaTypes)
           F == FoldLeft(AddLine, NoAttributes, u)
<1>1. CASE input[i].name = "short"
  <2>1. r = [proto |-> "TCP/MSRP", attributes |-> NoAttributes]
    BY <1>1 DEF SectionRead, ReadMedia
  <2>2. DOMAIN r.attributes = {} /\ Msrp(r)
    BY <2>1 DEF NoAttributes, Msrp, MsrpProtocols
  <2>3. \A n : ~Has(i, n)
    BY <1>1 DEF Has
  <2> QED
    BY <1>1, <2>2, <2>3
<1>2. CASE input[i].name # "short"
  <2>1. r = [proto |-> input[i].name, attributes |-> F]
    BY <1>2 DEF SectionRead, ReadMedia
  <2>2. Msrp(r) <=> input[i].name \in MsrpProtocols \cup {"short"}
    BY <1>2, <2>1 DEF Msrp
  <2>3. r.attributes = F
    BY <2>1
  <2> HIDE DEF s
  <2>4. /\ u \in Seq(Lines)
        /\ \A j : Counts(i, j) <=> j \in i + 1..i + Len(u)
        /\ \A k \in 1..Len(u) : u[k] = input[i + k]
        /\ i \in Nat /\ i + Len(u) <= Len(input)
    BY CountedLines DEF s
  <2> HIDE DEF u
  <2>5. Collected(F, u, Len(u))
    BY <2>4, AllCollected
  <2>6. Len(u) \in Nat /\ Len(input) \in Nat /\ DOMAIN input = 1..Len(input)
    BY <2>4
  <2>7. ASSUME NEW k \in 1..Len(u)
        PROVE  i + k \in DOMAIN input /\ Counts(i, i + k) /\ u[k] = input[i + k]
    <3>1. i + k \in i + 1..i + Len(u) /\ i + k \in 1..Len(input)
      BY <2>4, <2>6
    <3> QED
      BY <2>4, <2>6, <3>1
  <2>8. ASSUME NEW j, Counts(i, j) PROVE \E k \in 1..Len(u) : j = i + k
    <3>1. j \in i + 1..i + Len(u)
      BY <2>4, <2>8
    <3>2. j - i \in 1..Len(u) /\ j = i + (j - i)
      BY <2>4, <2>6, <3>1
    <3> QED
      BY <3>2
  <2>9. ASSUME NEW n
        PROVE  n \in DOMAIN F <=> Has(i, n)
    <3>1. n \in DOMAIN F <=> \E k \in 1..Len(u) : u[k].type = "a" /\ u[k].name = n
      BY <2>5 DEF Collected
    <3>2. Has(i, n) <=> \E j \in DOMAIN input :
            Counts(i, j) /\ input[j].type = "a" /\ input[j].name = n
      BY <1>2 DEF Has
    <3> QED
      BY <2>7, <2>8, <3>1, <3>2
  <2>10. ASSUME NEW n \in DOMAIN F
         PROVE  /\ F[n] \in Seq(Values)
                /\ \A v : v \in ToSet(F[n]) <=> \E j \in DOMAIN input : Says(i, n, v, j)
    <3>1. F[n] \in Seq(Values)
      BY <2>5 DEF Collected
    <3>2. ASSUME NEW v PROVE v \in ToSet(F[n]) <=> \E j \in DOMAIN input : Says(i, n, v, j)
      <4>1. v \in ToSet(F[n]) <=> \E k \in 1..Len(u) :
              u[k].type = "a" /\ u[k].name = n /\ v \in ToSet(u[k].value)
        BY <2>5 DEF Collected
      <4> QED
        BY <2>7, <2>8, <4>1 DEF Says
    <3> QED
      BY <3>1, <3>2
  <2> QED
    BY <2>2, <2>3, <2>9, <2>10
<1> QED
  BY <1>1, <1>2

LEMMA ChosenIsFirst ==
  ASSUME TypeInv, MediaInv, part = "media", lines = <<>>
  PROVE  /\ Chosen(media) = 0 <=> FirstMsrp = 0
         /\ FirstMsrp # 0 =>
              FirstMsrp \in Sections /\ media[Chosen(media)] = SectionRead(FirstMsrp)
<1> DEFINE I == {k \in 1..Len(media) : Msrp(media[k])}
           J == {i \in Sections : input[i].name \in MsrpProtocols \cup {"short"}}
<1>1. input \in Seq(Lines) /\ Len(input) \in Nat /\ Pos = Len(input)
      /\ Sections \subseteq 1..Len(input)
  <2>1. /\ Len(input) \in Nat /\ Pos \in 0..Len(input) /\ (lines # <<>> <=> Pos < Len(input))
        /\ input \in Seq(Lines) /\ DOMAIN input = 1..Len(input)
    BY NextLine
  <2>2. Pos = Len(input)
    <3> DEFINE p == Pos
               n == Len(input)
    <3>1. n \in Nat /\ p \in 0..n /\ ~(p < n)
      BY <2>1
    <3> HIDE DEF p, n
    <3>2. p = n
      BY <3>1
    <3> QED
      BY <3>2 DEF p, n
  <2> QED
    BY <2>1, <2>2 DEF Sections
<1>2. PICK at \in Seq(Nat) : ReadAt(at)
  BY DEF MediaInv
<1>3. DOMAIN media = 1..Len(media) /\ Len(media) \in Nat
  BY DEF MediaInv
<1>4. /\ \A k \in 1..Len(media) : at[k] \in Sections /\ media[k] = SectionRead(at[k])
      /\ \A k, l \in 1..Len(media) : k < l => at[k] < at[l]
      /\ \A i \in Sections : \E k \in 1..Len(media) : at[k] = i
  <2>1. ASSUME NEW i \in Sections PROVE i <= Pos
    BY <1>1
  <2>2. /\ DOMAIN at = 1..Len(media)
        /\ \A k \in DOMAIN at : at[k] \in Sections /\ media[k] = SectionRead(at[k])
        /\ \A k, l \in DOMAIN at : k < l => at[k] < at[l]
        /\ \A i \in Sections : i <= Pos => \E k \in DOMAIN at : at[k] = i
    BY <1>2, <1>3, Zenon DEF ReadAt
  <2> QED
    BY <2>1, <2>2
<1>5. \A k \in 1..Len(media) : k \in I <=> at[k] \in J
  <2> SUFFICES ASSUME NEW k \in 1..Len(media) PROVE Msrp(media[k]) <=> at[k] \in J
    OBVIOUS
  <2>1. at[k] \in Sections /\ media[k] = SectionRead(at[k])
    BY <1>4
  <2>2. Msrp(media[k]) <=> input[at[k]].name \in MsrpProtocols \cup {"short"}
    BY <1>1, <2>1, SectionFacts
  <2> QED
    BY <2>1, <2>2
<1>6. Chosen(media) = IF I # {} THEN Min(I) ELSE 0
  BY DEF Chosen, SelectInSeq
<1>7. FirstMsrp = IF J # {} THEN Min(J) ELSE 0
  BY DEF FirstMsrp
<1>8. I \in SUBSET Nat /\ J \in SUBSET Nat /\ 0 \notin I /\ 0 \notin J /\ J \subseteq Sections
      /\ I \subseteq 1..Len(media)
  <2> DEFINE n == Len(input)
             l == Len(media)
  <2>1. n \in Nat /\ l \in Nat /\ I \subseteq 1..l /\ J \subseteq Sections /\ J \subseteq 1..n
    BY <1>1, <1>3
  <2> HIDE DEF n, l, I, J
  <2>2. I \in SUBSET Nat /\ J \in SUBSET Nat /\ 0 \notin I /\ 0 \notin J
    BY <2>1
  <2> QED
    BY <2>1, <2>2 DEF l
<1>9. I # {} <=> J # {}
  BY <1>4, <1>5, <1>8
<1>10. CASE J = {}
  BY <1>6, <1>7, <1>9, <1>10
<1>11. CASE J # {}
  <2> HIDE DEF I, J
  <2>1. Min(I) \in I /\ \A y \in I : Min(I) <= y
    BY <1>8, <1>9, <1>11, MinOfNaturals
  <2>2. Min(J) \in J /\ \A y \in J : Min(J) <= y
    BY <1>8, <1>11, MinOfNaturals
  <2>3. PICK c \in I : c = Min(I)
    BY <2>1
  <2>4. PICK k \in 1..Len(media) : at[k] = Min(J)
    BY <1>4, <1>8, <2>2
  <2>5. k \in I /\ c <= k /\ at[c] \in J
    BY <1>5, <1>8, <2>1, <2>2, <2>3, <2>4
  <2>6. c = k
    <3> SUFFICES ASSUME c < k PROVE FALSE
      BY <1>3, <1>8, <2>5
    <3>1. at[c] < at[k] /\ at[k] <= at[c]
      BY <1>4, <1>8, <2>2, <2>4, <2>5
    <3>2. at[c] \in Nat /\ at[k] \in Nat
      BY <1>8, <2>2, <2>4, <2>5
    <3> QED
      BY <3>1, <3>2
  <2>7. Chosen(media) = k /\ FirstMsrp = at[k]
    BY <1>6, <1>7, <1>9, <1>11, <2>3, <2>4, <2>6
  <2>8. at[k] \in Sections /\ k # 0 /\ at[k] # 0 /\ media[k] = SectionRead(at[k])
    BY <1>4, <1>8, <2>2, <2>4, <2>5
  <2> QED
    BY <2>7, <2>8
<1> QED
  BY <1>10, <1>11

-----------------------------------------------------------------------------
(* What setDescription accepts, and what may then be sent.                 *)

\* The attributes that are taken are those of the section that is chosen.
LEMMA Taken ==
  ASSUME SdpInv, outcome \in {"success", "failure"}
  PROVE  /\ PrefixOK /\ FirstMsrp # 0 /\ FirstMsrp \in Sections
         /\ outcome = "success" <=> Has(FirstMsrp, "path")
         /\ outcome = "success" => remote = SectionRead(FirstMsrp).attributes
<1>1. /\ part = "media" /\ lines = <<>> /\ Chosen(media) # 0
      /\ (outcome = "success") <=> "path" \in DOMAIN media[Chosen(media)].attributes
      /\ outcome = "success" => remote = media[Chosen(media)].attributes
  BY DEF SdpInv, OutcomeInv
<1>2. FirstMsrp # 0 /\ FirstMsrp \in Sections /\ media[Chosen(media)] = SectionRead(FirstMsrp)
  BY <1>1, ChosenIsFirst DEF SdpInv
<1>3. PrefixOK
  BY <1>1 DEF SdpInv, PrefixInv
<1>4. "path" \in DOMAIN SectionRead(FirstMsrp).attributes <=> Has(FirstMsrp, "path")
  BY <1>2, SectionFacts DEF SdpInv, TypeInv
<1> QED
  BY <1>1, <1>2, <1>3, <1>4

\* Of a medium without unexpected lines, every line counts.
LEMMA ExpectedCounts ==
  ASSUME NEW i \in Sections, input \in Seq(Lines), AllExpected(i), NEW j \in Section(i)
  PROVE  j \in DOMAIN input /\ Counts(i, j)
<1>1. i \in 1..Len(input) /\ j \in i + 1 .. SectionEnd(i) /\ Len(input) \in Nat
  BY DEF Sections, Section
<1>2. SectionEnd(i) \in i..Len(input)
  BY SectionEndRange
<1>3. j \in DOMAIN input /\ \A k \in i + 1 .. j : k \in Section(i)
  BY <1>1, <1>2 DEF Section
<1> QED
  BY <1>3 DEF Counts, AllExpected

\* A description is accepted if and only if it is well formed up to the media
\* and its first MSRP medium has a path before any unexpected line; and if no
\* line of that medium is unexpected, all it says of an attribute has been read
\* (Sdp.js, parse; the lookup in Session.js:244-256).
THEOREM AcceptedOnlyIfRead == Spec => []AcceptedIsRead
<1>1. SdpInv => AcceptedIsRead
  <2> SUFFICES ASSUME SdpInv, outcome # "none"
               PROVE  /\ outcome = "success" <=>
                           PrefixOK /\ FirstMsrp # 0 /\ Has(FirstMsrp, "path")
                      /\ outcome = "success" /\ AllExpected(FirstMsrp) =>
                           \A j \in Section(FirstMsrp) : input[j].type = "a" =>
                             /\ input[j].name \in DOMAIN remote
                             /\ ToSet(input[j].value) \subseteq ToSet(remote[input[j].name])
    BY DEF AcceptedIsRead
  <2>1. CASE outcome = "threw"
    <3>1. /\ part = "rejected" \/ (part = "media" /\ lines = <<>>)
          /\ Chosen(media) = 0
      BY <2>1 DEF SdpInv, OutcomeInv
    <3>2. CASE part = "rejected"
      BY <2>1, <3>2 DEF SdpInv, PrefixInv
    <3>3. CASE part = "media" /\ lines = <<>>
      BY <2>1, <3>1, <3>3, ChosenIsFirst DEF SdpInv
    <3> QED
      BY <3>1, <3>2, <3>3
  <2>2. CASE outcome = "failure"
    BY <2>2, Taken
  <2>3. CASE outcome = "success"
    <3>1. /\ PrefixOK /\ FirstMsrp # 0 /\ FirstMsrp \in Sections /\ Has(FirstMsrp, "path")
          /\ remote = SectionRead(FirstMsrp).attributes
      BY <2>3, Taken
    <3> DEFINE i == FirstMsrp
    <3>2. i \in Sections /\ input[i].name # "short" /\ input \in Seq(Lines)
          /\ remote = SectionRead(i).attributes
      BY <3>1 DEF Has, SdpInv, TypeInv
    <3> HIDE DEF i
    <3>3. ASSUME NEW j \in DOMAIN input, Counts(i, j), input[j].type = "a"
          PROVE  /\ input[j].name \in DOMAIN remote
                 /\ ToSet(input[j].value) \subseteq ToSet(remote[input[j].name])
      <4> DEFINE n == input[j].name
      <4>1. Has(i, n)
        BY <3>2, <3>3 DEF Has
      <4>2. \A v \in ToSet(input[j].value) : Says(i, n, v, j)
        BY <3>3 DEF Says
      <4> HIDE DEF n
      <4>3. n \in DOMAIN remote
        BY <3>2, <4>1, SectionFacts
      <4>4. \A v : v \in ToSet(remote[n]) <=> \E k \in DOMAIN input : Says(i, n, v, k)
        BY <3>2, <4>3, SectionFacts
      <4>5. ToSet(input[j].value) \subseteq ToSet(remote[n])
        BY <4>2, <4>4
      <4> QED
        BY <4>3, <4>5 DEF n
    <3>4. ASSUME AllExpected(i), NEW j \in Section(i), input[j].type = "a"
          PROVE  /\ input[j].name \in DOMAIN remote
                 /\ ToSet(input[j].value) \subseteq ToSet(remote[input[j].name])
      BY <3>2, <3>3, <3>4, ExpectedCounts
    <3> QED
      BY <2>3, <3>1, <3>4 DEF i
  <2>4. outcome \in {"none", "threw", "success", "failure"}
    BY DEF SdpInv, OutcomeInv
  <2> QED
    BY <2>1, <2>2, <2>3, <2>4
<1> QED
  BY <1>1, SdpInvariance, PTL

\* After setDescription a message is sent only if the medium that was chosen
\* lists its type, or a wildcard for it, and, if no line of that medium is
\* unexpected, only if none of them refuses to receive (Session.js:56-84),
\* although the attributes are looked up in remoteSdp.  A refusal given before
\* the media or behind an unexpected line is not part of the statement.
THEOREM OnlyAcceptedIsSent == Spec => []NothingUnaccepted
<1>1. SdpInv => NothingUnaccepted
  <2> SUFFICES ASSUME SdpInv, outcome = "success", "accept-types" \in DOMAIN remote,
                      NEW type \in ContentTypes, CanSend(type)
               PROVE  /\ \E j \in Section(FirstMsrp) :
                           /\ input[j].name = "accept-types"
                           /\ {type, <<"*", "">>, <<type[1], "*">>}
                                \cap ToSet(input[j].value) # {}
                      /\ AllExpected(FirstMsrp) =>
                           \A j \in Section(FirstMsrp) : input[j].type = "a" =>
                             input[j].name \notin {"sendonly", "inactive"}
    BY DEF NothingUnaccepted
  <2> DEFINE i == FirstMsrp
  <2>1. i \in Sections /\ remote = SectionRead(i).attributes /\ input \in Seq(Lines)
    BY Taken DEF SdpInv, TypeInv
  <2> HIDE DEF i
  <2>2. /\ \A n : n \in DOMAIN remote <=> Has(i, n)
        /\ \A n \in DOMAIN remote :
             /\ remote[n] \in Seq(Values)
             /\ \A v : v \in ToSet(remote[n]) <=> \E j \in DOMAIN input : Says(i, n, v, j)
    BY <2>1, SectionFacts
  <2>3. ~Has(i, "sendonly") /\ ~Has(i, "inactive")
    <3>1. {"sendonly", "inactive"} \cap DOMAIN remote = {}
      BY DEF CanSend, Silenced
    <3>2. "sendonly" \notin DOMAIN remote /\ "inactive" \notin DOMAIN remote
      BY <3>1
    <3> QED
      BY <2>2, <3>2
  <2>4. PICK accepted \in ToSet(remote["accept-types"]) : Accepts(accepted, type)
    BY DEF CanSend
  <2>5. accepted \in Words \X Words
    <3>1. remote["accept-types"] \in Seq(Values)
      BY <2>2
    <3>2. \A s \in Seq(Values) : ToSet(s) \subseteq Values
      BY DEF ToSet
    <3> QED
      BY <2>4, <3>1, <3>2 DEF Values
  <2>6. accepted \in {type, <<"*", "">>, <<type[1], "*">>}
    <3>1. accepted = <<accepted[1], accepted[2]>>
      BY <2>5
    <3> QED
      BY <2>4, <3>1 DEF Accepts
  <2>7. PICK j \in DOMAIN input : Says(i, "accept-types", accepted, j)
    BY <2>2, <2>4
  <2>8. /\ j \in Section(i) /\ input[j].name = "accept-types"
        /\ {type, <<"*", "">>, <<type[1], "*">>} \cap ToSet(input[j].value) # {}
    BY <2>6, <2>7 DEF Says, Counts
  <2>9. ASSUME AllExpected(i), NEW k \in Section(i), input[k].type = "a"
        PROVE  input[k].name \notin {"sendonly", "inactive"}
    <3>1. k \in DOMAIN input /\ Counts(i, k)
      BY <2>1, <2>9, ExpectedCounts
    <3>2. input[i].name # "short"
      <4>1. Has(i, "path")
        BY Taken DEF i
      <4> QED
        BY <4>1 DEF Has
    <3>3. Has(i, input[k].name)
      BY <2>9, <3>1, <3>2 DEF Has
    <3> QED
      BY <2>3, <3>3
  <2> QED
    BY <2>8, <2>9 DEF i
<1> QED
  BY <1>1, SdpInvariance, PTL

-----------------------------------------------------------------------------
(* What this library writes is read as it was meant.                       *)

LEMMA WrittenLines ==
  ASSUME NEW d \in Locals, NEW w, w = Written(d)
  PROVE  /\ w \in Seq(Lines) /\ Len(w) = 9
         /\ w[1].type = "v" /\ w[2].type = "o" /\ w[3].type = "s" /\ w[4].type = "c"
         /\ w[5].type = "t" /\ w[6].type = "m" /\ w[6].name = "TCP/MSRP"
         /\ w[7].type = "a" /\ w[7].name = "accept-types" /\ w[7].value = d.acceptTypes
         /\ w[8].type = "a" /\ w[8].name = "setup" /\ w[8].value = <<d.setup>>
         /\ w[9].type = "a" /\ w[9].name = "path" /\ w[9].value = <<d.path>>
<1> DEFINE a == <<Plain("v"), Plain("o"), Plain("s"), Plain("c"), Plain("t"),
                  Line("m", "TCP/MSRP", <<>>)>>
           b == <<Attribute("accept-types", d.acceptTypes), Attribute("setup", <<d.setup>>),
                  Attribute("path", <<d.path>>)>>
<1>1. w = a \o b /\ w \in Seq(Lines)
  BY WrittenType DEF Written
<1>2. Len(w) = 9
  BY <1>1
<1>3. /\ \A i \in 1..6 : w[i] = a[i]
      /\ \A i \in 7..9 : w[i] = b[i - 6]
  BY <1>1
<1>4. w[7] = b[1] /\ w[8] = b[2] /\ w[9] = b[3]
  BY <1>3
<1>5. /\ w[1] = Plain("v") /\ w[2] = Plain("o") /\ w[3] = Plain("s") /\ w[4] = Plain("c")
      /\ w[5] = Plain("t") /\ w[6] = Line("m", "TCP/MSRP", <<>>)
  BY <1>3
<1>6. /\ w[1].type = "v" /\ w[2].type = "o" /\ w[3].type = "s" /\ w[4].type = "c"
      /\ w[5].type = "t" /\ w[6].type = "m" /\ w[6].name = "TCP/MSRP"
  <2>1. \A type : Plain(type).type = type
    BY DEF Plain, Line
  <2>2. Line("m", "TCP/MSRP", <<>>).type = "m" /\ Line("m", "TCP/MSRP", <<>>).name = "TCP/MSRP"
    BY DEF Line
  <2> QED
    BY <1>5, <2>1, <2>2
<1>7. w[7].type = "a" /\ w[7].name = "accept-types" /\ w[7].value = d.acceptTypes
  BY <1>4 DEF Attribute, Line
<1>8. w[8].type = "a" /\ w[8].name = "setup" /\ w[8].value = <<d.setup>>
  BY <1>4 DEF Attribute, Line
<1>9. w[9].type = "a" /\ w[9].name = "path" /\ w[9].value = <<d.path>>
  BY <1>4 DEF Attribute, Line
<1> QED
  BY <1>1, <1>2, <1>6, <1>7, <1>8, <1>9

\* A written description is well formed and its only section is at line 6.
LEMMA WrittenMeans ==
  ASSUME TypeInv, NEW d \in local
  PROVE  PrefixOK /\ FirstMsrp = 6 /\ Sections = {6} /\ SectionEnd(6) = 9
<1>1. input = Written(d) /\ d \in Locals /\ input \in Seq(Lines)
  BY DEF TypeInv
<1>2. /\ Len(input) = 9
      /\ input[1].type = "v" /\ input[2].type = "o" /\ input[3].type = "s"
      /\ input[4].type = "c" /\ input[5].type = "t" /\ input[6].type = "m"
      /\ input[6].name = "TCP/MSRP" /\ input[7].type = "a" /\ input[8].type = "a"
      /\ input[9].type = "a"
  BY <1>1, WrittenLines
<1>3. DOMAIN input = 1..9
  BY <1>1, <1>2
<1>4. \A i \in 1..9 : i = 1 \/ i = 2 \/ i = 3 \/ i = 4 \/ i = 5 \/ i = 6 \/ i = 7 \/ i = 8 \/ i = 9
  OBVIOUS
<1>5. Sections = {6}
  <2>1. \A i \in 1..9 : input[i].type = "m" <=> i = 6
    BY <1>2, <1>4
  <2> QED
    BY <1>3, <2>1 DEF Sections
<1>6. SectionEnd(6) = 9
  <2>1. 6 \in 1..Len(input) /\ 9 \in 6..Len(input) /\ ~(9 < Len(input))
    BY <1>2
  <2>2. \A j \in 6 + 1..9 : Type(j) # "m"
    BY <1>3, <1>5 DEF Sections, Type
  <2> QED
    BY <1>1, <2>1, <2>2, SectionEndIs
<1>7. FirstMsrp = 6
  <2> DEFINE J == {i \in Sections : input[i].name \in MsrpProtocols \cup {"short"}}
  <2>1. J = {6}
    BY <1>2, <1>5 DEF MsrpProtocols
  <2>2. FirstMsrp = Min(J)
    BY <2>1 DEF FirstMsrp
  <2> HIDE DEF J
  <2>3. Min(J) \in J
    BY <2>1, MinOfNaturals
  <2> QED
    BY <2>1, <2>2, <2>3
<1>8. WellFormed(5, 6)
  <2>1. FirstAt(6)
    <3>1. \A i \in 1..6 - 1 : Type(i) # "m"
      BY <1>3, <1>5 DEF Sections, Type
    <3> QED
      BY <1>2, <3>1 DEF FirstAt, Type
  <2>2. TimesAt(5)
    <3>1. \A i \in 4..5 - 1 : i = 4
      OBVIOUS
    <3> QED
      BY <1>2, <3>1 DEF TimesAt, Type, PreTimingTypes
  <2>3. Heading(3)
    <3>1. \A i \in 1..3 : i = 1 \/ i = 2 \/ i = 3
      OBVIOUS
    <3> QED
      BY <1>2, <3>1 DEF Heading, Type
  <2>4. \A i \in 5..6 - 1 : i = 5
    OBVIOUS
  <2> QED
    BY <1>2, <2>1, <2>2, <2>3, <2>4 DEF WellFormed, Type
<1>9. PrefixOK
  BY <1>1, <1>8, PrefixMeaning
<1> QED
  BY <1>5, <1>6, <1>7, <1>9

\* What is written of d.
Described(d) ==
  [n \in {"accept-types", "setup", "path"} |->
     CASE n = "accept-types" -> d.acceptTypes
       [] n = "setup" -> <<d.setup>>
       [] n = "path" -> <<d.path>>]

LEMMA ThreeAttributes ==
  ASSUME NEW a, a.type = "a", a.name = "accept-types",
         NEW b, b.type = "a", b.name = "setup",
         NEW c, c.type = "a", c.name = "path",
         NEW f1, f1 = AddLine(NoAttributes, a),
         NEW f2, f2 = AddLine(f1, b), NEW f3, f3 = AddLine(f2, c)
  PROVE  f3 = [n \in {"accept-types", "setup", "path"} |->
                 CASE n = "accept-types" -> a.value
                   [] n = "setup" -> b.value
                   [] n = "path" -> c.value]
<1>1. DOMAIN f1 = {"accept-types"} /\ f1["accept-types"] = a.value
  BY DEF AddLine, AddAttribute, NoAttributes
<1>2. f2 = [n \in DOMAIN f1 \cup {"setup"} |->
              IF n # "setup" THEN f1[n]
              ELSE IF n \in DOMAIN f1 THEN f1[n] \o b.value ELSE b.value]
  BY DEF AddLine, AddAttribute
<1>3. /\ DOMAIN f2 = {"accept-types", "setup"}
      /\ f2["accept-types"] = a.value /\ f2["setup"] = b.value
  BY <1>1, <1>2
<1>4. f3 = [n \in DOMAIN f2 \cup {"path"} |->
              IF n # "path" THEN f2[n]
              ELSE IF n \in DOMAIN f2 THEN f2[n] \o c.value ELSE c.value]
  BY DEF AddLine, AddAttribute
<1>5. /\ DOMAIN f3 = {"accept-types", "setup", "path"} /\ f3 = [n \in DOMAIN f3 |-> f3[n]]
      /\ f3["accept-types"] = a.value /\ f3["setup"] = b.value /\ f3["path"] = c.value
  BY <1>3, <1>4
<1> QED
  BY <1>5

\* Each attribute is written once, so that no values are added up.
LEMMA WrittenAttributes ==
  ASSUME TypeInv, NEW d \in local
  PROVE  SectionRead(6).attributes = Described(d)
<1> DEFINE s == SubSeq(input, 6 + 1, SectionEnd(6))
           u == UpTo(s, MediaTypes)
<1>1. input = Written(d) /\ d \in Locals /\ input \in Seq(Lines)
  BY DEF TypeInv
<1>2. /\ Len(input) = 9 /\ input[6].name = "TCP/MSRP"
      /\ input[7].type = "a" /\ input[7].name = "accept-types" /\ input[7].value = d.acceptTypes
      /\ input[8].type = "a" /\ input[8].name = "setup" /\ input[8].value = <<d.setup>>
      /\ input[9].type = "a" /\ input[9].name = "path" /\ input[9].value = <<d.path>>
  BY <1>1, WrittenLines
<1>3. 6 \in Sections /\ SectionEnd(6) = 9
  BY WrittenMeans
<1>4. SectionRead(6).attributes = FoldLeft(AddLine, NoAttributes, u)
  BY <1>2 DEF SectionRead, ReadMedia
<1>5. /\ u \in Seq(Lines)
      /\ \A j : Counts(6, j) <=> j \in 6 + 1..6 + Len(u)
      /\ \A k \in 1..Len(u) : u[k] = input[6 + k]
      /\ 6 + Len(u) <= Len(input)
  BY <1>1, <1>3, CountedLines
<1> HIDE DEF u, s
<1>6. Counts(6, 9)
  <2>1. \A k \in 6 + 1..9 : k = 7 \/ k = 8 \/ k = 9
    OBVIOUS
  <2>2. \A k \in 6 + 1..9 : input[k].type \in MediaTypes
    BY <1>2, <2>1 DEF MediaTypes
  <2> QED
    BY <1>3, <2>2 DEF Counts, Section
<1>7. Len(u) = 3
  <2>1. Len(u) \in Nat /\ 9 \in 6 + 1..6 + Len(u) /\ 6 + Len(u) <= 9
    BY <1>2, <1>5, <1>6
  <2> DEFINE n == Len(u)
  <2>2. n \in Nat /\ 9 \in 6 + 1..6 + n /\ 6 + n <= 9
    BY <2>1
  <2> HIDE DEF n
  <2>3. n = 3
    BY <2>2
  <2> QED
    BY <2>3 DEF n
<1>8. u[1] = input[7] /\ u[2] = input[8] /\ u[3] = input[9]
  <2>1. \A k \in 1..3 : u[k] = input[6 + k]
    BY <1>5, <1>7
  <2> QED
    BY <2>1
<1>9. PICK f : /\ f[0] = NoAttributes
               /\ \A i \in 1..3 : f[i] = AddLine(f[i - 1], u[i])
               /\ FoldLeft(AddLine, NoAttributes, u) = f[3]
  BY <1>5, <1>7, LineByLine
<1>10. /\ f[1] = AddLine(NoAttributes, input[7]) /\ f[2] = AddLine(f[1], input[8])
       /\ f[3] = AddLine(f[2], input[9])
  BY <1>8, <1>9
<1>11. f[3] = [n \in {"accept-types", "setup", "path"} |->
                 CASE n = "accept-types" -> input[7].value
                   [] n = "setup" -> input[8].value
                   [] n = "path" -> input[9].value]
  BY <1>2, <1>10, ThreeAttributes
<1>12. f[3] = Described(d)
  BY <1>2, <1>11 DEF Described
<1> QED
  BY <1>4, <1>9, <1>12

\* What one party describes with getDescription is, attribute by attribute,
\* what the other has as remoteSdp after setDescription, for any types, role
\* and path (Session.js:139-190 and 244-256).
THEOREM DescribedIsUnderstood == Spec => []DescribedIsRead
<1>1. SdpInv => DescribedIsRead
  <2> SUFFICES ASSUME SdpInv, NEW d \in local, outcome # "none"
               PROVE  outcome = "success" /\ remote = Described(d)
    BY DEF DescribedIsRead, Described
  <2>1. TypeInv /\ input \in Seq(Lines)
    BY DEF SdpInv, TypeInv
  <2>2. PrefixOK /\ FirstMsrp = 6 /\ 6 \in Sections /\ SectionRead(6).attributes = Described(d)
    BY <2>1, WrittenMeans, WrittenAttributes
  <2>3. Has(6, "path")
    <3>1. "path" \in DOMAIN SectionRead(6).attributes
      BY <2>2 DEF Described
    <3> QED
      BY <2>1, <2>2, <3>1, SectionFacts
  <2>4. outcome # "threw"
    <3> SUFFICES ASSUME outcome = "threw" PROVE FALSE
      OBVIOUS
    <3>1. /\ part = "rejected" \/ (part = "media" /\ lines = <<>>)
          /\ Chosen(media) = 0
      BY DEF SdpInv, OutcomeInv
    <3>2. part # "rejected"
      BY <2>2 DEF SdpInv, PrefixInv
    <3> QED
      BY <2>2, <3>1, <3>2, ChosenIsFirst DEF SdpInv
  <2>5. outcome \in {"success", "failure"}
    BY <2>4 DEF SdpInv, OutcomeInv
  <2>6. outcome = "success" /\ remote = SectionRead(6).attributes
    BY <2>2, <2>3, <2>5, Taken
  <2> QED
    BY <2>2, <2>6
<1> QED
  BY <1>1, SdpInvariance, PTL
=============================================================================
