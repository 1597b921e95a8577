---------------------------- MODULE SequenceFacts ----------------------------
(***************************************************************************)
(* Facts about the operators of the community modules that the proofs of   *)
(* more than one component need.                                           *)
(***************************************************************************)
EXTENDS SequencesExt, Integers, SequenceTheorems, WellFoundedInduction, TLAPS

(* A non-empty set of naturals has a least element, which Min returns. *)
LEMMA MinOfNaturals ==
  ASSUME NEW S, S \subseteq Nat, S # {}
  PROVE  Min(S) \in S /\ \A n \in S : Min(S) <= n
<1> DEFINE Less == OpToRel(<, Nat)
<1>1. PICK x \in S : \A y \in S : ~(<<y, x>> \in Less)
  BY NatLessThanWellFounded, WFMin
<1>2. \A m, n \in Nat : m < n => <<m, n>> \in Less
  <2> SUFFICES ASSUME NEW m \in Nat, NEW n \in Nat, m < n PROVE <<m, n>> \in Less
    OBVIOUS
  <2>1. <<m, n>> \in Nat \X Nat /\ <<m, n>>[1] < <<m, n>>[2]
    OBVIOUS
  <2> QED
    BY ONLY <2>1, Zenon DEF OpToRel
<1> HIDE DEF Less
<1>3. ASSUME NEW y \in S PROVE x <= y
  <2>1. x \in Nat /\ y \in Nat
    OBVIOUS
  <2>2. ~(y < x)
    BY <1>1, <1>2, <2>1, Zenon
  <2> QED
    BY <2>1, <2>2
<1> QED
  BY <1>3 DEF Min

(* Induction up to a number, over the set of the numbers that are reached. *)
LEMMA InductionUpTo ==
  ASSUME NEW n \in Nat, NEW S, 0 \in S, \A i \in 1..n : i - 1 \in S => i \in S
  PROVE  \A i \in 0..n : i \in S
<1> DEFINE T == {i \in 0..n : i \notin S}
<1> SUFFICES ASSUME T # {} PROVE FALSE
  OBVIOUS
<1> PICK m : m = Min(T)
  OBVIOUS
<1>1. m \in T /\ \A i \in T : m <= i
  BY MinOfNaturals
<1>2. m \in 1..n /\ m - 1 \in 0..n
  BY <1>1
<1>3. m - 1 \notin T
  BY <1>1, <1>2
<1> QED
  BY <1>1, <1>2, <1>3

(* f is a course of n rounds from start on: step[i] is the i-th, and goes   *)
(* on from an earlier one, back[i].                                        *)
Course(f, n, start, back, step) == f[0] = start /\ \A i \in 1..n : f[i] = step[i][f[back[i]]]

(* A recursive function of that form exists on values of V. *)
LEMMA CourseExists ==
  ASSUME NEW V, NEW n \in Nat, NEW start \in V, NEW step \in [1..n -> [V -> V]],
         NEW back \in [1..n -> Nat], \A i \in 1..n : back[i] < i
  PROVE  \E f \in [0..n -> V] : Course(f, n, start, back, step)
<1> DEFINE Runs(f, m) == f[0] = start /\ \A i \in 1..m : f[i] = step[i][f[back[i]]]
           S == {m \in 0..n : \E f \in [0..m -> V] : Runs(f, m)}
<1>1. 0 \in S
  <2> DEFINE f == [i \in 0..0 |-> start]
  <2>1. f \in [0..0 -> V] /\ f[0] = start
    OBVIOUS
  <2>2. ~(\E i : i \in 1..0) /\ 0 \in 0..n
    OBVIOUS
  <2> HIDE DEF f
  <2>3. Runs(f, 0)
    BY <2>1, <2>2
  <2> HIDE DEF Runs
  <2> QED
    BY <2>1, <2>2, <2>3
<1>2. ASSUME NEW m \in 1..n, m - 1 \in S PROVE m \in S
  <2> PICK f \in [0..(m - 1) -> V] : Runs(f, m - 1)
    BY <1>2
  <2> DEFINE g == [i \in 0..m |-> IF i = m THEN step[m][f[back[m]]] ELSE f[i]]
  <2>1. back[m] \in 0..(m - 1) /\ step[m] \in [V -> V]
    OBVIOUS
  <2>2. g \in [0..m -> V]
    BY <2>1
  <2>3. g[0] = start
    OBVIOUS
  <2>4. ASSUME NEW i \in 1..m PROVE g[i] = step[i][g[back[i]]]
    <3>1. back[i] \in 0..m /\ back[i] # m /\ i \in 0..m
      OBVIOUS
    <3>2. g[back[i]] = f[back[i]]
      BY <3>1
    <3>3. g[i] = step[i][f[back[i]]]
      <4>1. CASE i = m
        BY <3>1, <4>1
      <4>2. CASE i # m
        <5>1. i \in 1..(m - 1)
          BY <4>2
        <5> QED
          BY <3>1, <4>2, <5>1
      <4> QED
        BY <4>1, <4>2
    <3> HIDE DEF g
    <3> QED
      BY <3>2, <3>3
  <2> HIDE DEF g
  <2>5. Runs(g, m)
    BY <2>3, <2>4
  <2>6. m \in 0..n
    OBVIOUS
  <2> HIDE DEF Runs
  <2> QED
    BY <2>2, <2>5, <2>6
<1>3. n \in S
  <2> HIDE DEF S
  <2>1. \A i \in 0..n : i \in S
    BY <1>1, <1>2, InductionUpTo
  <2> QED
    BY <2>1
<1> QED
  BY <1>3 DEF Course

(* f is the course of n rounds of a loop, step[i] being the i-th. *)
Rounds(f, n, start, step) == f[0] = start /\ \A i \in 1..n : f[i] = step[i][f[i - 1]]

(* A loop of n rounds on values of V has a course. *)
LEMMA RoundsExist ==
  ASSUME NEW V, NEW n \in Nat, NEW start \in V, NEW step \in [1..n -> [V -> V]]
  PROVE  \E f \in [0..n -> V] : Rounds(f, n, start, step)
<1> DEFINE back == [i \in 1..n |-> i - 1]
<1>1. back \in [1..n -> Nat] /\ \A i \in 1..n : back[i] = i - 1 /\ back[i] < i
  OBVIOUS
<1> HIDE DEF back
<1> PICK f \in [0..n -> V] : Course(f, n, start, back, step)
  BY <1>1, CourseExists
<1>2. f[0] = start /\ \A i \in 1..n : f[i] = step[i][f[back[i]]]
  BY DEF Course
<1>3. ASSUME NEW i \in 1..n PROVE f[i] = step[i][f[i - 1]]
  BY ONLY <1>1, <1>2, i \in 1..n
<1> QED
  BY ONLY <1>2, <1>3, f \in [0..n -> V] DEF Rounds

(* The first m members of a sequence, and those from the m-th on. *)
LEMMA PrefixIs ==
  ASSUME NEW S, NEW s \in Seq(S), NEW m \in 0 .. Len(s)
  PROVE  /\ SubSeq(s, 1, m) \in Seq(S) /\ Len(SubSeq(s, 1, m)) = m
         /\ \A j \in 1 .. m : SubSeq(s, 1, m)[j] = s[j]
<1>1. m \in Nat /\ \A j \in 1 .. m : s[j] \in S
  OBVIOUS
<1>2. /\ SubSeq(s, 1, m) \in Seq(S)
      /\ Len(SubSeq(s, 1, m)) = IF 1 <= m THEN m - 1 + 1 ELSE 0
      /\ \A j \in 1 .. (m - 1 + 1) : SubSeq(s, 1, m)[j] = s[1 + j - 1]
  BY <1>1, SubSeqProperties
<1> QED
  BY <1>1, <1>2

LEMMA SuffixIs ==
  ASSUME NEW S, NEW s \in Seq(S), NEW m \in 1 .. (Len(s) + 1)
  PROVE  /\ SubSeq(s, m, Len(s)) \in Seq(S) /\ Len(SubSeq(s, m, Len(s))) = Len(s) - m + 1
         /\ \A j \in 1 .. (Len(s) - m + 1) : SubSeq(s, m, Len(s))[j] = s[m + j - 1]
<1>1. m \in Nat /\ Len(s) \in Nat /\ \A j \in m .. Len(s) : s[j] \in S
  OBVIOUS
<1>2. /\ SubSeq(s, m, Len(s)) \in Seq(S)
      /\ Len(SubSeq(s, m, Len(s))) = IF m <= Len(s) THEN Len(s) - m + 1 ELSE 0
      /\ \A j \in 1 .. (Len(s) - m + 1) : SubSeq(s, m, Len(s))[j] = s[m + j - 1]
  BY <1>1, SubSeqProperties
<1> QED
  BY <1>1, <1>2

(* The members of a sequence after one was removed, inserted or replaced. *)
LEMMA RemoveAtIs ==
  ASSUME NEW S, NEW s \in Seq(S), NEW i \in 1 .. Len(s)
  PROVE  /\ RemoveAt(s, i) \in Seq(S) /\ Len(RemoveAt(s, i)) = Len(s) - 1
         /\ \A j \in 1 .. (Len(s) - 1) : RemoveAt(s, i)[j] = IF j < i THEN s[j] ELSE s[j + 1]
<1> DEFINE m == i - 1
           n == i + 1
           a == SubSeq(s, 1, m)
           b == SubSeq(s, n, Len(s))
<1>1. Len(s) \in Nat /\ m \in 0 .. Len(s) /\ n \in 1 .. (Len(s) + 1) /\ m + 1 = i /\ n = i + 1
  OBVIOUS
<1>2. RemoveAt(s, i) = a \o b
  BY DEF RemoveAt
<1> HIDE DEF m, n
<1>3. a \in Seq(S) /\ Len(a) = m /\ \A j \in 1 .. m : a[j] = s[j]
  BY <1>1, PrefixIs
<1>4. b \in Seq(S) /\ Len(b) = Len(s) - n + 1 /\ \A j \in 1 .. (Len(s) - n + 1) : b[j] = s[n + j - 1]
  BY <1>1, SuffixIs
<1> HIDE DEF a, b
<1>5. /\ a \o b \in Seq(S) /\ Len(a \o b) = Len(a) + Len(b)
      /\ \A j \in 1 .. (Len(a) + Len(b)) : (a \o b)[j] = IF j <= Len(a) THEN a[j] ELSE b[j - Len(a)]
  BY <1>3, <1>4, ConcatProperties
<1>6. Len(a) + Len(b) = Len(s) - 1
  <2>1. Len(a) = m /\ Len(b) = Len(s) - n + 1
    BY ONLY <1>3, <1>4
  <2> QED
    BY ONLY <1>1, <2>1
<1>7. ASSUME NEW j \in 1 .. (Len(s) - 1) PROVE (a \o b)[j] = IF j < i THEN s[j] ELSE s[j + 1]
  <2>1. j \in 1 .. (Len(a) + Len(b)) /\ (j <= Len(a) <=> j < i)
    BY <1>1, <1>3, <1>6
  <2>2. CASE j < i
    BY <1>1, <1>3, <1>5, <2>1, <2>2
  <2>3. CASE ~(j < i)
    <3>1. j - m \in 1 .. (Len(s) - n + 1) /\ n + (j - m) - 1 = j + 1
      BY <1>1, <2>3
    <3>2. (a \o b)[j] = b[j - m]
      BY <1>3, <1>5, <2>1, <2>3
    <3>3. b[j - m] = s[n + (j - m) - 1]
      BY <1>4, <3>1
    <3> QED
      BY <2>3, <3>1, <3>2, <3>3
  <2> QED
    BY <2>2, <2>3
<1> QED
  BY <1>2, <1>5, <1>6, <1>7

LEMMA InsertAtIs ==
  ASSUME NEW S, NEW s \in Seq(S), NEW i \in 1 .. (Len(s) + 1), NEW e \in S
  PROVE  /\ InsertAt(s, i, e) \in Seq(S) /\ Len(InsertAt(s, i, e)) = Len(s) + 1
         /\ \A j \in 1 .. (Len(s) + 1) :
              InsertAt(s, i, e)[j] = IF j < i THEN s[j] ELSE IF j = i THEN e ELSE s[j - 1]
<1> DEFINE m == i - 1
           a == SubSeq(s, 1, m)
           b == SubSeq(s, i, Len(s))
           c == a \o <<e>>
<1>1. Len(s) \in Nat /\ m \in 0 .. Len(s) /\ m + 1 = i
  OBVIOUS
<1>2. InsertAt(s, i, e) = c \o b
  BY DEF InsertAt
<1> HIDE DEF m
<1>3. a \in Seq(S) /\ Len(a) = m /\ \A j \in 1 .. m : a[j] = s[j]
  BY <1>1, PrefixIs
<1>4. b \in Seq(S) /\ Len(b) = Len(s) - i + 1 /\ \A j \in 1 .. (Len(s) - i + 1) : b[j] = s[i + j - 1]
  BY <1>1, SuffixIs
<1> HIDE DEF a, b
<1>5. /\ c \in Seq(S) /\ Len(c) = i
      /\ \A j \in 1 .. i : c[j] = IF j < i THEN s[j] ELSE e
  <2>1. <<e>> \in Seq(S) /\ Len(<<e>>) = 1 /\ <<e>>[1] = e
    OBVIOUS
  <2>2. /\ c \in Seq(S) /\ Len(c) = Len(a) + 1
        /\ \A j \in 1 .. (Len(a) + 1) : c[j] = IF j <= Len(a) THEN a[j] ELSE <<e>>[j - Len(a)]
    BY <1>3, <2>1, ConcatProperties
  <2> HIDE DEF c
  <2>3. ASSUME NEW j \in 1 .. i PROVE c[j] = IF j < i THEN s[j] ELSE e
    BY <1>1, <1>3, <2>1, <2>2
  <2> QED
    BY <1>1, <1>3, <2>2, <2>3
<1> HIDE DEF c
<1>6. /\ c \o b \in Seq(S) /\ Len(c \o b) = Len(c) + Len(b)
      /\ \A j \in 1 .. (Len(c) + Len(b)) : (c \o b)[j] = IF j <= Len(c) THEN c[j] ELSE b[j - Len(c)]
  BY <1>4, <1>5, ConcatProperties
<1>7. Len(c) + Len(b) = Len(s) + 1
  BY <1>1, <1>4, <1>5
<1>8. ASSUME NEW j \in 1 .. (Len(s) + 1)
      PROVE  (c \o b)[j] = IF j < i THEN s[j] ELSE IF j = i THEN e ELSE s[j - 1]
  <2>1. CASE j <= i
    BY <1>5, <1>6, <1>7, <2>1
  <2>2. CASE ~(j <= i)
    <3>1. j - i \in 1 .. (Len(s) - i + 1) /\ i + (j - i) - 1 = j - 1
      BY <1>1, <2>2
    <3>2. (c \o b)[j] = b[j - i]
      BY <1>5, <1>6, <1>7, <2>2
    <3>3. b[j - i] = s[i + (j - i) - 1]
      BY <1>4, <3>1
    <3> QED
      BY <2>2, <3>1, <3>2, <3>3
  <2> QED
    BY <2>1, <2>2
<1> QED
  BY <1>2, <1>6, <1>7, <1>8

LEMMA ReplaceAtIs ==
  ASSUME NEW S, NEW s \in Seq(S), NEW i \in 1 .. Len(s), NEW e \in S
  PROVE  /\ ReplaceAt(s, i, e) \in Seq(S) /\ Len(ReplaceAt(s, i, e)) = Len(s)
         /\ \A j \in 1 .. Len(s) : ReplaceAt(s, i, e)[j] = IF j = i THEN e ELSE s[j]
  BY ExceptSeq DEF ReplaceAt

(* The first of the members equal to e goes, if there is one. *)
LEMMA RemoveFirstIs ==
  ASSUME NEW S, NEW s \in Seq(S), NEW e
  PROVE  \/ RemoveFirst(s, e) = s /\ \A i \in 1 .. Len(s) : s[i] # e
         \/ \E i \in 1 .. Len(s) : s[i] = e /\ RemoveFirst(s, e) = RemoveAt(s, i)
<1> DEFINE I == {i \in 1 .. Len(s) : s[i] = e}
<1>1. CASE \E i \in 1 .. Len(s) : s[i] = e
  <2>1. I # {} /\ I \subseteq Nat
    BY <1>1
  <2>2. Min(I) \in I
    BY <2>1, MinOfNaturals
  <2>3. SelectInSeq(s, LAMBDA v : v = e) = Min(I)
    BY <2>1 DEF SelectInSeq
  <2>4. RemoveFirst(s, e) = RemoveAt(s, Min(I))
    BY <1>1, <2>3 DEF RemoveFirst
  <2> QED
    BY <2>2, <2>4
<1>2. CASE ~(\E i \in 1 .. Len(s) : s[i] = e)
  BY <1>2 DEF RemoveFirst
<1> QED
  BY <1>1, <1>2

LEMMA RemoveFirstInSeq ==
  ASSUME NEW S, NEW s \in Seq(S), NEW e
  PROVE  RemoveFirst(s, e) \in Seq(S)
  BY RemoveFirstIs, RemoveAtIs
=============================================================================
