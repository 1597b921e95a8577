-------------------------- MODULE Operators_proofs --------------------------
(***************************************************************************)
(* What StoredValue promises, for integers of every width and doubles of   *)
(* any precision, what Paths promises, for texts and paths of every length *)
(* and any characters, and what ImproperParents promises, for any          *)
(* documents.                                                              *)
(***************************************************************************)
EXTENDS StoredValue, Paths, ImproperParents, SequenceFacts, TLAPS

SlotSpec == SlotInit /\ [][SlotNext]_slotVars

(* A key that has no entry has no value. *)
SlotInv ==
  /\ present \in BOOLEAN
  /\ stored \in XValues
  /\ ~present => stored = Empty

-----------------------------------------------------------------------------
(* Arithmetic. *)

LEMMA ModSmall == \A n, d \in Int : 0 <= n /\ n < d => n % d = n
  BY SMT

LEMMA ModRange == \A n, d \in Int : d > 0 => n % d \in 0 .. d - 1
  BY SMT

LEMMA Divided ==
  \A n, d \in Int : d > 0 => /\ n \div d \in Int
                             /\ d * (n \div d) <= n /\ n < d * (n \div d) + d
  BY SMT

LEMMA Multiples == \A p, m, n \in Int : p > 0 /\ m < n => p * m + p <= p * n
  BY SMT

LEMMA Products == \A p, m \in Int : p * m \in Int
  BY SMT

LEMMA Widths == MaxInt64 \in Nat /\ MaxInt32 \in Nat /\ 1 <= MaxInt32 /\ MaxInt32 <= MaxInt64
  BY SMT, WidthsAssumption

LEMMA Ones == Parts \in Int /\ Parts > 0
  BY SMT, NumbersAssumption

(* Less than one of p from u, towards zero. *)
LEMMA Truncates ==
  ASSUME NEW u \in Int, NEW p \in Int, p > 0
  PROVE  /\ Truncated(u, p) \in Int
         /\ u >= 0 => p * Truncated(u, p) <= u /\ u < p * Truncated(u, p) + p
         /\ u < 0 => p * Truncated(u, p) >= u /\ u > p * Truncated(u, p) - p
<1>1. CASE u >= 0
  BY <1>1, Divided DEF Truncated
<1>2. CASE u < 0
  <2> DEFINE q == (-u) \div p
  <2>1. q \in Int /\ p * q <= -u /\ -u < p * q + p
    BY Divided, SMT
  <2>2. Truncated(u, p) = -q
    BY <1>2 DEF Truncated
  <2>3. p * (-q) = -(p * q) /\ p * q \in Int /\ -q \in Int
    <3> HIDE DEF q
    <3> QED BY <2>1, SMT
  <2> HIDE DEF q
  <2> QED BY <1>2, <2>1, <2>2, <2>3, SMT
<1> QED BY <1>1, <1>2, SMT

(* A multiple of p is not truncated. *)
LEMMA TruncatesNothing ==
  ASSUME NEW n \in Int, NEW p \in Int, p > 0
  PROVE  Truncated(p * n, p) = n
<1> DEFINE t == Truncated(p * n, p)
<1>1. p * n \in Int
  BY Products
<1>2. /\ t \in Int
      /\ p * n >= 0 => p * t <= p * n /\ p * n < p * t + p
      /\ p * n < 0 => p * t >= p * n /\ p * n > p * t - p
  BY <1>1, Truncates
<1> HIDE DEF t
<1>3. p * t \in Int
  BY <1>2, Products
<1>4. ~(t < n)
  BY <1>1, <1>2, <1>3, Multiples, SMT
<1>5. ~(n < t)
  BY <1>1, <1>2, <1>3, Multiples, SMT
<1>6. t = n
  BY <1>2, <1>4, <1>5, SMT
<1> QED BY <1>6 DEF t

(* Of any numbers one is nearest. *)
LEMMA ClosestExists ==
  ASSUME NEW S \in SUBSET Int, S # {}, NEW u \in Int
  PROVE  /\ Closest(u, S) \in S
         /\ \A m \in S : Dist(Closest(u, S), u) <= Dist(m, u)
<1> DEFINE D == {Dist(m, u) : m \in S}
<1>1. D \subseteq Nat /\ D # {}
  BY SMT DEF Dist
<1>2. Min(D) \in D /\ \A d \in D : Min(D) <= d
  BY <1>1, MinOfNaturals
<1>3. PICK n \in S : Min(D) = Dist(n, u)
  BY <1>2
<1>4. \A m \in S : Dist(n, u) <= Dist(m, u)
  BY <1>2, <1>3
<1> QED BY <1>4, Zenon DEF Closest

LEMMA ClosestToItself ==
  ASSUME NEW S \in SUBSET Int, NEW u \in S
  PROVE  Closest(u, S) = u
<1>1. Closest(u, S) \in S /\ Dist(Closest(u, S), u) <= Dist(u, u)
  BY ClosestExists
<1>2. Closest(u, S) \in Int /\ u \in Int
  BY <1>1
<1> HIDE DEF Closest
<1> QED BY <1>1, <1>2, SMT DEF Dist

(* The remainder by three tells what a text is, and the quotient which. *)
LEMMA TextForms ==
  \A n \in Int :
    /\ IntegerText(n) \in Int /\ DoubleText(n) \in Int
    /\ IntegerText(n) # TrueText /\ DoubleText(n) # TrueText
    /\ HasDigits(IntegerText(n)) /\ TextUnits(IntegerText(n)) = Parts * n
    /\ HasDigits(DoubleText(n)) /\ TextUnits(DoubleText(n)) = n
<1> SUFFICES ASSUME NEW n \in Int
             PROVE  /\ IntegerText(n) \in Int /\ DoubleText(n) \in Int
                    /\ IntegerText(n) # TrueText /\ DoubleText(n) # TrueText
                    /\ HasDigits(IntegerText(n)) /\ TextUnits(IntegerText(n)) = Parts * n
                    /\ HasDigits(DoubleText(n)) /\ TextUnits(DoubleText(n)) = n
  OBVIOUS
<1>1. /\ (3 * n) % 3 = 0 /\ (3 * n) \div 3 = n
      /\ (3 * n + 1) % 3 = 1 /\ (3 * n + 1) \div 3 = n
      /\ 3 * n \in Int /\ 3 * n + 1 \in Int /\ 3 * n # 3 * 1 + 2 /\ 3 * n + 1 # 3 * 1 + 2
  BY SMT
<1> QED BY <1>1 DEF IntegerText, DoubleText, HasDigits, TextUnits, TrueText, Word

LEMMA Words ==
  \A s \in {BlankText, TrueText, FalseText, OtherText} :
    s \in Int /\ ~HasDigits(s) /\ TextUnits(s) = 0
<1>1. \A j \in 0 .. 3 : 3 * j + 2 \in Int /\ (3 * j + 2) % 3 = 2
  BY SMT
<1> QED BY <1>1, SMT DEF BlankText, TrueText, FalseText, OtherText, Word, HasDigits, TextUnits

LEMMA TextNumbers ==
  ASSUME NEW s \in Int
  PROVE  TextUnits(s) \in Int /\ TextDouble(s) \in DoubleNumbers
<1>1. s \div 3 \in Int /\ Parts * (s \div 3) \in Int
  BY Ones, SMT
<1>2. TextUnits(s) \in Int
  BY <1>1 DEF TextUnits
<1> QED BY <1>2, ClosestExists, NumbersAssumption DEF TextDouble

(* The double nearest to an integer has its sign. *)
LEMMA RoundingKeepsSign ==
  ASSUME NEW n \in Int
  PROVE  (Closest(Parts * n, DoubleNumbers) > 0) = (n > 0)
<1> DEFINE c == Closest(Parts * n, DoubleNumbers)
           u == Parts * n
<1>1. u \in Int
  BY Ones, Products
<1>2. c \in DoubleNumbers /\ \A m \in DoubleNumbers : Dist(c, u) <= Dist(m, u)
  BY <1>1, ClosestExists, NumbersAssumption
<1>3. c \in Int /\ Dist(c, u) <= Dist(0, u) /\ Dist(c, u) <= Dist(Parts, u)
  BY <1>2, NumbersAssumption
<1>4. CASE n > 0
  <2>1. u >= Parts
    <3>1. Parts * 0 = 0 /\ 0 \in Int
      BY Ones, SMT
    <3> QED BY <1>1, <1>4, <3>1, Ones, Multiples, SMT
  <2> HIDE DEF c, u
  <2>2. c > 0
    BY <1>1, <1>3, <2>1, Ones, SMT DEF Dist
  <2> QED BY <1>4, <2>2 DEF c, u
<1>5. CASE ~(n > 0)
  <2>1. u <= 0
    <3>1. Parts * 0 = 0 /\ 0 \in Int
      BY Ones, SMT
    <3>2. CASE n = 0
      BY <3>1, <3>2
    <3>3. CASE n < 0
      BY <1>1, <3>1, <3>3, Ones, Multiples, SMT
    <3> QED BY <1>5, <3>2, <3>3, SMT
  <2> HIDE DEF c, u
  <2>2. ~(c > 0)
    BY <1>1, <1>3, <2>1, Ones, SMT DEF Dist
  <2> QED BY <1>5, <2>2 DEF c, u
<1> QED BY <1>4, <1>5

-----------------------------------------------------------------------------
(* Values by their types. *)

LEMMA Shapes ==
  ASSUME NEW v \in XValues
  PROVE  \/ v = Empty \/ v = Null
         \/ v = XValue("bool", v.val) /\ v.val \in {0, 1}
         \/ v = XValue("int64", v.val) /\ v.val \in Signed(MaxInt64)
         \/ v = XValue("uint64", v.val) /\ v.val \in Unsigned(MaxInt64)
         \/ v = XValue("double", v.val) /\ v.val \in DoubleNumbers
         \/ v = XValue("string", v.val) /\ v.val \in Int
         \/ v = XValue("object", v.val)
         \/ v = XValue("constObject", v.val)
<1> USE Widths
<1>1. CASE v \in Strings
  <2>1. PICK s \in StoredTexts \cup {BlankText, TrueText, FalseText, OtherText} :
           v = XValue("string", s)
    BY <1>1 DEF Strings
  <2>2. s \in Int
    BY <2>1, Words, NumbersAssumption
  <2>3. v.val = s
    BY <2>1 DEF XValue
  <2> QED BY <2>1, <2>2, <2>3
<1>2. CASE v \notin Strings
  BY <1>2, SMT DEF XValues, Bools, Int64s, Uint64s, Doubles, Objects, XValue
<1> QED BY <1>1, <1>2

LEMMA NumberUnits ==
  ASSUME NEW v \in XValues, IsNumber(v)
  PROVE  v.val \in Int /\ Units(v) \in Int
<1> USE Widths
<1>1. CASE v.type \in {"bool", "int64", "uint64"}
  <2>1. v.val \in Int
    BY <1>1, Shapes, SMT DEF XValue, Empty, Null, Signed, Unsigned
  <2> QED BY <1>1, <2>1, Ones, Products DEF Units
<1>2. CASE v.type = "double"
  <2>1. v.val \in Int
    BY <1>2, Shapes, NumbersAssumption DEF XValue, Empty, Null
  <2> QED BY <1>2, <2>1 DEF Units
<1>3. CASE v.type = "string"
  <2>1. v.val \in Int
    BY <1>3, Shapes DEF XValue, Empty, Null
  <2> QED BY <1>3, <2>1, TextNumbers DEF Units
<1> QED BY <1>1, <1>2, <1>3 DEF IsNumber

-----------------------------------------------------------------------------
(* Conversions. *)

(* n is as near to u units as an integer from lo to hi can be. *)
Near(n, u, lo, hi) ==
  /\ n \in lo .. hi
  /\ \/ 2 * Dist(Parts * n, u) <= Parts
     \/ n = lo /\ u <= Parts * lo
     \/ n = hi /\ u >= Parts * hi

LEMMA NearIsNearest ==
  ASSUME NEW lo \in Int, NEW hi \in Int, NEW u \in Int, NEW n, Near(n, u, lo, hi)
  PROVE  Nearest(n, u, lo .. hi)
<1> USE Ones
<1>1. n \in lo .. hi /\ n \in Int /\ Parts * n \in Int
  BY Products DEF Near
<1>2. ASSUME NEW m \in lo .. hi
      PROVE  Dist(Parts * n, u) <= Dist(Parts * m, u)
  <2>1. m \in Int /\ Parts * m \in Int
    BY Products
  <2>2. (m < n => Parts * m + Parts <= Parts * n) /\ (n < m => Parts * n + Parts <= Parts * m)
    BY <1>1, <2>1, Multiples
  <2> DEFINE a == Parts * n
             b == Parts * m
  <2>3. \/ 2 * Dist(a, u) <= Parts
        \/ n <= m /\ u <= a
        \/ n >= m /\ u >= a
    BY <1>1, SMT DEF Near
  <2>4. a \in Int /\ b \in Int /\ (n = m => a = b)
    BY <1>1, <2>1
  <2>5. (m < n => b + Parts <= a) /\ (n < m => a + Parts <= b)
    BY <2>2
  <2> HIDE DEF a, b
  <2>6. Dist(a, u) <= Dist(b, u)
    BY <1>1, <2>1, <2>3, <2>4, <2>5, SMT DEF Dist
  <2> QED BY <2>6 DEF a, b
<1> QED BY <1>1, <1>2 DEF Nearest

(* What is clamped to a narrower range stays as near as it can. *)
LEMMA ClampedNear ==
  ASSUME NEW lo \in Int, NEW hi \in Int, NEW u \in Int, NEW n, Near(n, u, lo, hi),
         NEW lo2 \in lo .. hi, NEW hi2 \in lo2 .. hi
  PROVE  Near(IF n < lo2 THEN lo2 ELSE IF n > hi2 THEN hi2 ELSE n, u, lo2, hi2)
<1> USE Ones
<1>1. n \in lo .. hi /\ n \in Int /\ lo2 \in Int /\ hi2 \in Int
  BY SMT DEF Near
<1>2. Parts * n \in Int /\ Parts * lo2 \in Int /\ Parts * hi2 \in Int
  BY <1>1, Products
<1>3. CASE n < lo2
  <2>1. Parts * n + Parts <= Parts * lo2
    BY <1>1, <1>3, Multiples
  <2>2. n # hi
    BY <1>1, <1>3, SMT
  <2>3. u <= Parts * lo2
    BY <1>2, <2>1, <2>2, SMT DEF Near, Dist
  <2> QED BY <1>1, <1>3, <2>3, SMT DEF Near
<1>4. CASE n > hi2
  <2>1. Parts * hi2 + Parts <= Parts * n
    BY <1>1, <1>4, Multiples
  <2>2. n # lo /\ ~(n < lo2)
    BY <1>1, <1>4, SMT
  <2>3. u >= Parts * hi2
    BY <1>2, <2>1, <2>2, SMT DEF Near, Dist
  <2> QED BY <1>1, <1>4, <2>2, <2>3, SMT DEF Near
<1>5. CASE ~(n < lo2) /\ ~(n > hi2)
  <2>1. n \in lo2 .. hi2 /\ (n = lo => n = lo2) /\ (n = hi => n = hi2)
    BY <1>1, <1>5, SMT
  <2> QED BY <1>5, <2>1, Zenon DEF Near
<1> QED BY <1>3, <1>4, <1>5

LEMMA RoundsToNearest ==
  ASSUME NEW u \in Int
  PROVE  Rounded(u) \in Int /\ 2 * Dist(Parts * Rounded(u), u) <= Parts
<1> DEFINE w == 2 * u + (IF u >= 0 THEN Parts ELSE -Parts)
           r == Truncated(w, 2 * Parts)
           q == Parts * r
<1> USE Ones
<1>1. w \in Int /\ 2 * Parts \in Int /\ 2 * Parts > 0
      /\ (u >= 0 => w = 2 * u + Parts /\ w >= 0) /\ (u < 0 => w = 2 * u - Parts /\ w < 0)
  BY SMT
<1>2. /\ r \in Int
      /\ w >= 0 => (2 * Parts) * r <= w /\ w < (2 * Parts) * r + 2 * Parts
      /\ w < 0 => (2 * Parts) * r >= w /\ w > (2 * Parts) * r - 2 * Parts
  BY <1>1, Truncates
<1>3. q \in Int /\ (2 * Parts) * r = 2 * q
  <2> HIDE DEF r
  <2> QED BY <1>2, SMT
<1>4. Rounded(u) = r
  BY DEF Rounded
<1>5. /\ w >= 0 => 2 * q <= w /\ w < 2 * q + 2 * Parts
      /\ w < 0 => 2 * q >= w /\ w > 2 * q - 2 * Parts
  BY <1>2, <1>3
<1> HIDE DEF w, r, q
<1>6. 2 * Dist(q, u) <= Parts
  BY <1>1, <1>3, <1>5, SMT DEF Dist
<1> QED BY <1>2, <1>4, <1>6 DEF q

LEMMA LLRoundNear ==
  ASSUME NEW u \in DoubleNumbers, Rounded(u) \in Signed(MaxInt64)
  PROVE  /\ Near(LLRound(u), u, -(MaxInt64 + 1), MaxInt64)
         /\ Near(NonNegative(LLRound(u), 0), u, 0, 2 * MaxInt64 + 1)
<1> USE Widths, Ones
<1>1. u \in Int /\ LLRound(u) = Rounded(u)
  BY NumbersAssumption DEF LLRound
<1>2. Rounded(u) \in Int /\ 2 * Dist(Parts * Rounded(u), u) <= Parts
  BY <1>1, RoundsToNearest
<1>3. Near(LLRound(u), u, -(MaxInt64 + 1), MaxInt64)
  BY <1>1, <1>2 DEF Near, Signed
<1>4. Near(NonNegative(LLRound(u), 0), u, 0, 2 * MaxInt64 + 1)
  <2> DEFINE r == Rounded(u)
  <2>1. r \in Int /\ r \in -(MaxInt64 + 1) .. MaxInt64
    BY <1>2 DEF Signed
  <2>2. CASE r >= 0
    <3>1. r \in 0 .. 2 * MaxInt64 + 1
      BY <2>1, <2>2, SMT
    <3> QED BY <1>1, <1>2, <2>2, <3>1 DEF Near, NonNegative
  <2>3. CASE ~(r >= 0)
    <3>1. Parts * r \in Int /\ Parts * r + Parts <= Parts * 0 /\ Parts * 0 = 0
      <4> HIDE DEF r
      <4>1. r < 0 /\ 0 \in Int
        BY <2>1, <2>3, SMT
      <4>2. Parts * 0 = 0
        BY SMT
      <4> QED BY <2>1, <4>1, <4>2, Products, Multiples
    <3>2. u <= Parts * 0
      <4> DEFINE q == Parts * r
      <4>1. q \in Int /\ q + Parts <= 0 /\ 2 * Dist(q, u) <= Parts
        BY <1>2, <3>1
      <4> HIDE DEF q, r
      <4>2. u <= 0
        BY <1>1, <4>1, SMT DEF Dist
      <4> QED BY <3>1, <4>2
    <3>3. 0 \in 0 .. 2 * MaxInt64 + 1
      BY SMT
    <3> QED BY <1>1, <2>3, <3>2, <3>3 DEF Near, NonNegative
  <2> QED BY <2>2, <2>3
<1> QED BY <1>3, <1>4

(* n is u units without what they have beyond whole ones, clamped. *)
Cut(n, u, lo, hi) ==
  /\ n \in lo .. hi
  /\ u >= 0 => n >= 0 /\ Parts * n <= u /\ (u < Parts * n + Parts \/ n = hi)
  /\ u < 0 => n <= 0 /\ Parts * n >= u /\ (u > Parts * n - Parts \/ n = lo)

LEMMA CutIsNearest ==
  ASSUME NEW v, v.type = "string", Units(v) \in Int,
         NEW lo \in Int, NEW hi \in Int, NEW n, Cut(n, Units(v), lo, hi)
  PROVE  Nearest(n, Units(v), Targets(v, lo .. hi))
<1> USE Ones
<1> DEFINE u == Units(v)
<1>1. n \in lo .. hi /\ n \in Int /\ Parts * n \in Int /\ u \in Int
  BY Products DEF Cut
<1>2. CASE u >= 0
  <2>1. Targets(v, lo .. hi) = {m \in lo .. hi : m >= 0 /\ Parts * m <= u}
    BY <1>2 DEF Targets
  <2>2. n >= 0 /\ Parts * n <= u /\ (u < Parts * n + Parts \/ n = hi)
    BY <1>2 DEF Cut
  <2>3. ASSUME NEW m \in lo .. hi, Parts * m <= u
        PROVE  Dist(Parts * n, u) <= Dist(Parts * m, u)
    <3>1. m \in Int /\ Parts * m \in Int
      BY Products
    <3>2. n < m => Parts * n + Parts <= Parts * m
      BY <1>1, <3>1, Multiples
    <3>3. m < n => Parts * m + Parts <= Parts * n
      BY <1>1, <3>1, Multiples
    <3>4. Parts * m <= Parts * n
      <4>1. ~(n < m)
        BY <1>1, <2>2, <2>3, <3>1, <3>2, SMT
      <4> QED BY <1>1, <3>1, <3>3, <4>1, SMT
    <3> HIDE DEF u
    <3> QED BY <1>1, <2>2, <2>3, <3>1, <3>4, SMT DEF Dist
  <2> QED BY <1>1, <2>1, <2>2, <2>3 DEF Nearest
<1>3. CASE ~(u >= 0)
  <2>1. Targets(v, lo .. hi) = {m \in lo .. hi : m <= 0 /\ Parts * m >= u}
    BY <1>3 DEF Targets
  <2>2. n <= 0 /\ Parts * n >= u /\ (u > Parts * n - Parts \/ n = lo)
    BY <1>1, <1>3, SMT DEF Cut
  <2>3. ASSUME NEW m \in lo .. hi, Parts * m >= u
        PROVE  Dist(Parts * n, u) <= Dist(Parts * m, u)
    <3>1. m \in Int /\ Parts * m \in Int
      BY Products
    <3>2. m < n => Parts * m + Parts <= Parts * n
      BY <1>1, <3>1, Multiples
    <3>3. n < m => Parts * n + Parts <= Parts * m
      BY <1>1, <3>1, Multiples
    <3>4. Parts * m >= Parts * n
      <4>1. ~(m < n)
        BY <1>1, <2>2, <2>3, <3>1, <3>2, SMT
      <4> QED BY <1>1, <3>1, <3>3, <4>1, SMT
    <3> HIDE DEF u
    <3> QED BY <1>1, <2>2, <2>3, <3>1, <3>4, SMT DEF Dist
  <2> QED BY <1>1, <2>1, <2>2, <2>3 DEF Nearest
<1> QED BY <1>2, <1>3

LEMMA ClampedCut ==
  ASSUME NEW lo \in Int, NEW hi \in Int, NEW u \in Int, NEW n, Cut(n, u, lo, hi),
         NEW lo2 \in lo .. 0, NEW hi2 \in 0 .. hi
  PROVE  Cut(IF n < lo2 THEN lo2 ELSE IF n > hi2 THEN hi2 ELSE n, u, lo2, hi2)
<1> USE Ones
<1>1. n \in lo .. hi /\ n \in Int /\ lo2 \in Int /\ hi2 \in Int
  BY SMT DEF Cut
<1>2. Parts * n \in Int /\ Parts * lo2 \in Int /\ Parts * hi2 \in Int
  BY <1>1, Products
<1>3. CASE n < lo2
  <2>1. Parts * n + Parts <= Parts * lo2
    BY <1>1, <1>3, Multiples
  <2>2. u < 0 /\ Parts * lo2 >= u
    BY <1>1, <1>2, <1>3, <2>1, SMT DEF Cut
  <2> QED BY <1>1, <1>3, <2>2, SMT DEF Cut
<1>4. CASE n > hi2
  <2>1. Parts * hi2 + Parts <= Parts * n
    BY <1>1, <1>4, Multiples
  <2>2. u >= 0 /\ Parts * hi2 <= u /\ ~(n < lo2)
    BY <1>1, <1>2, <1>4, <2>1, SMT DEF Cut
  <2> QED BY <1>1, <1>4, <2>2, SMT DEF Cut
<1>5. CASE ~(n < lo2) /\ ~(n > hi2)
  <2>1. n \in lo2 .. hi2 /\ (n = lo => n = lo2) /\ (n = hi => n = hi2)
    BY <1>1, <1>5, SMT
  <2> QED BY <1>5, <2>1, Zenon DEF Cut
<1> QED BY <1>3, <1>4, <1>5

(* A text's number without its decimals, clamped. *)
LEMMA TextCut ==
  ASSUME NEW s \in Int
  PROVE  /\ Cut(Clamp(TextWhole(s), MaxInt64), TextUnits(s), -(MaxInt64 + 1), MaxInt64)
         /\ Cut(IF TextUnits(s) < 0 THEN NonNegative(Clamp(TextWhole(s), MaxInt64), 0)
                ELSE IF TextWhole(s) > 2 * MaxInt64 + 1 THEN 2 * MaxInt64 + 1 ELSE TextWhole(s),
                TextUnits(s), 0, 2 * MaxInt64 + 1)
<1> USE Widths, Ones
<1> DEFINE u == TextUnits(s)
           w == TextWhole(s)
           far == (IF w > 0 THEN w ELSE -w) + 2 * MaxInt64 + 2
<1>1. u \in Int
  BY TextNumbers
<1>2. /\ w \in Int
      /\ u >= 0 => Parts * w <= u /\ u < Parts * w + Parts
      /\ u < 0 => Parts * w >= u /\ u > Parts * w - Parts
  BY <1>1, Truncates DEF TextWhole
<1> HIDE DEF u, w
<1>3. Parts * w \in Int /\ Parts * 0 = 0 /\ 0 \in Int
      /\ (0 < w => Parts * 0 + Parts <= Parts * w) /\ (w < 0 => Parts * w + Parts <= Parts * 0)
  <2>1. Parts * 0 = 0 /\ 0 \in Int
    BY SMT
  <2> QED BY <1>2, <2>1, Products, Multiples
<1>4. (u >= 0 => w >= 0) /\ (u < 0 => w <= 0)
  BY <1>1, <1>2, <1>3, SMT
<1>5. -far \in Int /\ far \in Int /\ w \in -far .. far
      /\ -(MaxInt64 + 1) \in -far .. 0 /\ MaxInt64 \in 0 .. far
      /\ 2 * MaxInt64 + 1 \in 0 .. far /\ 0 \in -far .. 0
  BY <1>2, SMT
<1> HIDE DEF far
<1>6. Cut(w, u, -far, far)
  BY <1>2, <1>4, <1>5 DEF Cut
<1>7. Cut(Clamp(w, MaxInt64), u, -(MaxInt64 + 1), MaxInt64)
  BY <1>1, <1>5, <1>6, ClampedCut DEF Clamp
<1>8. Cut(IF w < 0 THEN 0 ELSE IF w > 2 * MaxInt64 + 1 THEN 2 * MaxInt64 + 1 ELSE w,
          u, 0, 2 * MaxInt64 + 1)
  BY <1>1, <1>5, <1>6, ClampedCut
<1>9. (IF u < 0 THEN NonNegative(Clamp(w, MaxInt64), 0)
       ELSE IF w > 2 * MaxInt64 + 1 THEN 2 * MaxInt64 + 1 ELSE w)
      = (IF w < 0 THEN 0 ELSE IF w > 2 * MaxInt64 + 1 THEN 2 * MaxInt64 + 1 ELSE w)
  BY <1>1, <1>2, <1>4, SMT DEF NonNegative, Clamp
<1> QED BY <1>7, <1>8, <1>9 DEF u, w

(* How n reads v: as near as it can be from lo to hi. *)
Reads(n, v, lo, hi) ==
  IF v.type = "string" THEN Cut(n, Units(v), lo, hi) ELSE Near(n, Units(v), lo, hi)

LEMMA ReadsNearest ==
  ASSUME NEW v \in XValues, IsNumber(v), NEW lo \in Int, NEW hi \in Int, NEW n, Reads(n, v, lo, hi)
  PROVE  Nearest(n, Units(v), Targets(v, lo .. hi))
<1>1. Units(v) \in Int
  BY NumberUnits
<1>2. CASE v.type = "string"
  BY <1>1, <1>2, CutIsNearest DEF Reads
<1>3. CASE v.type # "string"
  BY <1>1, <1>3, NearIsNearest DEF Reads, Targets
<1> QED BY <1>2, <1>3

LEMMA ClampedReads ==
  ASSUME NEW v \in XValues, IsNumber(v), NEW lo \in Int, NEW hi \in Int, NEW n, Reads(n, v, lo, hi),
         NEW lo2 \in lo .. 0, NEW hi2 \in 0 .. hi
  PROVE  Reads(IF n < lo2 THEN lo2 ELSE IF n > hi2 THEN hi2 ELSE n, v, lo2, hi2)
<1>1. Units(v) \in Int
  BY NumberUnits
<1>2. lo2 \in lo .. hi /\ hi2 \in lo2 .. hi
  BY SMT
<1>3. CASE v.type = "string"
  BY <1>1, <1>3, ClampedCut DEF Reads
<1>4. CASE v.type # "string"
  BY <1>1, <1>2, <1>4, ClampedNear DEF Reads
<1> QED BY <1>3, <1>4

(* An integer of the range is itself, one beyond it the end of the range.  *)
LEMMA IntegerNear ==
  ASSUME NEW m \in Int, NEW lo \in Int, NEW hi \in Int, lo <= hi,
         NEW n, n = IF m < lo THEN lo ELSE IF m > hi THEN hi ELSE m
  PROVE  Near(n, Parts * m, lo, hi)
<1> USE Ones
<1>1. Parts * m \in Int /\ Parts * lo \in Int /\ Parts * hi \in Int
  BY Products, SMT
<1>2. (m < lo => Parts * m <= Parts * lo) /\ (m > hi => Parts * m >= Parts * hi)
  BY <1>1, Multiples, SMT
<1>3. Dist(Parts * m, Parts * m) = 0
  BY <1>1, SMT DEF Dist
<1>4. CASE m < lo
  BY <1>2, <1>4, SMT DEF Near
<1>5. CASE ~(m < lo) /\ m > hi
  BY <1>2, <1>5, SMT DEF Near
<1>6. CASE ~(m < lo) /\ ~(m > hi)
  BY <1>3, <1>6, SMT DEF Near
<1> QED BY <1>4, <1>5, <1>6

LEMMA Int64Reads ==
  ASSUME NEW v \in XValues, IsNumber(v), ~BeyondLLRound(v)
  PROVE  Reads(AsInt64(v, 0), v, -(MaxInt64 + 1), MaxInt64)
<1> USE Widths
<1>1. CASE v.type \in {"bool", "int64", "uint64"}
  <2>1. v.val \in Int /\ -(MaxInt64 + 1) \in Int /\ -(MaxInt64 + 1) <= MaxInt64
    BY NumberUnits, SMT
  <2>2. v.type # "uint64" => v.val \in -(MaxInt64 + 1) .. MaxInt64
    BY <1>1, Shapes, SMT DEF XValue, Empty, Null, Signed
  <2>3. v.type # "uint64" => Clamp(v.val, MaxInt64) = v.val
    BY <2>1, <2>2, SMT DEF Clamp
  <2>4. AsInt64(v, 0) = Clamp(v.val, MaxInt64)
    BY <1>1, <2>3 DEF AsInt64
  <2>5. Near(Clamp(v.val, MaxInt64), Parts * v.val, -(MaxInt64 + 1), MaxInt64)
    BY <2>1, IntegerNear DEF Clamp
  <2> QED BY <1>1, <2>4, <2>5 DEF Reads, Units
<1>2. CASE v.type = "double"
  BY <1>2, Shapes, LLRoundNear DEF XValue, Empty, Null, Units, AsInt64, Reads, BeyondLLRound
<1>3. CASE v.type = "string"
  <2>1. v.val \in Int /\ HasDigits(v.val)
    BY <1>3, Shapes DEF IsNumber, XValue, Empty, Null
  <2>2. Units(v) = TextUnits(v.val) /\ AsInt64(v, 0) = Clamp(TextWhole(v.val), MaxInt64)
    BY <1>3, <2>1 DEF Units, AsInt64
  <2> QED BY <1>3, <2>1, <2>2, TextCut DEF Reads
<1> QED BY <1>1, <1>2, <1>3 DEF IsNumber

LEMMA Uint64Reads ==
  ASSUME NEW v \in XValues, IsNumber(v), ~BeyondLLRound(v)
  PROVE  Reads(AsUint64(v, 0, 0), v, 0, 2 * MaxInt64 + 1)
<1> USE Widths
<1>1. CASE v.type \in {"bool", "int64", "uint64"}
  <2>1. v.val \in Int /\ 2 * MaxInt64 + 1 \in Int /\ 0 <= 2 * MaxInt64 + 1
    BY NumberUnits, SMT
  <2>2. (v.type # "int64" => v.val >= 0) /\ v.val <= 2 * MaxInt64 + 1
    BY <1>1, Shapes, SMT DEF XValue, Empty, Null, Signed, Unsigned
  <2> DEFINE n == IF v.val < 0 THEN 0 ELSE IF v.val > 2 * MaxInt64 + 1 THEN 2 * MaxInt64 + 1 ELSE v.val
  <2>3. n = IF v.val >= 0 THEN v.val ELSE 0
    BY <2>1, <2>2, SMT
  <2>4. AsUint64(v, 0, 0) = n
    BY <1>1, <2>2, <2>3 DEF AsUint64, NonNegative
  <2>5. Near(n, Parts * v.val, 0, 2 * MaxInt64 + 1)
    BY <2>1, IntegerNear
  <2> QED BY <1>1, <2>4, <2>5 DEF Reads, Units
<1>2. CASE v.type = "double"
  BY <1>2, Shapes, LLRoundNear DEF XValue, Empty, Null, Units, AsUint64, Reads, BeyondLLRound
<1>3. CASE v.type = "string"
  <2>1. v.val \in Int /\ HasDigits(v.val)
    BY <1>3, Shapes DEF IsNumber, XValue, Empty, Null
  <2>2. /\ Units(v) = TextUnits(v.val)
        /\ AsUint64(v, 0, 0) =
             IF TextUnits(v.val) < 0 THEN NonNegative(Clamp(TextWhole(v.val), MaxInt64), 0)
             ELSE IF TextWhole(v.val) > 2 * MaxInt64 + 1 THEN 2 * MaxInt64 + 1
             ELSE TextWhole(v.val)
    BY <1>3, <2>1 DEF Units, AsUint64
  <2> QED BY <1>3, <2>1, <2>2, TextCut DEF Reads
<1> QED BY <1>1, <1>2, <1>3 DEF IsNumber

(* Every number within llround's reach, and every text of one, is read as  *)
(* the nearest integer of each width.                                      *)
LEMMA EveryNumberIsNearest ==
  ASSUME NEW v \in XValues, IsNumber(v), ~BeyondLLRound(v)
  PROVE  /\ Nearest(AsInt64(v, 0), Units(v), Targets(v, Signed(MaxInt64)))
         /\ Nearest(AsUint64(v, 0, 0), Units(v), Targets(v, Unsigned(MaxInt64)))
         /\ Nearest(AsInt32(v, 0), Units(v), Targets(v, Signed(MaxInt32)))
         /\ Nearest(AsUint32(v, 0, 0), Units(v), Targets(v, Unsigned(MaxInt32)))
<1> USE Widths
<1>1. /\ -(MaxInt64 + 1) \in Int /\ MaxInt64 \in Int /\ 2 * MaxInt64 + 1 \in Int
      /\ -(MaxInt32 + 1) \in Int /\ MaxInt32 \in Int /\ 2 * MaxInt32 + 1 \in Int
      /\ -(MaxInt32 + 1) \in -(MaxInt64 + 1) .. 0 /\ MaxInt32 \in 0 .. MaxInt64
      /\ 0 \in 0 .. 0 /\ 0 \in Int /\ 2 * MaxInt32 + 1 \in 0 .. 2 * MaxInt64 + 1
  BY SMT
<1>2. Reads(AsInt64(v, 0), v, -(MaxInt64 + 1), MaxInt64)
  BY Int64Reads
<1>3. Reads(AsUint64(v, 0, 0), v, 0, 2 * MaxInt64 + 1)
  BY Uint64Reads
<1>4. Reads(AsInt32(v, 0), v, -(MaxInt32 + 1), MaxInt32)
  BY <1>1, <1>2, ClampedReads DEF AsInt32, Clamp
<1>5. Reads(AsUint32(v, 0, 0), v, 0, 2 * MaxInt32 + 1)
  <2> DEFINE n == AsUint64(v, 0, 0)
  <2>1. n \in 0 .. 2 * MaxInt64 + 1
    BY <1>3 DEF Reads, Near, Cut
  <2>2. Reads(IF n < 0 THEN 0 ELSE IF n > 2 * MaxInt32 + 1 THEN 2 * MaxInt32 + 1 ELSE n,
              v, 0, 2 * MaxInt32 + 1)
    BY <1>1, <1>3, ClampedReads
  <2>3. ~(n < 0)
    BY <2>1, SMT
  <2> QED BY <2>2, <2>3 DEF AsUint32
<1> QED BY <1>1, <1>2, <1>3, <1>4, <1>5, ReadsNearest DEF Signed, Unsigned

(* What is written as a text is read back. *)
LEMMA IntegersAreReadBack ==
  ASSUME NEW v \in XValues, IsInteger(v)
  PROVE  /\ v.type = "int64" => AsInt64(Written(v), 0) = v.val
         /\ v.type = "uint64" => AsUint64(Written(v), 0, 0) = v.val
         /\ AsDouble(Written(v), 0) = AsDouble(v, 0)
         /\ AsBool(Written(v), FALSE) = AsBool(v, FALSE)
<1> USE Widths, Ones
<1> DEFINE s == IntegerText(v.val)
<1>1. v.val \in Int
  BY NumberUnits DEF IsNumber, IsInteger
<1>2. /\ v.type = "int64" => v.val \in -(MaxInt64 + 1) .. MaxInt64
      /\ v.type = "uint64" => v.val \in 0 .. 2 * MaxInt64 + 1
  BY Shapes, SMT DEF XValue, Empty, Null, Signed, Unsigned
<1>3. HasDigits(s) /\ TextUnits(s) = Parts * v.val /\ s # TrueText
  BY <1>1, TextForms
<1>4. TextWhole(s) = v.val
  BY <1>1, <1>3, TruncatesNothing DEF TextWhole
<1>5. Written(v).type = "string" /\ Written(v).val = s
  BY DEF Written, AsString, XValue, IsInteger
<1> HIDE DEF s
<1>6. ASSUME v.type = "int64" PROVE AsInt64(Written(v), 0) = v.val
  <2>1. AsInt64(Written(v), 0) = Clamp(v.val, MaxInt64)
    BY <1>3, <1>4, <1>5 DEF AsInt64
  <2> QED BY <1>2, <1>6, <2>1, SMT DEF Clamp
<1>7. ASSUME v.type = "uint64" PROVE AsUint64(Written(v), 0, 0) = v.val
  <2>1. v.val >= 0 /\ ~(v.val > 2 * MaxInt64 + 1)
    BY <1>2, <1>7, SMT
  <2>2. ~(Parts * v.val < 0)
    <3>1. Parts * 0 = 0 /\ 0 \in Int /\ Parts * v.val \in Int
      BY <1>1, SMT
    <3>2. 0 < v.val => Parts * 0 + Parts <= Parts * v.val
      BY <1>1, <3>1, Multiples
    <3> QED BY <1>1, <2>1, <3>1, <3>2, SMT
  <2> QED BY <1>3, <1>4, <1>5, <2>1, <2>2 DEF AsUint64
<1>8. AsDouble(Written(v), 0) = AsDouble(v, 0)
  BY <1>3, <1>5 DEF AsDouble, TextDouble, IsInteger
<1>9. AsBool(Written(v), FALSE) = AsBool(v, FALSE)
  <2>1. AsBool(Written(v), FALSE) = (s = TrueText \/ TextDouble(s) > 0)
    BY <1>5, Zenon DEF AsBool
  <2>2. AsBool(v, FALSE) = (v.val > 0)
    BY Zenon DEF AsBool, IsInteger
  <2>3. (TextDouble(s) > 0) = (v.val > 0)
    BY <1>1, <1>3, RoundingKeepsSign DEF TextDouble
  <2>4. (s = TrueText \/ TextDouble(s) > 0) = (v.val > 0)
    <3> DEFINE d == TextDouble(s)
    <3>1. (d > 0) = (v.val > 0)
      BY <2>3
    <3> HIDE DEF d
    <3>2. (s = TrueText \/ d > 0) = (v.val > 0)
      BY <1>3, <3>1, SMT
    <3> QED BY <3>2 DEF d
  <2> QED BY <2>1, <2>2, <2>4, Zenon
<1> QED BY <1>6, <1>7, <1>8, <1>9

LEMMA BoolsAreReadBack ==
  ASSUME NEW v \in XValues, v.type = "bool"
  PROVE  AsBool(Written(v), FALSE) = AsBool(v, FALSE)
<1>1. v.val \in {0, 1}
  BY Shapes, SMT DEF XValue, Empty, Null
<1>2. FalseText # TrueText /\ TextDouble(FalseText) = 0
  <2>1. TextUnits(FalseText) = 0 /\ FalseText # TrueText
    BY Words, SMT DEF FalseText, TrueText, Word
  <2> QED BY <2>1, ClosestToItself, NumbersAssumption DEF TextDouble
<1> QED BY <1>1, <1>2, SMT DEF Written, AsString, AsBool, XValue

LEMMA DoublesAreReadBack ==
  ASSUME NEW v \in XValues, v.type = "double", v.val \in WrittenNumbers
  PROVE  AsDouble(Written(v), 0) = v.val
<1>1. v.val \in DoubleNumbers /\ v.val \in Int
  BY Shapes, NumbersAssumption DEF XValue, Empty, Null
<1>2. Closest(v.val, WrittenNumbers) = v.val
  BY ClosestToItself, NumbersAssumption
<1>3. Written(v).type = "string" /\ Written(v).val = DoubleText(v.val)
  BY <1>2 DEF Written, AsString, XValue
<1>4. TextDouble(DoubleText(v.val)) = v.val
  BY <1>1, TextForms, ClosestToItself, NumbersAssumption DEF TextDouble
<1> QED BY <1>3, <1>4 DEF AsDouble

-----------------------------------------------------------------------------
(* The stored value. *)

LEMMA ReadsInteger ==
  ASSUME NEW v \in XValues
  PROVE  AsInt64(v, 0) \in Int /\ AsUint64(v, 0, 0) \in Int
<1> USE Widths
<1>1. CASE IsNumber(v) /\ ~BeyondLLRound(v)
  BY <1>1, Int64Reads, Uint64Reads, SMT DEF Reads, Near, Cut
<1>2. CASE BeyondLLRound(v)
  <2>1. v.type = "double" /\ v.val \in DoubleNumbers
    BY <1>2, Shapes DEF BeyondLLRound, XValue, Empty, Null
  <2>2. LLRound(v.val) \in Signed(MaxInt64)
    BY <1>2, <2>1, NumbersAssumption DEF LLRound, BeyondLLRound
  <2>3. LLRound(v.val) \in Int
    BY <2>2, SMT DEF Signed
  <2> QED BY <2>1, <2>3 DEF AsInt64, AsUint64, NonNegative
<1>3. CASE ~IsNumber(v)
  <2>1. v.type \in {"empty", "null", "string", "object", "constObject"}
    BY <1>3, Shapes DEF IsNumber, XValue, Empty, Null
  <2>2. v.type = "string" => ~HasDigits(v.val)
    BY <1>3 DEF IsNumber
  <2>3. AsInt64(v, 0) = 0 /\ AsUint64(v, 0, 0) = 0
    BY <2>1, <2>2 DEF AsInt64, AsUint64
  <2> QED BY <2>3
<1> QED BY <1>1, <1>2, <1>3

LEMMA ReadsDouble ==
  ASSUME NEW v \in XValues
  PROVE  AsDouble(v, 0) \in DoubleNumbers
<1> USE NumbersAssumption
<1>1. CASE v.type \in {"bool", "int64", "uint64"}
  <2>1. Parts * v.val \in Int
    BY <1>1, NumberUnits, Ones, Products DEF IsNumber
  <2> QED BY <1>1, <2>1, ClosestExists DEF AsDouble
<1>2. CASE v.type = "double"
  BY <1>2, Shapes DEF AsDouble, XValue, Empty, Null
<1>3. CASE v.type = "string"
  BY <1>3, Shapes, TextNumbers DEF AsDouble, XValue, Empty, Null
<1>4. CASE v.type \notin {"bool", "int64", "uint64", "double", "string"}
  BY <1>4 DEF AsDouble
<1> QED BY <1>1, <1>2, <1>3, <1>4

LEMMA SumsOfDoubles ==
  ASSUME NEW v \in XValues, NEW w \in XValues
  PROVE  DoubleSum(v, w) \in DoubleNumbers
<1>1. AsDouble(v, 0) \in Int /\ AsDouble(w, 0) \in Int
  BY ReadsDouble, NumbersAssumption
<1>2. AsDouble(v, 0) + AsDouble(w, 0) \in Int
  BY <1>1, SMT
<1> QED BY <1>2, ClosestExists, NumbersAssumption DEF DoubleSum

LEMMA StepShapes ==
  ASSUME NEW step \in Steps
  PROVE  /\ step \in XValues /\ step # Empty
         /\ \/ step.type = "double"
            \/ /\ step.type = "uint64" /\ step.val \in Unsigned(MaxInt64)
               /\ AsUint64(step, 0, 0) = step.val
            \/ /\ step.type = "int64" /\ step.val \in Signed(MaxInt64)
               /\ AsInt64(step, 0) = step.val
<1>1. step \in Int64s \cup Uint64s \cup Doubles
  BY IncrementsAssumption
<1>2. CASE step \in Int64s
  BY <1>2 DEF Int64s, XValues, XValue, Empty, AsInt64
<1>3. CASE step \in Uint64s
  BY <1>3 DEF Uint64s, XValues, XValue, Empty, AsUint64
<1>4. CASE step \in Doubles
  BY <1>4 DEF Doubles, XValues, XValue, Empty
<1> QED BY <1>1, <1>2, <1>3, <1>4

(* What SumWith makes of two values, with the sums wrapped. *)
LEMMA Sums ==
  ASSUME NEW v \in XValues, NEW step \in Steps
  PROVE  /\ step.type = "double" =>
              SumWith(v, step) = XValue("double", DoubleSum(v, step))
         /\ step.type = "uint64" =>
              LET n == AsUint64(v, 0, 0) + step.val
              IN  SumWith(v, step) = XValue("uint64", n % (2 * MaxInt64 + 2))
         /\ step.type = "int64" =>
              LET n == AsInt64(v, 0) + step.val + MaxInt64 + 1
              IN  SumWith(v, step) = XValue("int64", (n % (2 * MaxInt64 + 2)) - (MaxInt64 + 1))
BY StepShapes DEF SumWith

LEMMA UnitsOf ==
  \A n : /\ Units(XValue("double", n)) = n
         /\ Units(XValue("int64", n)) = Parts * n
         /\ Units(XValue("uint64", n)) = Parts * n
BY DEF Units, XValue

LEMMA Divides ==
  \A p, a, b, m \in Int : p > 0 /\ p * a + p * b = p * m => a + b = m
<1> SUFFICES ASSUME NEW p \in Int, NEW a \in Int, NEW b \in Int, NEW m \in Int,
                    p > 0, p * a + p * b = p * m
             PROVE  a + b = m
  OBVIOUS
<1>1. p * (a + b) = p * m /\ a + b \in Int
  BY SMT
<1>2. p * m \in Int
  BY Products
<1>3. ~(a + b < m) /\ ~(m < a + b)
  <2> DEFINE c == a + b
  <2>1. c \in Int /\ p * c = p * m
    BY <1>1
  <2> HIDE DEF c
  <2>2. ~(c < m) /\ ~(m < c)
    BY <1>2, <2>1, Multiples, SMT
  <2> QED BY <2>2 DEF c
<1> QED BY <1>1, <1>3, SMT

LEMMA SumIsValue ==
  ASSUME NEW v \in XValues, NEW step \in Steps
  PROVE  SumWith(v, step) \in XValues
<1> USE Widths
<1>1. CASE step.type = "double"
  BY <1>1, StepShapes, Sums, SumsOfDoubles DEF Doubles, XValues
<1>2. CASE step.type = "uint64"
  <2> DEFINE n == AsUint64(v, 0, 0) + step.val
  <2>1. n \in Int
    BY <1>2, StepShapes, ReadsInteger, SMT DEF Unsigned
  <2>2. n % (2 * MaxInt64 + 2) \in Unsigned(MaxInt64)
    <3> HIDE DEF n
    <3> QED BY <2>1, SMT DEF Unsigned
  <2> QED BY <1>2, <2>2, Sums DEF XValues, Uint64s
<1>3. CASE step.type = "int64"
  <2> DEFINE n == AsInt64(v, 0) + step.val + MaxInt64 + 1
  <2>1. n \in Int
    BY <1>3, StepShapes, ReadsInteger, SMT DEF Signed
  <2>2. (n % (2 * MaxInt64 + 2)) - (MaxInt64 + 1) \in Signed(MaxInt64)
    <3> HIDE DEF n
    <3> QED BY <2>1, SMT DEF Signed
  <2> QED BY <1>3, <2>2, Sums DEF XValues, Int64s
<1> QED BY <1>1, <1>2, <1>3, StepShapes

(* A sum that loses nothing and that its type holds is exact. *)
LEMMA SumIsExact ==
  ASSUME NEW v \in XValues, NEW step \in Steps,
         Lossless(v, step), Holds(step.type, Units(v) + Units(step))
  PROVE  Units(SumWith(v, step)) = Units(v) + Units(step)
<1> USE Widths, Ones
<1>1. IsNumber(v) /\ Reading(v, step.type) = Units(v)
  BY DEF Lossless
<1>2. CASE step.type = "double"
  <2>1. AsDouble(v, 0) = Units(v) /\ AsDouble(step, 0) = Units(step)
    BY <1>1, <1>2 DEF Reading, AsDouble, Units
  <2>2. Units(v) + Units(step) \in DoubleNumbers
    BY <1>2 DEF Holds
  <2>3. DoubleSum(v, step) = Units(v) + Units(step)
    BY <2>1, <2>2, ClosestToItself, NumbersAssumption DEF DoubleSum
  <2> QED BY <1>2, <2>3, Sums, UnitsOf
<1>3. CASE step.type = "uint64"
  <2> DEFINE n == AsUint64(v, 0, 0) + step.val
  <2>1. Units(v) = Parts * AsUint64(v, 0, 0) /\ Units(step) = Parts * step.val
    BY <1>1, <1>3 DEF Reading, Units
  <2>2. AsUint64(v, 0, 0) \in Int /\ step.val \in Int
    BY <1>3, StepShapes, ReadsInteger, SMT DEF Unsigned
  <2>3. PICK m \in Unsigned(MaxInt64) : Parts * AsUint64(v, 0, 0) + Parts * step.val = Parts * m
    BY <1>3, <2>1 DEF Holds
  <2>4. m \in Int /\ 0 <= m /\ m < 2 * MaxInt64 + 2
    BY SMT DEF Unsigned
  <2>5. n = m
    BY <2>2, <2>3, <2>4, Divides
  <2>6. m % (2 * MaxInt64 + 2) = m
    BY <2>4, ModSmall, SMT
  <2>7. Units(SumWith(v, step)) = Parts * m
    BY <1>3, <2>5, <2>6, Sums, UnitsOf
  <2> QED BY <2>1, <2>3, <2>7
<1>4. CASE step.type = "int64"
  <2>1. Units(v) = Parts * AsInt64(v, 0) /\ Units(step) = Parts * step.val
    BY <1>1, <1>4 DEF Reading, Units
  <2>2. AsInt64(v, 0) \in Int /\ step.val \in Int
    BY <1>4, StepShapes, ReadsInteger, SMT DEF Signed
  <2>3. PICK m \in Signed(MaxInt64) : Parts * AsInt64(v, 0) + Parts * step.val = Parts * m
    BY <1>4, <2>1 DEF Holds
  <2>4. m \in Int /\ -(MaxInt64 + 1) <= m /\ m <= MaxInt64
    BY SMT DEF Signed
  <2>5. AsInt64(v, 0) + step.val = m
    <3>1. m \in Int
      BY <2>4
    <3> QED BY <2>2, <2>3, <3>1, Divides, Zenon
  <2> DEFINE k == AsInt64(v, 0) + step.val + MaxInt64 + 1
  <2>6. k % (2 * MaxInt64 + 2) = k /\ k - (MaxInt64 + 1) = m
    <3>1. k \in Int /\ 0 <= k /\ k < 2 * MaxInt64 + 2 /\ k - (MaxInt64 + 1) = m
      BY <2>4, <2>5, SMT
    <3> HIDE DEF k
    <3> QED BY <3>1, ModSmall, SMT
  <2>7. SumWith(v, step) = XValue("int64", m)
    BY <1>4, <2>6, Sums
  <2> QED BY <2>1, <2>3, <2>7, UnitsOf
<1> QED BY <1>2, <1>3, <1>4, StepShapes

LEMMA SlotInvHolds == SlotSpec => []SlotInv
<1>1. SlotInit => SlotInv
  BY DEF SlotInit, SlotInv, XValues
<1>2. SlotInv /\ [SlotNext]_slotVars => SlotInv'
  <2> SUFFICES ASSUME SlotInv, [SlotNext]_slotVars PROVE SlotInv'
    OBVIOUS
  <2>1. ASSUME NEW v \in Settable, SetStored(v) PROVE SlotInv'
    <3>1. (present' = TRUE /\ stored' = v) \/ (present' = present /\ stored' = stored)
      BY <2>1 DEF SetStored
    <3>2. v \in XValues
      BY IncrementsAssumption
    <3> QED BY <3>1, <3>2 DEF SlotInv
  <2>2. ASSUME EraseStored PROVE SlotInv'
    BY <2>2 DEF SlotInv, EraseStored, XValues
  <2>3. ASSUME NEW step \in Steps, InReach(stored, step), IncrementStored(step) PROVE SlotInv'
    <3>1. SumWith(stored, step) \in XValues
      BY <2>3, SumIsValue DEF SlotInv
    <3>2. stored # Empty
      BY <2>3 DEF IncrementStored, IsEmpty
    <3> QED BY <2>3, <3>1, <3>2 DEF SlotInv, IncrementStored
  <2>4. ASSUME NEW step \in Steps, IncrementMissing(step) PROVE SlotInv'
    <3>1. (present' = TRUE /\ stored' = step) \/ (present' = present /\ stored' = stored)
      BY <2>4 DEF IncrementMissing
    <3> QED BY <3>1, StepShapes DEF SlotInv
  <2>5. ASSUME UNCHANGED slotVars PROVE SlotInv'
    BY <2>5 DEF SlotInv, slotVars
  <2> QED BY <2>1, <2>2, <2>3, <2>4, <2>5 DEF SlotNext
<1> QED BY <1>1, <1>2, PTL DEF SlotSpec

(* Whatever is stored, whatever the widths and whatever numbers doubles    *)
(* can hold, numbers and texts are read as the nearest integer that the    *)
(* conversion can reach, and integers written as texts read back.          *)
THEOREM ConvertsNearest == SlotSpec => []ConversionsAreNearest
<1>1. SlotInv => ConversionsAreNearest
  BY EveryNumberIsNearest, IntegersAreReadBack, BoolsAreReadBack, DoublesAreReadBack
  DEF SlotInv, ConversionsAreNearest, IsInteger
<1> QED BY <1>1, SlotInvHolds, PTL

(* Increment adds the step exactly wherever the step's type can hold value *)
(* and sum, for integers of every width, doubles of any precision, any     *)
(* callers and any refusals.                                               *)
THEOREM AddsExactly == SlotSpec => IncrementAddsExactly
<1> DEFINE step == added'.step
           total == Units(stored) + Units(step)
           Exact == /\ step # Empty
                    /\ stored' # stored
                    => /\ stored = Empty => stored' = step
                       /\ Lossless(stored, step) /\ Holds(step.type, total)
                            => Units(stored') = total /\ added'.returned = stored'
<1>1. ASSUME SlotInv, SlotNext PROVE Exact
  <2>1. CASE \E v \in Settable : SetStored(v)
    BY <2>1 DEF SetStored, NotAdding
  <2>2. CASE EraseStored
    BY <2>2 DEF EraseStored, NotAdding
  <2>3. ASSUME NEW s \in Steps, InReach(stored, s), IncrementStored(s) PROVE Exact
    <3>1. step = s /\ added'.returned = SumWith(stored, s) /\ stored # Empty
      BY <2>3 DEF IncrementStored, IsEmpty
    <3>2. stored' # stored => stored' = SumWith(stored, s)
      BY <2>3 DEF IncrementStored
    <3>3. Lossless(stored, s) /\ Holds(s.type, Units(stored) + Units(s))
          => Units(SumWith(stored, s)) = Units(stored) + Units(s)
      BY <1>1, SumIsExact DEF SlotInv
    <3> QED BY <3>1, <3>2, <3>3
  <2>4. ASSUME NEW s \in Steps, IncrementMissing(s) PROVE Exact
    <3>1. step = s /\ (stored' # stored => stored' = s /\ ~present)
      BY <2>4 DEF IncrementMissing
    <3>2. ~present => stored = Empty
      BY <1>1 DEF SlotInv
    <3>3. ~IsNumber(Empty)
      BY DEF IsNumber, Empty, XValue
    <3> QED BY <3>1, <3>2, <3>3 DEF Lossless
  <2> QED BY <1>1, <2>1, <2>2, <2>3, <2>4 DEF SlotNext
<1>2. SlotInv /\ [SlotNext]_slotVars => [Exact]_slotVars
  BY <1>1
<1> QED BY <1>2, SlotInvHolds, PTL DEF SlotSpec, IncrementAddsExactly

-----------------------------------------------------------------------------
(* The order of values. *)

LEMMA Unwrapped == \A n \in -MaxInt32 .. MaxInt32 : Wrap32(n) = n
<1> SUFFICES ASSUME NEW n \in -MaxInt32 .. MaxInt32 PROVE Wrap32(n) = n
  OBVIOUS
<1> DEFINE k == n + MaxInt32 + 1
<1>1. k \in Int /\ 0 <= k /\ k < 2 * MaxInt32 + 2 /\ k - (MaxInt32 + 1) = n
  BY Widths, SMT
<1>2. k % (2 * MaxInt32 + 2) = k
  <2> HIDE DEF k
  <2> QED BY <1>1, Widths, ModSmall, SMT
<1> QED BY <1>1, <1>2 DEF Wrap32

(* First by rank, then by what the value holds. *)
Rank(v) ==
  CASE v.type \in {"int64", "uint64"} -> 3
    [] v.type \in {"object", "constObject"} -> 7
    [] OTHER -> TypeIndex(v)

LEMMA Ranks ==
  ASSUME NEW v \in XValues
  PROVE  /\ v.val \in Int
         /\ v.type \in {"empty", "null"} => v.val = 0
         /\ v = XValue(v.type, v.val)
         /\ \/ v.type = "empty" /\ TypeIndex(v) = 0 /\ Rank(v) = 0
            \/ v.type = "null" /\ TypeIndex(v) = 1 /\ Rank(v) = 1
            \/ v.type = "bool" /\ TypeIndex(v) = 2 /\ Rank(v) = 2
            \/ v.type = "int64" /\ TypeIndex(v) = 3 /\ Rank(v) = 3
            \/ v.type = "uint64" /\ TypeIndex(v) = 4 /\ Rank(v) = 3
            \/ v.type = "double" /\ TypeIndex(v) = 5 /\ Rank(v) = 5
            \/ v.type = "string" /\ TypeIndex(v) = 6 /\ Rank(v) = 6
            \/ v.type = "constObject" /\ TypeIndex(v) = 7 /\ Rank(v) = 7 /\ v.val \in Addresses
            \/ v.type = "object" /\ TypeIndex(v) = 8 /\ Rank(v) = 7 /\ v.val \in Addresses
<1>1. CASE v \in Objects
  <2>1. PICK type \in {"constObject", "object"}, a \in Addresses : v = XValue(type, a)
    BY <1>1 DEF Objects
  <2>2. v.type = type /\ v.val = a
    BY <2>1 DEF XValue
  <2>3. a \in Int
    BY NumbersAssumption
  <2> QED BY <2>1, <2>2, <2>3 DEF TypeIndex, Rank
<1>2. CASE v \notin Objects
  <2>1. v.type \notin {"object", "constObject"}
    BY <1>2 DEF XValues, Objects, Empty, Null, Bools, Int64s, Uint64s, Doubles, Strings, XValue
  <2>2. v.val \in Int /\ v = XValue(v.type, v.val)
        /\ (v.type \in {"empty", "null"} => v.val = 0)
        /\ v.type \in {"empty", "null", "bool", "int64", "uint64", "double", "string"}
    <3>1. v.type = "double" => v.val \in Int
      BY Shapes, NumbersAssumption DEF XValue, Empty, Null
    <3> QED BY <2>1, <3>1, Shapes, Widths, SMT DEF XValue, Empty, Null, Signed, Unsigned
  <2> QED BY <2>2 DEF TypeIndex, Rank
<1> QED BY <1>1, <1>2

Before(u, v) == Rank(u) < Rank(v) \/ (Rank(u) = Rank(v) /\ u.val < v.val)
Alike(u, v) == Rank(u) = Rank(v) /\ u.val = v.val

LEMMA Ranked ==
  ASSUME NEW u \in XValues, NEW v \in XValues, ~Far(u, v)
  PROVE  /\ Compare(u, v) \in Int
         /\ Compare(u, v) < 0 <=> Before(u, v)
         /\ Compare(u, v) = 0 <=> Alike(u, v)
         /\ Equal(u, v) <=> Alike(u, v)
         /\ IsInteger(u) /\ IsInteger(v) => Compare(u, v) = u.val - v.val
<1> DEFINE Goal == /\ Compare(u, v) \in Int
                   /\ Compare(u, v) < 0 <=> Before(u, v)
                   /\ Compare(u, v) = 0 <=> Alike(u, v)
                   /\ Equal(u, v) <=> Alike(u, v)
                   /\ IsInteger(u) /\ IsInteger(v) => Compare(u, v) = u.val - v.val
<1>1. u.val \in Int /\ v.val \in Int
  BY Ranks
<1>2. CASE IsInteger(u) /\ IsInteger(v)
  <2>1. u.val - v.val \in -MaxInt32 .. MaxInt32 /\ u.val <= MaxInt64 /\ v.val <= MaxInt64
    BY <1>1, <1>2, Widths, SMT DEF Far
  <2>2. AsInt64(u, 0) = u.val /\ AsInt64(v, 0) = v.val
    <3>1. ASSUME NEW x \in XValues, IsInteger(x), x.val \in Int, x.val <= MaxInt64
          PROVE  AsInt64(x, 0) = x.val
      <4>1. CASE x.type = "int64"
        BY <4>1 DEF AsInt64
      <4>2. CASE x.type = "uint64"
        <5>1. x.val \in 0 .. MaxInt64
          BY <3>1, <4>2, Shapes, Widths, SMT DEF XValue, Empty, Null, Unsigned
        <5>2. Clamp(x.val, MaxInt64) = x.val
          BY <5>1, Widths, SMT DEF Clamp
        <5> QED BY <4>2, <5>2 DEF AsInt64
      <4> QED BY <3>1, <4>1, <4>2 DEF IsInteger
    <3> QED BY <1>1, <1>2, <2>1, <3>1
  <2>3. Compare(u, v) = u.val - v.val
    <3>1. CASE u = v
      BY <1>1, <3>1, SMT DEF Compare
    <3>2. CASE u # v
      BY <1>2, <2>1, <2>2, <3>2, Unwrapped DEF Compare
    <3> QED BY <3>1, <3>2
  <2>4. Rank(u) = 3 /\ Rank(v) = 3
    BY <1>2, Ranks DEF IsInteger
  <2>5. Equal(u, v) <=> u.val = v.val
    BY <1>2, <2>2 DEF Equal, IsObject, IsInteger
  <2> QED BY <1>1, <1>2, <2>3, <2>4, <2>5, SMT DEF Before, Alike
<1>3. CASE IsObject(u) /\ IsObject(v)
  <2>1. /\ Rank(u) = 7 /\ Rank(v) = 7
        /\ u.val \in Addresses /\ v.val \in Addresses /\ ~IsInteger(u)
        /\ u.type # "string"
    BY <1>3, Ranks DEF IsObject, IsInteger
  <2>2. u.val - v.val \in -MaxInt32 .. MaxInt32
    BY <1>3 DEF Far
  <2>3. Compare(u, v) = u.val - v.val
    <3>1. CASE u = v
      BY <1>1, <3>1, SMT DEF Compare
    <3>2. CASE u # v
      BY <1>3, <2>1, <2>2, <3>2, Unwrapped DEF Compare
    <3> QED BY <3>1, <3>2
  <2>4. Equal(u, v) <=> u.val = v.val
    BY <1>3, <2>1 DEF Equal
  <2> QED BY <1>1, <2>1, <2>3, <2>4, SMT DEF Before, Alike
<1>4. CASE u.type = "string" /\ v.type = "string"
  <2>1. Rank(u) = 6 /\ Rank(v) = 6 /\ ~IsInteger(u) /\ ~IsObject(u)
        /\ (u = v <=> u.val = v.val)
    BY <1>4, Ranks DEF IsInteger, IsObject
  <2>2. Compare(u, v) = u.val - v.val
    BY <1>1, <1>4, <2>1, SMT DEF Compare
  <2>3. Equal(u, v) <=> u.val = v.val
    BY <2>1 DEF Equal
  <2> QED BY <1>1, <2>1, <2>2, <2>3, SMT DEF Before, Alike
<1>5. CASE /\ ~(IsInteger(u) /\ IsInteger(v)) /\ ~(IsObject(u) /\ IsObject(v))
           /\ ~(u.type = "string" /\ v.type = "string")
  <2>1. Equal(u, v) <=> u = v
    BY <1>5 DEF Equal
  <2>2. Compare(u, v) =
          IF u = v THEN 0
          ELSE IF TypeIndex(u) < TypeIndex(v) \/ (u.type = v.type /\ u.val < v.val) THEN -1 ELSE 1
    BY <1>5 DEF Compare
  <2>3. u = v <=> Alike(u, v)
    BY <1>5, Ranks, SMT DEF Alike, IsInteger, IsObject
  <2>4. u # v => (TypeIndex(u) < TypeIndex(v) \/ (u.type = v.type /\ u.val < v.val) <=> Before(u, v))
    BY <1>5, Ranks, SMT DEF Before, IsInteger, IsObject
  <2>5. u = v => ~Before(u, v)
    BY Ranks, SMT DEF Before
  <2> QED BY <1>5, <2>1, <2>2, <2>3, <2>4, <2>5, SMT
<1> QED BY <1>2, <1>3, <1>4, <1>5

(* Compare orders the stored value and all others that are not far from    *)
(* it, for every width and any objects anywhere in memory.                 *)
THEOREM ComparesInOrderAlways == SlotSpec => []ComparesInOrder
<1>1. SlotInv => ComparesInOrder
  <2> SUFFICES ASSUME SlotInv, NEW v \in XValues, ~Far(stored, v)
               PROVE  /\ (Compare(stored, v) = 0) <=> Equal(stored, v)
                      /\ (Compare(stored, v) < 0) <=> (Compare(v, stored) > 0)
                      /\ Compare(stored, v) <= 0 =>
                           \A w \in XValues : ~Far(v, w) /\ ~Far(stored, w) /\ Compare(v, w) <= 0 =>
                             Compare(stored, w) <= 0
                      /\ IsInteger(stored) /\ IsInteger(v) => Compare(stored, v) = stored.val - v.val
    BY DEF ComparesInOrder
  <2>1. stored \in XValues
    BY DEF SlotInv
  <2>2. ~Far(v, stored)
    <3>1. stored.val \in Int /\ v.val \in Int
      BY <2>1, Ranks
    <3>2. stored.val - v.val \in -MaxInt32 .. MaxInt32 <=> v.val - stored.val \in -MaxInt32 .. MaxInt32
      BY <3>1, Widths, SMT
    <3> QED BY <3>2 DEF Far
  <2>3. \A x \in XValues : x.val \in Int /\ Rank(x) \in Int
    BY Ranks, SMT
  <2>4. /\ (Compare(stored, v) < 0) <=> Before(stored, v)
        /\ (Compare(stored, v) = 0) <=> Alike(stored, v)
        /\ (Compare(v, stored) < 0) <=> Before(v, stored)
        /\ (Compare(v, stored) = 0) <=> Alike(v, stored)
        /\ Compare(stored, v) \in Int /\ Compare(v, stored) \in Int
    BY <2>1, <2>2, Ranked
  <2>5. (Compare(stored, v) < 0) <=> (Compare(v, stored) > 0)
    BY <2>1, <2>3, <2>4, SMT DEF Before, Alike
  <2>6. ASSUME Compare(stored, v) <= 0, NEW w \in XValues,
               ~Far(v, w), ~Far(stored, w), Compare(v, w) <= 0
        PROVE  Compare(stored, w) <= 0
    <3>1. /\ (Compare(v, w) < 0) <=> Before(v, w)
          /\ (Compare(v, w) = 0) <=> Alike(v, w)
          /\ (Compare(stored, w) < 0) <=> Before(stored, w)
          /\ (Compare(stored, w) = 0) <=> Alike(stored, w)
          /\ Compare(v, w) \in Int /\ Compare(stored, w) \in Int
      BY <2>1, <2>6, Ranked
    <3> QED BY <2>1, <2>3, <2>4, <2>6, <3>1, SMT DEF Before, Alike
  <2> QED BY <2>1, <2>5, <2>6, Ranked
<1> QED BY <1>1, SlotInvHolds, PTL

-----------------------------------------------------------------------------
(* The texts and the keys of paths, of any length. *)

AnyText == Seq(Chars)
AnyKey ==
  [type : {"String"}, str : AnyText] \cup [type : {"Index"}, str : Seq(Digits) \ {<<>>}]

-----------------------------------------------------------------------------
(* Finding, and what is left from a place on. *)

LEMMA Marks ==
  /\ ":" \in Chars /\ "[" \in Chars /\ "]" \in Chars /\ Digits \subseteq Chars
  /\ ":" \notin Digits /\ "[" \notin Digits /\ "]" \notin Digits
  /\ ":" # "[" /\ ":" # "]" /\ "[" # "]"
  BY CharsAssumption

(* p begins in s at i. *)
Begins(s, p, i) == i \in 1 .. (Len(s) - Len(p) + 1) /\ SubSeq(s, i, i + Len(p) - 1) = p

LEMMA FindIs ==
  ASSUME NEW s \in AnyText, NEW p \in AnyText, Len(p) >= 1
  PROVE  \/ Find(s, p) = 0 /\ \A i : ~Begins(s, p, i)
         \/ Begins(s, p, Find(s, p)) /\ \A i : Begins(s, p, i) => Find(s, p) <= i
<1> PICK at : at = {i \in 1 .. (Len(s) - Len(p) + 1) : SubSeq(s, i, i + Len(p) - 1) = p}
  OBVIOUS
<1>1. Find(s, p) = IF at = {} THEN 0 ELSE CHOOSE i \in at : \A j \in at : i <= j
  BY DEF Find
<1>2. at \subseteq Nat
  OBVIOUS
<1>3. \A i : i \in at <=> Begins(s, p, i)
  BY DEF Begins
<1>4. CASE at = {}
  BY <1>1, <1>3, <1>4
<1>5. CASE at # {}
  <2>1. Min(at) \in at /\ \A j \in at : Min(at) <= j
    BY ONLY <1>2, <1>5, MinOfNaturals
  <2>2. Find(s, p) \in at /\ \A j \in at : Find(s, p) <= j
    BY ONLY <1>1, <1>5, <2>1
  <2> QED
    BY <1>3, <2>2
<1> QED
  BY <1>4, <1>5

LEMMA FindChar ==
  ASSUME NEW s \in AnyText, NEW c \in Chars, NEW f, f = Find(s, <<c>>)
  PROVE  \/ f = 0 /\ \A i \in 1 .. Len(s) : s[i] # c
         \/ f \in 1 .. Len(s) /\ s[f] = c /\ \A i \in 1 .. Len(s) : s[i] = c => f <= i
<1> PICK d : d = <<c>>
  OBVIOUS
<1>1. d \in AnyText /\ Len(d) = 1 /\ d[1] = c /\ Len(s) \in Nat /\ s \in Seq(Chars)
  BY DEF AnyText
<1>2. ASSUME NEW i PROVE Begins(s, d, i) <=> i \in 1 .. Len(s) /\ s[i] = c
  <2> SUFFICES ASSUME i \in 1 .. Len(s) PROVE SubSeq(s, i, i) = d <=> s[i] = c
    BY <1>1 DEF Begins
  <2> PICK u : u = SubSeq(s, i, i)
    OBVIOUS
  <2>1. i \in Int /\ \A k \in i .. i : s[k] \in Chars
    BY <1>1
  <2>2. u \in Seq(Chars) /\ Len(u) = 1 /\ u[1] = s[i]
    BY ONLY <2>1, u = SubSeq(s, i, i), SubSeqProperties
  <2>3. u = d <=> u[1] = d[1]
    BY ONLY <1>1, <2>2 DEF AnyText
  <2> QED
    BY <1>1, <2>2, <2>3
<1>3. \/ Find(s, d) = 0 /\ \A i : ~Begins(s, d, i)
      \/ Begins(s, d, Find(s, d)) /\ \A i : Begins(s, d, i) => Find(s, d) <= i
  BY ONLY s \in AnyText, <1>1, FindIs
<1> QED
  BY ONLY f = Find(s, <<c>>), d = <<c>>, <1>2, <1>3

DelimiterAt(s, i) == i \in 1 .. (Len(s) - 1) /\ s[i] = ":" /\ s[i + 1] = ":"

LEMMA FindDelimiter ==
  ASSUME NEW s \in AnyText, NEW f, f = Find(s, Delimiter)
  PROVE  \/ f = 0 /\ \A i : ~DelimiterAt(s, i)
         \/ DelimiterAt(s, f) /\ \A i : DelimiterAt(s, i) => f <= i
<1> PICK d : d = Delimiter
  OBVIOUS
<1>1. d \in AnyText /\ Len(d) = 2 /\ d[1] = ":" /\ d[2] = ":" /\ Len(s) \in Nat /\ s \in Seq(Chars)
  BY Marks DEF AnyText, Delimiter
<1>2. ASSUME NEW i PROVE Begins(s, d, i) <=> DelimiterAt(s, i)
  <2> SUFFICES ASSUME i \in 1 .. (Len(s) - 1)
               PROVE  SubSeq(s, i, i + 1) = d <=> s[i] = ":" /\ s[i + 1] = ":"
    BY <1>1 DEF Begins, DelimiterAt
  <2> PICK k : k = i + 1
    OBVIOUS
  <2> PICK u : u = SubSeq(s, i, k)
    OBVIOUS
  <2>1. i \in Int /\ k \in Int /\ \A j \in i .. k : s[j] \in Chars
    BY <1>1
  <2>2. /\ u \in Seq(Chars) /\ Len(u) = (IF i <= k THEN k - i + 1 ELSE 0)
        /\ \A j \in 1 .. (k - i + 1) : u[j] = s[i + j - 1]
    BY ONLY <2>1, u = SubSeq(s, i, k), SubSeqProperties
  <2>3. Len(u) = 2 /\ u[1] = s[i] /\ u[2] = s[k]
    <3>1. k - i + 1 = 2 /\ i <= k /\ i + 1 - 1 = i /\ i + 2 - 1 = k
      OBVIOUS
    <3>2. Len(u) = 2
      BY ONLY <2>2, <3>1
    <3> PICK n : n = k - i + 1
      OBVIOUS
    <3>4. n = 2 /\ \A j \in 1 .. n : u[j] = s[i + j - 1]
      BY ONLY <2>2, <3>1, n = k - i + 1
    <3>3. 1 \in 1 .. 2 /\ 2 \in 1 .. 2
      OBVIOUS
    <3> QED
      BY ONLY <3>1, <3>2, <3>3, <3>4
  <2>4. u = d <=> u[1] = d[1] /\ u[2] = d[2]
    <3>1. ASSUME u[1] = d[1], u[2] = d[2] PROVE u = d
      <4>1. Len(u) = Len(d) /\ \A j \in 1 .. Len(u) : u[j] = d[j]
        BY ONLY <1>1, <2>3, <3>1
      <4>2. u \in Seq(Chars) /\ d \in Seq(Chars)
        BY ONLY <1>1, <2>2 DEF AnyText
      <4> QED
        BY ONLY <4>1, <4>2, SeqEqual
    <3> QED
      BY <3>1
  <2> QED
    BY <1>1, <2>3, <2>4
<1>3. \/ Find(s, d) = 0 /\ \A i : ~Begins(s, d, i)
      \/ Begins(s, d, Find(s, d)) /\ \A i : Begins(s, d, i) => Find(s, d) <= i
  BY ONLY s \in AnyText, <1>1, FindIs
<1> QED
  BY ONLY f = Find(s, Delimiter), d = Delimiter, <1>2, <1>3

LEMMA FromIs ==
  ASSUME NEW s \in AnyText, NEW i \in 1 .. (Len(s) + 1)
  PROVE  /\ From(s, i) \in AnyText /\ Len(From(s, i)) = Len(s) - i + 1
         /\ \A j \in 1 .. (Len(s) - i + 1) : From(s, i)[j] = s[i + j - 1]
  BY SuffixIs DEF From, AnyText
-----------------------------------------------------------------------------
(* Taking one key from the front of a text. *)

(* Delimiters are skipped up to where none begins. *)
LEMMA StrippedIs ==
  ASSUME NEW s \in AnyText
  PROVE  \E n \in Nat :
           /\ 2 * n <= Len(s) /\ Stripped(s) = From(s, 2 * n + 1)
           /\ \A m \in 0 .. (n - 1) : DelimiterAt(s, 2 * m + 1)
           /\ ~DelimiterAt(s, 2 * n + 1)
<1> DEFINE B(n) == Find(From(s, 2 * n + 1), Delimiter) = 1
           Stop(n) == ~B(n) /\ \A m \in 0 .. (n - 1) : B(m)
           T == {n \in 0 .. Len(s) : ~B(n)}
<1>0. Len(s) \in Nat
  BY DEF AnyText
<1>1. ASSUME NEW n \in Nat, 2 * n <= Len(s) PROVE B(n) <=> DelimiterAt(s, 2 * n + 1)
  <2> PICK k : k = 2 * n + 1
    OBVIOUS
  <2>1. k \in 1 .. (Len(s) + 1)
    BY <1>0, <1>1
  <2> PICK u \in AnyText : u = From(s, k)
    BY <2>1, FromIs
  <2>2. Len(u) = Len(s) - k + 1 /\ \A j \in 1 .. (Len(s) - k + 1) : u[j] = s[k + j - 1]
    BY <2>1, FromIs
  <2>3. DelimiterAt(u, 1) <=> DelimiterAt(s, k)
    <3>1. 1 \in 1 .. (Len(u) - 1) <=> k \in 1 .. (Len(s) - 1)
      BY <1>0, <2>1, <2>2
    <3>2. CASE k \in 1 .. (Len(s) - 1)
      <4>1. 1 \in 1 .. (Len(s) - k + 1) /\ 2 \in 1 .. (Len(s) - k + 1) /\ k + 1 - 1 = k /\ k + 2 - 1 = k + 1
        BY <1>0, <3>2
      <4>2. u[1] = s[k] /\ u[2] = s[k + 1]
        BY ONLY <2>2, <4>1
      <4>3. 1 + 1 = 2
        OBVIOUS
      <4> QED
        BY ONLY <3>1, <3>2, <4>2, <4>3 DEF DelimiterAt
    <3>3. CASE k \notin 1 .. (Len(s) - 1)
      BY <3>1, <3>3 DEF DelimiterAt
    <3> QED
      BY <3>2, <3>3
  <2>4. Find(u, Delimiter) = 1 <=> DelimiterAt(u, 1)
    <3> PICK f : f = Find(u, Delimiter)
      OBVIOUS
    <3>1. \/ f = 0 /\ \A i : ~DelimiterAt(u, i)
          \/ DelimiterAt(u, f) /\ \A i : DelimiterAt(u, i) => f <= i
      BY FindDelimiter
    <3>2. \A i : DelimiterAt(u, i) => i \in Nat /\ i >= 1
      BY <1>0, <2>1, <2>2 DEF DelimiterAt
    <3> QED
      BY <3>1, <3>2
  <2> QED
    BY <2>3, <2>4
<1>2. ~B(Len(s))
  <2> PICK k : k = 2 * Len(s) + 1
    OBVIOUS
  <2>1. k \in Int /\ k > Len(s)
    BY <1>0
  <2>2. From(s, k) = <<>>
    BY <1>0, <2>1, SubSeqEmpty DEF From
  <2>3. <<>> \in AnyText /\ Len(<<>>) = 0
    BY DEF AnyText
  <2>4. \A i : ~DelimiterAt(<<>>, i)
    BY <2>3 DEF DelimiterAt
  <2>5. Find(<<>>, Delimiter) = 0
    BY <2>3, <2>4, FindDelimiter
  <2> QED
    BY <2>2, <2>5
<1>3. \E n \in 0 .. Len(s) : Stop(n)
  <2> HIDE DEF B
  <2> PICK n : n = Min(T)
    OBVIOUS
  <2>1. T # {} /\ T \subseteq Nat
    BY <1>0, <1>2
  <2>2. n \in T /\ \A m \in T : n <= m
    BY <2>1, MinOfNaturals
  <2>3. \A m \in 0 .. (n - 1) : m \in 0 .. Len(s) /\ m \notin T
    BY <1>0, <2>2
  <2> QED
    BY <2>2, <2>3
<1> PICK n : n = CHOOSE m \in 0 .. Len(s) : Stop(m)
  OBVIOUS
<1>4. n \in 0 .. Len(s) /\ Stop(n)
  BY <1>3
<1>5. Stripped(s) = From(s, 2 * n + 1)
  BY DEF Stripped
<1> HIDE DEF B
<1>6. 2 * n <= Len(s) /\ \A m \in 0 .. (n - 1) : DelimiterAt(s, 2 * m + 1)
  <2> DEFINE S == {i \in 0 .. n : 2 * i <= Len(s) /\ (i > 0 => DelimiterAt(s, 2 * (i - 1) + 1))}
  <2>1. 0 \in S
    BY <1>0, <1>4
  <2>2. ASSUME NEW i \in 1 .. n, i - 1 \in S PROVE i \in S
    <3>1. i - 1 \in 0 .. (n - 1) /\ i - 1 \in Nat /\ 2 * (i - 1) <= Len(s)
      BY <1>4, <2>2
    <3>2. DelimiterAt(s, 2 * (i - 1) + 1)
      BY <1>1, <1>4, <3>1
    <3>3. 2 * (i - 1) + 1 <= Len(s) - 1
      BY <1>0, <3>2 DEF DelimiterAt
    <3>4. i \in 0 .. n /\ 2 * i <= Len(s)
      BY <1>0, <1>4, <3>3
    <3> QED
      BY <3>2, <3>4
  <2>3. n \in Nat
    BY <1>0, <1>4
  <2> HIDE DEF S
  <2>4. \A i \in 0 .. n : i \in S
    BY <2>1, <2>2, <2>3, InductionUpTo
  <2>5. ASSUME NEW m \in 0 .. (n - 1) PROVE DelimiterAt(s, 2 * m + 1)
    <3>1. m + 1 \in 0 .. n /\ m + 1 > 0 /\ (m + 1) - 1 = m
      BY <2>3
    <3>2. m + 1 \in S
      BY <2>4, <3>1
    <3>3. DelimiterAt(s, 2 * ((m + 1) - 1) + 1)
      BY <3>1, <3>2 DEF S
    <3> QED
      BY <3>1, <3>3
  <2>6. n \in S
    BY <2>3, <2>4
  <2> QED
    BY <2>5, <2>6 DEF S
<1>7. n \in Nat /\ ~DelimiterAt(s, 2 * n + 1)
  BY <1>0, <1>1, <1>4, <1>6
<1> QED
  BY <1>5, <1>6, <1>7

(* The digits a text begins with, up to the first character that is none. *)
LEMMA NumberIs ==
  ASSUME NEW s \in AnyText
  PROVE  \E n \in 0 .. Len(s) :
           /\ Number(s) = SubSeq(s, 1, n) /\ \A j \in 1 .. n : s[j] \in Digits
           /\ n < Len(s) => s[n + 1] \notin Digits
<1> DEFINE T == {i \in 0 .. Len(s) : i < Len(s) => s[i + 1] \notin Digits}
           Run(n) == (\A j \in 1 .. n : s[j] \in Digits) /\ (n < Len(s) => s[n + 1] \notin Digits)
<1>0. Len(s) \in Nat
  BY DEF AnyText
<1>1. \E n \in 0 .. Len(s) : Run(n)
  <2> PICK n : n = Min(T)
    OBVIOUS
  <2>1. Len(s) \in T /\ T \subseteq Nat
    BY <1>0
  <2>2. n \in T /\ \A i \in T : n <= i
    BY <2>1, MinOfNaturals
  <2>3. ASSUME NEW j \in 1 .. n PROVE s[j] \in Digits
    <3> PICK i : i = j - 1
      OBVIOUS
    <3>1. i \in 0 .. Len(s) /\ i < Len(s) /\ i + 1 = j /\ ~(n <= i)
      BY ONLY <1>0, <2>2, i = j - 1
    <3>2. i \notin T
      BY ONLY <2>2, <3>1
    <3> QED
      BY ONLY <3>1, <3>2
  <2> QED
    BY <2>2, <2>3
<1> PICK n : n = CHOOSE i \in 0 .. Len(s) : Run(i)
  OBVIOUS
<1>2. n \in 0 .. Len(s) /\ Run(n)
  BY <1>1
<1>3. Number(s) = SubSeq(s, 1, n)
  BY DEF Number
<1> QED
  BY <1>2, <1>3

LEMMA NumberTyped ==
  ASSUME NEW s \in AnyText, Len(s) >= 1, s[1] \in Digits
  PROVE  Number(s) \in Seq(Digits) \ {<<>>}
<1> PICK n \in 0 .. Len(s) :
      /\ Number(s) = SubSeq(s, 1, n) /\ \A j \in 1 .. n : s[j] \in Digits
      /\ n < Len(s) => s[n + 1] \notin Digits
  BY NumberIs
<1>0. Len(s) \in Nat /\ n \in Int
  BY DEF AnyText
<1>1. n >= 1
  BY <1>0
<1>2. SubSeq(s, 1, n) \in Seq(Digits) /\ Len(SubSeq(s, 1, n)) = IF 1 <= n THEN n - 1 + 1 ELSE 0
  BY <1>0, SubSeqProperties
<1>3. Len(SubSeq(s, 1, n)) = n /\ Len(<<>>) = 0
  BY <1>0, <1>1, <1>2
<1> QED
  BY <1>1, <1>2, <1>3

LEMMA KeysTyped ==
  /\ \A s \in AnyText : StringKey(s) \in AnyKey
  /\ \A s \in Seq(Digits) \ {<<>>} : IndexKey(s) \in AnyKey
  BY DEF StringKey, IndexKey, AnyKey

LEMMA NoText ==
  /\ <<>> \in AnyText /\ Len(<<>>) = 0
  /\ \A s \in AnyText : Len(s) \in Nat /\ (s = <<>> <=> Len(s) = 0)
  BY DEF AnyText

(* Every step of the splitting takes a key off and leaves a shorter text. *)
LEMMA SplitBracedTyped ==
  ASSUME NEW s \in AnyText, Len(s) > 1
  PROVE  SplitBraced(s).key \in AnyKey /\ SplitBraced(s).rest \in AnyText
         /\ Len(SplitBraced(s).rest) < Len(s)
<1> PICK close : close = Find(s, <<"]">>)
  OBVIOUS
<1> PICK rest : rest = IF close = 0 THEN <<>> ELSE From(s, close + 1)
  OBVIOUS
<1> PICK head : head = IF close = 0 THEN s ELSE SubSeq(s, 1, close - 1)
  OBVIOUS
<1> PICK inside : inside = From(head, 2)
  OBVIOUS
<1>0. Len(s) \in Nat
  BY NoText
<1>1. close = 0 \/ close \in 1 .. Len(s)
  BY FindChar, Marks
<1>2. rest \in AnyText /\ Len(rest) < Len(s)
  <2>1. CASE close = 0
    BY <2>1, NoText
  <2>2. CASE close \in 1 .. Len(s)
    <3>1. close + 1 \in 1 .. (Len(s) + 1) /\ close # 0
      BY <1>0, <2>2
    <3>2. rest \in AnyText /\ Len(rest) = Len(s) - (close + 1) + 1
      BY <3>1, FromIs
    <3> QED
      BY <1>0, <2>2, <3>2
  <2> QED
    BY <1>1, <2>1, <2>2
<1>3. head \in AnyText
  <2>1. CASE close = 0
    BY <2>1
  <2>2. CASE close \in 1 .. Len(s)
    <3>1. close - 1 \in 0 .. Len(s) /\ close # 0
      BY <1>0, <2>2
    <3> QED
      BY <3>1, PrefixIs DEF AnyText
  <2> QED
    BY <1>1, <2>1, <2>2
<1>4. inside \in AnyText
  <2>1. CASE Len(head) = 0
    <3>1. Len(head) \in Int /\ 2 \in Int /\ Len(head) < 2
      BY ONLY <2>1
    <3>2. inside = <<>>
      BY ONLY <3>1, inside = From(head, 2), SubSeqEmpty DEF From
    <3> QED
      BY <3>2, NoText
  <2>2. CASE Len(head) # 0
    <3>0. Len(head) \in Nat
      BY <1>3, NoText
    <3>1. 2 \in 1 .. (Len(head) + 1)
      BY ONLY <2>2, <3>0
    <3> QED
      BY <1>3, <3>1, FromIs
  <2> QED
    BY <2>1, <2>2
<1>5. /\ s[2] \in Digits =>
           SplitBraced(s) = [key |-> IndexKey(Number(From(s, 2))), rest |-> rest]
      /\ s[2] \notin Digits => SplitBraced(s) = [key |-> StringKey(inside), rest |-> rest]
  BY DEF SplitBraced
<1>6. CASE s[2] \in Digits
  <2> PICK u : u = From(s, 2)
    OBVIOUS
  <2>1. 2 \in 1 .. (Len(s) + 1) /\ 1 \in 1 .. (Len(s) - 2 + 1) /\ 2 + 1 - 1 = 2
    BY <1>0
  <2>2. u \in AnyText /\ Len(u) = Len(s) - 2 + 1 /\ u[1] = s[2]
    BY <2>1, FromIs
  <2>3. Number(u) \in Seq(Digits) \ {<<>>}
    BY <1>0, <1>6, <2>2, NumberTyped
  <2> QED
    BY <1>2, <1>5, <1>6, <2>3, KeysTyped
<1>7. CASE s[2] \notin Digits
  BY <1>2, <1>4, <1>5, <1>7, KeysTyped
<1> QED
  BY <1>6, <1>7

LEMMA SplitPlainTyped ==
  ASSUME NEW s \in AnyText, Find(s, <<"[">>) = 1 => Len(s) <= 1
  PROVE  SplitPlain(s).key \in AnyKey /\ SplitPlain(s).rest \in AnyText
         /\ (s = <<>> \/ Len(SplitPlain(s).rest) < Len(s))
<1> PICK dots : dots = Find(s, Delimiter)
  OBVIOUS
<1> PICK brace : brace = Find(s, <<"[">>)
  OBVIOUS
<1>0. Len(s) \in Nat
  BY NoText
<1>1. dots = 0 \/ dots \in 1 .. (Len(s) - 1)
  BY FindDelimiter DEF DelimiterAt
<1>2. brace = 0 \/ brace \in 1 .. Len(s)
  BY FindChar, Marks
<1>3. \/ SplitPlain(s) = [key |-> StringKey(s), rest |-> <<>>]
      \/ brace \in 2 .. Len(s)
         /\ SplitPlain(s) = [key |-> StringKey(SubSeq(s, 1, brace - 1)), rest |-> From(s, brace)]
      \/ dots \in 1 .. (Len(s) - 1)
         /\ SplitPlain(s) = [key |-> StringKey(SubSeq(s, 1, dots - 1)), rest |-> From(s, dots + 2)]
  BY <1>0, <1>1, <1>2 DEF SplitPlain
<1>4. CASE SplitPlain(s) = [key |-> StringKey(s), rest |-> <<>>]
  BY <1>0, <1>4, KeysTyped, NoText
<1>5. CASE brace \in 2 .. Len(s)
           /\ SplitPlain(s) = [key |-> StringKey(SubSeq(s, 1, brace - 1)), rest |-> From(s, brace)]
  <2>1. brace - 1 \in 0 .. Len(s) /\ brace \in 1 .. (Len(s) + 1)
    BY <1>0, <1>5
  <2>2. SubSeq(s, 1, brace - 1) \in AnyText
    BY <2>1, PrefixIs DEF AnyText
  <2>3. From(s, brace) \in AnyText /\ Len(From(s, brace)) = Len(s) - brace + 1
    BY <2>1, FromIs
  <2>4. Len(s) - brace + 1 < Len(s)
    BY <1>0, <1>5
  <2> QED
    BY <1>5, <2>2, <2>3, <2>4, KeysTyped
<1>6. CASE dots \in 1 .. (Len(s) - 1)
           /\ SplitPlain(s) = [key |-> StringKey(SubSeq(s, 1, dots - 1)), rest |-> From(s, dots + 2)]
  <2>1. dots - 1 \in 0 .. Len(s) /\ dots + 2 \in 1 .. (Len(s) + 1)
    BY <1>0, <1>6
  <2>2. SubSeq(s, 1, dots - 1) \in AnyText
    BY <2>1, PrefixIs DEF AnyText
  <2>3. From(s, dots + 2) \in AnyText /\ Len(From(s, dots + 2)) = Len(s) - (dots + 2) + 1
    BY <2>1, FromIs
  <2>4. Len(s) - (dots + 2) + 1 < Len(s)
    BY <1>0, <1>6
  <2> QED
    BY <1>6, <2>2, <2>3, <2>4, KeysTyped
<1> QED
  BY <1>3, <1>4, <1>5, <1>6

LEMMA SplitKeyTyped ==
  ASSUME NEW s \in AnyText, s # <<>>
  PROVE  /\ SplitKey(s).key \in AnyKey /\ SplitKey(s).rest \in AnyText
         /\ Len(SplitKey(s).rest) < Len(s)
<1> PICK u : u = Stripped(s)
  OBVIOUS
<1>0. Len(s) \in Nat /\ Len(s) # 0
  BY NoText
<1>1. u \in AnyText /\ Len(u) <= Len(s)
  <2> PICK n \in Nat : 2 * n <= Len(s) /\ u = From(s, 2 * n + 1)
    BY StrippedIs
  <2>1. 2 * n + 1 \in 1 .. (Len(s) + 1)
    BY <1>0
  <2>2. u \in AnyText /\ Len(u) = Len(s) - (2 * n + 1) + 1
    BY <2>1, FromIs
  <2> QED
    BY <1>0, <2>2
<1>2. SplitKey(s) = IF Find(u, <<"[">>) = 1 /\ Len(u) > 1 THEN SplitBraced(u) ELSE SplitPlain(u)
  BY DEF SplitKey
<1>3. CASE Find(u, <<"[">>) = 1 /\ Len(u) > 1
  <2>1. /\ SplitBraced(u).key \in AnyKey /\ SplitBraced(u).rest \in AnyText
        /\ Len(SplitBraced(u).rest) < Len(u)
    BY <1>1, <1>3, SplitBracedTyped
  <2> QED
    BY <1>0, <1>1, <1>2, <1>3, <2>1, NoText
<1>4. CASE ~(Find(u, <<"[">>) = 1 /\ Len(u) > 1)
  <2>1. Len(u) \in Nat
    BY <1>1, NoText
  <2>2. /\ SplitPlain(u).key \in AnyKey /\ SplitPlain(u).rest \in AnyText
        /\ (u = <<>> \/ Len(SplitPlain(u).rest) < Len(u))
    BY <1>1, <1>4, <2>1, SplitPlainTyped
  <2>3. Len(SplitPlain(u).rest) < Len(s)
    <3>1. CASE u = <<>>
      <4>1. SplitPlain(u).rest = <<>>
        <5>1. Find(u, Delimiter) = 0
          BY <1>1, <3>1, FindDelimiter, NoText DEF DelimiterAt
        <5>2. Find(u, <<"[">>) = 0
          BY <1>1, <3>1, FindChar, NoText, Marks
        <5> QED
          BY <5>1, <5>2 DEF SplitPlain
      <4> QED
        BY <1>0, <4>1, NoText
    <3>2. CASE Len(SplitPlain(u).rest) < Len(u)
      BY <1>0, <1>1, <2>1, <2>2, <3>2, NoText
    <3> QED
      BY <2>2, <3>1, <3>2
  <2> QED
    BY <1>2, <1>4, <2>2, <2>3
<1> QED
  BY <1>3, <1>4

-----------------------------------------------------------------------------
(* Writing and reading as the courses of their loops. *)

(* The key that is split from a text, unless it is empty, and how much of *)
(* the text is left behind it.                                             *)
FirstKey(s) == IF SplitKey(s).key = StringKey(<<>>) THEN <<>> ELSE <<SplitKey(s).key>>
Left(s) == Len(SplitKey(s).rest)

(* f[n] is what the last n characters of s are split into. *)
Splitting(f, s) ==
  /\ f[0] = <<>>
  /\ \A n \in 1 .. Len(s) :
       f[n] = FirstKey(From(s, Len(s) - n + 1)) \o f[Left(From(s, Len(s) - n + 1))]

LEMMA KeysLeft ==
  ASSUME NEW s \in AnyText, NEW n \in 1 .. Len(s), NEW u, u = From(s, Len(s) - n + 1)
  PROVE  FirstKey(u) \in Seq(AnyKey) /\ Left(u) \in 0 .. (n - 1)
<1>0. Len(s) \in Nat
  BY NoText
<1>1. Len(s) - n + 1 \in 1 .. (Len(s) + 1) /\ Len(s) - (Len(s) - n + 1) + 1 = n
  BY <1>0
<1>2. u \in AnyText /\ Len(u) = n
  BY <1>1, FromIs
<1>3. u # <<>>
  BY <1>2, NoText
<1>4. SplitKey(u).key \in AnyKey /\ SplitKey(u).rest \in AnyText /\ Len(SplitKey(u).rest) < n
  BY <1>2, <1>3, SplitKeyTyped
<1>5. Left(u) \in 0 .. (n - 1)
  BY <1>4, NoText DEF Left
<1>6. FirstKey(u) \in Seq(AnyKey)
  <2> PICK key \in AnyKey : key = SplitKey(u).key
    BY <1>4
  <2>1. <<>> \in Seq(AnyKey) /\ <<key>> \in Seq(AnyKey)
    OBVIOUS
  <2> QED
    BY <2>1 DEF FirstKey
<1> QED
  BY <1>5, <1>6

LEMMA SplitRuns ==
  ASSUME NEW s \in AnyText
  PROVE  \E f \in [0 .. Len(s) -> Seq(AnyKey)] : Splitting(f, s) /\ f[Len(s)] = Split(s)
<1> DEFINE n == Len(s)
           V == Seq(AnyKey)
           U(i) == From(s, Len(s) - i + 1)
           Front1(i) == FirstKey(U(i))
           Back(i) == Left(U(i))
           back == [i \in 1 .. n |-> Back(i)]
           step == [i \in 1 .. n |-> [q \in V |-> Front1(i) \o q]]
           g == CHOOSE g : g = [i \in 0 .. n |-> IF i = 0 THEN <<>> ELSE Front1(i) \o g[Back(i)]]
<1>0. n \in Nat /\ <<>> \in V
  BY NoText
<1>1. ASSUME NEW i \in 1 .. n PROVE Front1(i) \in V /\ Back(i) \in 0 .. (i - 1)
  BY KeysLeft
<1>2. Split(s) = g[n]
  BY DEF Split, FirstKey, Left
<1> HIDE DEF Front1, Back, n
<1>3. \A i \in 1 .. n : \A q \in V : Front1(i) \o q \in V
  BY <1>1
<1> HIDE DEF V
<1>4. step \in [1 .. n -> [V -> V]]
  BY <1>3
<1>5. back \in [1 .. n -> Nat] /\ \A i \in 1 .. n : back[i] = Back(i) /\ back[i] < i /\ back[i] \in 0 .. n
  BY <1>0, <1>1
<1> PICK f \in [0 .. n -> V] : Course(f, n, <<>>, back, step)
  <2> HIDE DEF step, back
  <2> QED
    BY <1>0, <1>4, <1>5, CourseExists
<1>6. f[0] = <<>> /\ \A i \in 1 .. n : f[i] = Front1(i) \o f[Back(i)]
  <2>1. ASSUME NEW i \in 1 .. n PROVE f[i] = Front1(i) \o f[Back(i)]
    <3> HIDE DEF back
    <3>1. f[i] = step[i][f[back[i]]] /\ f[back[i]] \in V /\ back[i] = Back(i)
      <4> HIDE DEF step
      <4> QED
        BY <1>5 DEF Course
    <3>2. \A q \in V : step[i][q] = Front1(i) \o q
      OBVIOUS
    <3> HIDE DEF step
    <3> QED
      BY ONLY <3>1, <3>2
  <2> QED
    BY <2>1 DEF Course
<1> HIDE DEF step, back
<1>7. g = [i \in 0 .. n |-> IF i = 0 THEN <<>> ELSE Front1(i) \o g[Back(i)]]
  <2> DEFINE R(i) == IF i = 0 THEN <<>> ELSE Front1(i) \o f[Back(i)]
  <2>1. \A i \in 0 .. n : f[i] = R(i)
    BY <1>0, <1>6
  <2>2. f = [i \in 0 .. n |-> R(i)]
    <3> HIDE DEF R
    <3> QED
      BY <2>1
  <2> QED
    BY <2>2
<1> HIDE DEF g
<1>8. g[0] = <<>> /\ \A i \in 1 .. n : g[i] = Front1(i) \o g[Back(i)]
  <2> DEFINE R(i) == IF i = 0 THEN <<>> ELSE Front1(i) \o g[Back(i)]
  <2>1. g = [i \in 0 .. n |-> R(i)]
    BY <1>7
  <2>2. R(0) = <<>> /\ \A i \in 1 .. n : R(i) = Front1(i) \o g[Back(i)]
    BY ONLY <1>0
  <2> HIDE DEF R
  <2>3. \A i \in 0 .. n : g[i] = R(i)
    BY ONLY <2>1
  <2> QED
    BY ONLY <1>0, <2>2, <2>3
<1>9. g \in [0 .. n -> V]
  <2> DEFINE S == {i \in 0 .. n : \A j \in 0 .. i : g[j] \in V}
  <2>1. 0 \in S
    BY <1>0, <1>8
  <2>2. ASSUME NEW i \in 1 .. n, i - 1 \in S PROVE i \in S
    <3>1. Back(i) \in 0 .. (i - 1)
      BY <1>1
    <3>2. g[Back(i)] \in V
      BY <2>2, <3>1
    <3>3. g[i] \in V
      BY <1>3, <1>8, <3>2
    <3>4. \A j \in 0 .. i : j = i \/ j \in 0 .. (i - 1)
      BY <1>0
    <3> QED
      BY <1>0, <2>2, <3>3, <3>4
  <2> HIDE DEF S
  <2>3. \A i \in 0 .. n : i \in S
    BY <1>0, <2>1, <2>2, InductionUpTo
  <2>4. \A i \in 0 .. n : g[i] \in V
    BY <1>0, <2>3 DEF S
  <2> QED
    BY <1>7, <2>4
<1> QED
  BY <1>2, <1>8, <1>9, Zenon DEF Front1, Back, n, V, Splitting

(* f[n] is what is written of the first n keys. *)
Joining(f, keys) == f[0] = <<>> /\ \A n \in 1 .. Len(keys) : f[n] = WithKey(f[n - 1], keys[n])

LEMMA WrittenTyped ==
  ASSUME NEW out \in AnyText, NEW key \in AnyKey
  PROVE  key.str \in AnyText /\ WithKey(out, key) \in AnyText
<1>1. Seq(Digits) \subseteq Seq(Chars)
  BY Marks, SeqMonotonic
<1>2. key.str \in Seq(Chars)
  BY <1>1 DEF AnyKey, AnyText
<1>3. Delimiter \in Seq(Chars) /\ <<"[">> \in Seq(Chars) /\ <<"]">> \in Seq(Chars) /\ out \in Seq(Chars)
  BY Marks DEF Delimiter, AnyText
<1> PICK t \in Seq(Chars) : t = key.str
  BY <1>2
<1>4. Braced(t) \in Seq(Chars)
  BY <1>3, ConcatProperties DEF Braced
<1>5. out \o Braced(t) \in Seq(Chars) /\ out \o <<>> \in Seq(Chars) /\ out \o Delimiter \in Seq(Chars)
  BY <1>3, <1>4, ConcatProperties, EmptySeq
<1>6. (out \o <<>>) \o t \in Seq(Chars) /\ (out \o Delimiter) \o t \in Seq(Chars)
  BY <1>5, ConcatProperties
<1>7. WithKey(out, key) \in Seq(Chars)
  BY <1>5, <1>6 DEF WithKey
<1> QED
  BY <1>2, <1>7 DEF AnyText

LEMMA JoinedRuns ==
  ASSUME NEW keys \in Seq(AnyKey)
  PROVE  \E f \in [0 .. Len(keys) -> AnyText] : Joining(f, keys) /\ f[Len(keys)] = Joined(keys)
<1> DEFINE n == Len(keys)
           V == AnyText
           Round(t, i) == WithKey(t, keys[i])
           step == [i \in 1 .. n |-> [t \in V |-> Round(t, i)]]
           g == CHOOSE g : g = [i \in 0 .. n |-> IF i = 0 THEN <<>> ELSE Round(g[i - 1], i)]
<1>1. \A t \in V, i \in 1 .. n : Round(t, i) \in V
  BY WrittenTyped
<1>2. Joined(keys) = g[n]
  BY DEF Joined
<1>3. n \in Nat /\ <<>> \in V
  BY NoText
<1> HIDE DEF Round, n, V
<1>4. step \in [1 .. n -> [V -> V]]
  BY <1>1
<1> PICK f \in [0 .. n -> V] : Rounds(f, n, <<>>, step)
  <2> HIDE DEF step
  <2> QED
    BY <1>3, <1>4, RoundsExist
<1>5. f[0] = <<>> /\ \A i \in 1 .. n : f[i] = Round(f[i - 1], i)
  <2>1. ASSUME NEW i \in 1 .. n PROVE f[i] = Round(f[i - 1], i)
    <3>1. i - 1 \in 0 .. n
      BY <1>3
    <3>2. f[i] = step[i][f[i - 1]] /\ f[i - 1] \in V
      BY <3>1 DEF Rounds
    <3> QED
      BY <3>2
  <2> QED
    BY <2>1 DEF Rounds
<1> HIDE DEF step
<1>6. g = [i \in 0 .. n |-> IF i = 0 THEN <<>> ELSE Round(g[i - 1], i)]
  <2> DEFINE R(i) == IF i = 0 THEN <<>> ELSE Round(f[i - 1], i)
  <2>1. \A i \in 0 .. n : f[i] = R(i)
    BY <1>3, <1>5
  <2>2. f = [i \in 0 .. n |-> R(i)]
    <3> HIDE DEF R
    <3> QED
      BY <2>1
  <2> QED
    BY <2>2
<1> HIDE DEF g
<1>7. g[0] = <<>> /\ \A i \in 1 .. n : g[i] = Round(g[i - 1], i)
  BY <1>3, <1>6
<1>8. g \in [0 .. n -> V]
  <2> DEFINE S == {i \in 0 .. n : g[i] \in V}
  <2>1. 0 \in S /\ \A i \in 1 .. n : i - 1 \in S => i \in S
    BY <1>1, <1>3, <1>7
  <2> HIDE DEF S
  <2>2. \A i \in 0 .. n : i \in S
    BY <1>3, <2>1, InductionUpTo
  <2> QED
    BY <1>6, <2>2 DEF S
<1> QED
  BY <1>2, <1>7, <1>8, Zenon DEF Round, n, V, Joining

-----------------------------------------------------------------------------
(* What is split from a text that begins with a written key. *)

LEMMA SameText ==
  ASSUME NEW s \in AnyText, NEW t \in AnyText, Len(s) = Len(t), \A i \in 1 .. Len(t) : s[i] = t[i]
  PROVE  s = t
  BY SeqEqual DEF AnyText

LEMMA PrefixOf ==
  ASSUME NEW s \in AnyText, NEW m \in 0 .. Len(s)
  PROVE  /\ SubSeq(s, 1, m) \in AnyText /\ Len(SubSeq(s, 1, m)) = m
         /\ \A j \in 1 .. m : SubSeq(s, 1, m)[j] = s[j]
  BY PrefixIs DEF AnyText

(* One delimiter at most is skipped before a key that does not begin with one. *)
LEMMA StrippedOf ==
  ASSUME NEW s \in AnyText, NEW d \in {0, 2}, d <= Len(s), \A j \in 1 .. d : s[j] = ":",
         ~DelimiterAt(s, d + 1)
  PROVE  Stripped(s) = From(s, d + 1)
<1> PICK n \in Nat :
      /\ 2 * n <= Len(s) /\ Stripped(s) = From(s, 2 * n + 1)
      /\ \A m \in 0 .. (n - 1) : DelimiterAt(s, 2 * m + 1)
      /\ ~DelimiterAt(s, 2 * n + 1)
  BY StrippedIs
<1>0. Len(s) \in Nat
  BY NoText
<1>1. CASE d = 0
  <2>1. n = 0
    <3>1. n > 0 => 0 \in 0 .. (n - 1) /\ 2 * 0 + 1 = 1 /\ d + 1 = 1
      BY ONLY n \in Nat, <1>1
    <3>2. n > 0 => DelimiterAt(s, 1)
      BY <3>1
    <3>3. d + 1 = 1
      BY <1>1
    <3> QED
      BY <3>2, <3>3
  <2>2. 2 * n + 1 = d + 1
    BY <1>1, <2>1
  <2> QED
    BY <2>2
<1>2. CASE d = 2
  <2>1. DelimiterAt(s, 1)
    <3>1. 1 \in 1 .. (Len(s) - 1) /\ 1 \in 1 .. d /\ 2 \in 1 .. d /\ 1 + 1 = 2
      BY <1>0, <1>2
    <3> QED
      BY <3>1 DEF DelimiterAt
  <2>2. n # 0
    <3>1. n = 0 => 2 * n + 1 = 1
      OBVIOUS
    <3> QED
      BY <2>1, <3>1
  <2>3. ~(n >= 2)
    <3>1. n >= 2 => 1 \in 0 .. (n - 1) /\ 2 * 1 + 1 = d + 1
      BY <1>2
    <3>2. n >= 2 => DelimiterAt(s, d + 1)
      BY <3>1
    <3> QED
      BY <3>2
  <2>4. 2 * n + 1 = d + 1
    BY <1>2, <2>2, <2>3
  <2> QED
    BY <2>4
<1> QED
  BY <1>1, <1>2

LEMMA FromStart ==
  ASSUME NEW s \in AnyText
  PROVE  From(s, 1) = s
  BY SubSeqFull DEF From, AnyText

(* A text that begins with a key in brackets gives that key. *)
LEMMA SplitsBracketed ==
  ASSUME NEW u \in AnyText, NEW t \in AnyText, Len(t) >= 1, Len(u) >= Len(t) + 2,
         u[1] = "[", u[Len(t) + 2] = "]", \A j \in 1 .. Len(t) : u[j + 1] = t[j] /\ t[j] # "]"
  PROVE  /\ Left(u) = Len(u) - (Len(t) + 2)
         /\ t[1] \notin Digits => SplitKey(u).key = StringKey(t)
         /\ t \in Seq(Digits) => SplitKey(u).key = IndexKey(t)
<1> PICK l \in Nat : l = Len(t)
  BY NoText
<1> PICK e \in Nat : e = l + 2
  OBVIOUS
<1>0. Len(u) \in Nat /\ l >= 1 /\ e <= Len(u) /\ u[e] = "]"
  BY NoText
<1>00. \A j \in 1 .. l : u[j + 1] = t[j] /\ t[j] # "]"
  OBVIOUS
<1>1. Stripped(u) = u
  <2>1. 0 \in {0, 2} /\ 0 <= Len(u) /\ 0 + 1 = 1 /\ \A j : ~(j \in 1 .. 0)
    BY <1>0
  <2>2. ~DelimiterAt(u, 1)
    BY Marks DEF DelimiterAt
  <2> QED
    BY ONLY u \in AnyText, <2>1, <2>2, StrippedOf, FromStart
<1>2. Find(u, <<"[">>) = 1
  <2> PICK f : f = Find(u, <<"[">>)
    OBVIOUS
  <2>1. \/ f = 0 /\ \A i \in 1 .. Len(u) : u[i] # "["
        \/ f \in 1 .. Len(u) /\ u[f] = "[" /\ \A i \in 1 .. Len(u) : u[i] = "[" => f <= i
    BY Marks, FindChar
  <2>2. 1 \in 1 .. Len(u)
    BY <1>0
  <2>3. f \in 1 .. Len(u) /\ f <= 1
    BY <2>1, <2>2
  <2> QED
    BY <1>0, <2>3
<1>3. Find(u, <<"]">>) = e
  <2> PICK f : f = Find(u, <<"]">>)
    OBVIOUS
  <2>1. \/ f = 0 /\ \A i \in 1 .. Len(u) : u[i] # "]"
        \/ f \in 1 .. Len(u) /\ u[f] = "]" /\ \A i \in 1 .. Len(u) : u[i] = "]" => f <= i
    BY Marks, FindChar
  <2>2. e \in 1 .. Len(u)
    BY ONLY <1>0, e = l + 2, l \in Nat
  <2>3. f \in 1 .. Len(u) /\ u[f] = "]" /\ f <= e
    BY ONLY <1>0, <2>1, <2>2
  <2>4. \A j \in 1 .. l : u[j + 1] # "]"
    BY <1>00
  <2>5. f # 1
    BY <2>3, Marks
  <2>6. ~(f < e)
    <3> SUFFICES ASSUME f < e PROVE FALSE
      OBVIOUS
    <3>1. f - 1 \in 1 .. l /\ (f - 1) + 1 = f
      BY ONLY <1>0, <2>3, <2>5, f < e, e = l + 2, l \in Nat
    <3> QED
      BY ONLY <2>3, <2>4, <3>1
  <2> QED
    BY ONLY <1>0, <2>3, <2>6, f = Find(u, <<"]">>), e \in Nat
<1> PICK rest : rest = From(u, e + 1)
  OBVIOUS
<1> PICK inside : inside = From(SubSeq(u, 1, e - 1), 2)
  OBVIOUS
<1> PICK v : v = From(u, 2)
  OBVIOUS
<1>4. e # 0 /\ Len(u) > 1
  BY <1>0
<1>5. SplitKey(u) = IF u[2] \in Digits THEN [key |-> IndexKey(Number(v)), rest |-> rest]
                                       ELSE [key |-> StringKey(inside), rest |-> rest]
  BY ONLY <1>1, <1>2, <1>3, <1>4, rest = From(u, e + 1), v = From(u, 2),
          inside = From(SubSeq(u, 1, e - 1), 2) DEF SplitKey, SplitBraced
<1>6. u[2] = t[1]
  <2>1. 1 \in 1 .. l /\ 1 + 1 = 2
    BY <1>0
  <2> QED
    BY <1>00, <2>1
<1>7. Len(rest) = Len(u) - e
  <2>1. e + 1 \in 1 .. (Len(u) + 1)
    BY <1>0
  <2>2. Len(rest) = Len(u) - (e + 1) + 1
    BY <2>1, FromIs
  <2> QED
    BY <1>0, <2>2
<1>8. Left(u) = Len(u) - (Len(t) + 2)
  BY <1>5, <1>7 DEF Left
<1>9. inside = t
  <2> PICK h : h = SubSeq(u, 1, e - 1)
    OBVIOUS
  <2>1. e - 1 \in 0 .. Len(u) /\ e - 1 = l + 1
    BY <1>0
  <2>2. h \in AnyText /\ Len(h) = l + 1 /\ \A j \in 1 .. (l + 1) : h[j] = u[j]
    BY <2>1, PrefixOf
  <2>3. 2 \in 1 .. (Len(h) + 1) /\ Len(h) - 2 + 1 = l
    BY <1>0, <2>2
  <2> PICK m : m = Len(h) - 2 + 1
    OBVIOUS
  <2>4. inside \in AnyText /\ Len(inside) = l /\ \A j \in 1 .. l : inside[j] = h[2 + j - 1]
    <3>1. inside = From(h, 2)
      BY ONLY inside = From(SubSeq(u, 1, e - 1), 2), h = SubSeq(u, 1, e - 1)
    <3>2. inside \in AnyText /\ Len(inside) = m /\ \A j \in 1 .. m : inside[j] = h[2 + j - 1]
      BY ONLY <2>2, <2>3, <3>1, m = Len(h) - 2 + 1, FromIs
    <3>3. m = l
      BY ONLY <2>3, m = Len(h) - 2 + 1
    <3> QED
      BY ONLY <3>2, <3>3
  <2>5. ASSUME NEW j \in 1 .. l PROVE inside[j] = t[j]
    <3>1. 2 + j - 1 = j + 1 /\ j + 1 \in 1 .. (l + 1)
      BY <1>0
    <3>2. inside[j] = h[j + 1] /\ h[j + 1] = u[j + 1]
      BY <2>2, <2>4, <3>1
    <3> QED
      BY <1>00, <3>2
  <2> QED
    BY <2>4, <2>5, SameText
<1>10. ASSUME t \in Seq(Digits) PROVE Number(v) = t /\ t[1] \in Digits
  <2>1. 2 \in 1 .. (Len(u) + 1)
    BY <1>0
  <2>2. v \in AnyText /\ Len(v) = Len(u) - 1 /\ \A j \in 1 .. (Len(u) - 1) : v[j] = u[j + 1]
    <3>1. v \in AnyText /\ Len(v) = Len(u) - 2 + 1 /\ \A j \in 1 .. (Len(u) - 2 + 1) : v[j] = u[2 + j - 1]
      BY <2>1, FromIs
    <3>2. Len(u) - 2 + 1 = Len(u) - 1 /\ \A j \in Int : 2 + j - 1 = j + 1
      BY <1>0
    <3> QED
      BY <3>1, <3>2
  <2>3. \A j \in 1 .. l : t[j] \in Digits
    BY <1>10
  <2>4. ASSUME NEW j \in 1 .. l PROVE v[j] = t[j] /\ v[j] \in Digits
    <3>1. j \in 1 .. (Len(u) - 1)
      BY <1>0
    <3> QED
      BY <1>00, <2>2, <2>3, <3>1
  <2>5. v[l + 1] \notin Digits /\ l + 1 \in 1 .. Len(v)
    <3>1. l + 1 \in 1 .. (Len(u) - 1) /\ (l + 1) + 1 = e
      BY <1>0
    <3>2. v[l + 1] = u[e]
      BY <2>2, <3>1
    <3> QED
      BY <1>0, <2>2, <3>1, <3>2, Marks
  <2> PICK n \in 0 .. Len(v) :
        /\ Number(v) = SubSeq(v, 1, n) /\ \A j \in 1 .. n : v[j] \in Digits
        /\ n < Len(v) => v[n + 1] \notin Digits
    BY <2>2, NumberIs
  <2>6. ~(n > l)
    <3>1. n > l => l + 1 \in 1 .. n
      BY <1>0
    <3> QED
      BY <2>5, <3>1
  <2>7. ~(n < l)
    <3>1. n < l => n + 1 \in 1 .. l /\ n < Len(v)
      BY <1>0, <2>2
    <3> QED
      BY <2>4, <3>1
  <2>8. n = l
    BY <2>6, <2>7
  <2>9. Number(v) \in AnyText /\ Len(Number(v)) = l /\ \A j \in 1 .. l : Number(v)[j] = v[j]
    <3>1. v \in AnyText /\ l \in 0 .. Len(v) /\ Number(v) = SubSeq(v, 1, l)
      BY ONLY <2>2, <2>8, n \in 0 .. Len(v), Number(v) = SubSeq(v, 1, n)
    <3> QED
      BY ONLY <3>1, PrefixOf
  <2>10. 1 \in 1 .. l
    BY <1>0
  <2> QED
    BY <2>3, <2>4, <2>9, <2>10, SameText
<1> QED
  BY <1>5, <1>6, <1>8, <1>9, <1>10

(* After a plain key the text ends, or goes on with a bracket or a delimiter. *)
Bounded(u, e, last) ==
  \/ e = Len(u)
  \/ e + 1 < Len(u) /\ u[e + 1] = "["
  \/ DelimiterAt(u, e + 1) /\ last # ":"

(* u begins with the plain key t, behind d colons, and it ends at e. *)
BeginsPlain(u, t, d, l, e) ==
  /\ l = Len(t) /\ l >= 1 /\ e = d + l /\ e <= Len(u)
  /\ \A j \in 1 .. d : u[j] = ":"
  /\ \A j \in 1 .. l : u[j + d] = t[j] /\ t[j] # "["
  /\ \A j : ~DelimiterAt(t, j)
  /\ Bounded(u, e, t[l])

(* A text that begins with a plain key gives it, and the delimiter behind *)
(* it goes with it.                                                       *)
LEMMA SplitsPlain ==
  ASSUME NEW u \in AnyText, NEW t \in AnyText, NEW d \in {0, 2}, NEW l \in Nat, NEW e \in Nat,
         BeginsPlain(u, t, d, l, e)
  PROVE  /\ SplitKey(u).key = StringKey(t)
         /\ Left(u) = IF DelimiterAt(u, e + 1) THEN Len(u) - e - 2 ELSE Len(u) - e
<1> l = Len(t) /\ l >= 1 /\ e = d + l /\ e <= Len(u)
  BY DEF BeginsPlain
<1> \A j \in 1 .. d : u[j] = ":"
  BY DEF BeginsPlain
<1> \A j \in 1 .. l : u[j + d] = t[j] /\ t[j] # "["
  BY DEF BeginsPlain
<1> (\A j : ~DelimiterAt(t, j)) /\ Bounded(u, e, t[l])
  BY DEF BeginsPlain
<1> PICK s : s = From(u, d + 1)
  OBVIOUS
<1>0. Len(u) \in Nat /\ d \in Nat
  BY NoText
<1>1. s \in AnyText /\ Len(s) = Len(u) - d /\ \A j \in 1 .. (Len(u) - d) : s[j] = u[j + d]
  <2>1. d + 1 \in 1 .. (Len(u) + 1)
    BY ONLY <1>0, e = d + l, e <= Len(u), l \in Nat
  <2>2. /\ s \in AnyText /\ Len(s) = Len(u) - (d + 1) + 1
        /\ \A j \in 1 .. (Len(u) - (d + 1) + 1) : s[j] = u[d + 1 + j - 1]
    BY ONLY u \in AnyText, s = From(u, d + 1), <2>1, FromIs
  <2>3. Len(u) - (d + 1) + 1 = Len(u) - d /\ \A j \in Int : d + 1 + j - 1 = j + d
    BY ONLY <1>0
  <2> QED
    BY ONLY <2>2, <2>3
<1> PICK k \in Nat : k = Len(s)
  BY <1>1, NoText
<1>2. l <= k /\ Len(u) - e = k - l
  BY ONLY <1>0, <1>1, k = Len(s), e = d + l, e <= Len(u), l \in Nat
<1>3. \A j \in 1 .. l : s[j] = t[j] /\ s[j] # "["
  <2> SUFFICES ASSUME NEW j \in 1 .. l PROVE s[j] = t[j] /\ s[j] # "["
    OBVIOUS
  <2>1. j \in 1 .. (Len(u) - d)
    BY ONLY <1>0, j \in 1 .. l, e = d + l, e <= Len(u), l \in Nat
  <2>2. s[j] = u[j + d]
    BY ONLY <1>1, <2>1
  <2> QED
    BY <2>2
<1>4. /\ l < k => s[l + 1] = u[e + 1]
      /\ l + 1 < k => s[l + 2] = u[e + 2]
  <2>1. l < k => l + 1 \in 1 .. (Len(u) - d) /\ (l + 1) + d = e + 1
    BY ONLY <1>0, <1>2, e = d + l, l \in Nat, k \in Nat
  <2>2. l + 1 < k => l + 2 \in 1 .. (Len(u) - d) /\ (l + 2) + d = e + 2
    BY ONLY <1>0, <1>2, e = d + l, l \in Nat, k \in Nat
  <2> QED
    BY ONLY <1>1, <2>1, <2>2
<1>5. DelimiterAt(u, e + 1) <=> DelimiterAt(s, l + 1)
  <2>1. e + 1 \in 1 .. (Len(u) - 1) <=> l + 1 \in 1 .. (k - 1)
    BY ONLY <1>0, <1>2, e = d + l, l \in Nat, k \in Nat
  <2>2. l + 1 \in 1 .. (k - 1) => l < k /\ l + 1 < k
    BY ONLY l \in Nat, k \in Nat
  <2>3. (e + 1) + 1 = e + 2 /\ (l + 1) + 1 = l + 2
    OBVIOUS
  <2> QED
    BY ONLY <1>4, <2>1, <2>2, <2>3, k = Len(s) DEF DelimiterAt
<1>6. \/ k = l
      \/ l + 1 < k /\ s[l + 1] = "["
      \/ DelimiterAt(s, l + 1) /\ t[l] # ":"
  <2>1. CASE e = Len(u)
    <3>1. k = l
      BY ONLY <1>0, <1>2, <2>1, k \in Nat, l \in Nat
    <3> QED
      BY <3>1
  <2>2. CASE e + 1 < Len(u) /\ u[e + 1] = "["
    <3>1. l + 1 < k /\ l < k
      BY ONLY <1>0, <1>2, <2>2, k \in Nat, l \in Nat, e \in Nat
    <3> QED
      BY <1>4, <2>2, <3>1
  <2>3. CASE DelimiterAt(u, e + 1) /\ t[l] # ":"
    BY <1>5, <2>3
  <2> QED
    BY <2>1, <2>2, <2>3 DEF Bounded
<1>7. ASSUME NEW i, DelimiterAt(s, i) PROVE i \in Nat /\ i > l
  <2>1. i \in 1 .. (k - 1) /\ s[i] = ":" /\ s[i + 1] = ":"
    BY <1>7 DEF DelimiterAt
  <2>2. ~(i < l)
    <3> SUFFICES ASSUME i < l PROVE FALSE
      OBVIOUS
    <3>1. i \in 1 .. (l - 1) /\ i \in 1 .. l /\ i + 1 \in 1 .. l
      BY ONLY <2>1, i < l, l \in Nat, k \in Nat
    <3>2. t[i] = ":" /\ t[i + 1] = ":"
      BY ONLY <1>3, <2>1, <3>1
    <3>3. DelimiterAt(t, i)
      BY ONLY <3>1, <3>2, l = Len(t) DEF DelimiterAt
    <3> QED
      BY <3>3
  <2>3. i # l
    <3> SUFFICES ASSUME i = l PROVE FALSE
      OBVIOUS
    <3>1. k # l /\ l \in 1 .. l
      BY ONLY <2>1, i = l, l \in Nat, k \in Nat
    <3>2. t[l] = ":"
      BY ONLY <1>3, <2>1, <3>1, i = l
    <3>3. s[l + 1] # "["
      BY ONLY <2>1, i = l, Marks
    <3> QED
      BY ONLY <1>6, <3>1, <3>2, <3>3
  <2>4. i \in Nat
    BY ONLY <2>1, k \in Nat
  <2> QED
    BY ONLY <2>2, <2>3, <2>4, l \in Nat
<1>8. Stripped(u) = s
  <2>1. ~DelimiterAt(s, 1)
    <3>1. ~(1 > l)
      OBVIOUS
    <3> QED
      BY ONLY <1>7, <3>1
  <2>2. DelimiterAt(u, d + 1) <=> DelimiterAt(s, 1)
    <3>1. d + 1 \in 1 .. (Len(u) - 1) <=> 1 \in 1 .. (k - 1)
      BY ONLY <1>0, <1>1, k = Len(s), k \in Nat
    <3>2. 1 \in 1 .. (k - 1) => 1 \in 1 .. (Len(u) - d) /\ 2 \in 1 .. (Len(u) - d)
      BY ONLY <1>0, <1>1, k = Len(s), k \in Nat
    <3>3. 1 \in 1 .. (k - 1) => s[1] = u[1 + d] /\ s[2] = u[2 + d]
      BY ONLY <1>1, <3>2
    <3>4. 1 + d = d + 1 /\ (d + 1) + 1 = 2 + d /\ 1 + 1 = 2
      BY ONLY <1>0
    <3> QED
      BY ONLY <3>1, <3>3, <3>4, k = Len(s) DEF DelimiterAt
  <2>3. d <= Len(u)
    BY ONLY <1>0, e = d + l, e <= Len(u), l \in Nat
  <2> QED
    BY ONLY u \in AnyText, d \in {0, 2}, \A j \in 1 .. d : u[j] = ":", s = From(u, d + 1),
            <2>1, <2>2, <2>3, StrippedOf
<1> PICK dots : dots = Find(s, Delimiter)
  OBVIOUS
<1> PICK brace : brace = Find(s, <<"[">>)
  OBVIOUS
<1>9. \/ dots = 0 /\ ~DelimiterAt(s, l + 1)
      \/ DelimiterAt(s, dots) /\ dots \in Nat /\ dots > l /\ (DelimiterAt(s, l + 1) => dots = l + 1)
  <2>1. \/ dots = 0 /\ \A i : ~DelimiterAt(s, i)
        \/ DelimiterAt(s, dots) /\ \A i : DelimiterAt(s, i) => dots <= i
    BY <1>1, FindDelimiter
  <2>2. DelimiterAt(s, dots) => dots \in Nat /\ dots > l
    BY <1>7
  <2> QED
    BY ONLY <2>1, <2>2, l \in Nat
<1>10. \/ brace = 0 /\ \A i \in 1 .. k : s[i] # "["
       \/ brace \in 1 .. k /\ s[brace] = "[" /\ brace > l /\ \A i \in 1 .. k : s[i] = "[" => brace <= i
  <2>1. \/ brace = 0 /\ \A i \in 1 .. k : s[i] # "["
        \/ brace \in 1 .. k /\ s[brace] = "[" /\ \A i \in 1 .. k : s[i] = "[" => brace <= i
    BY <1>1, Marks, FindChar
  <2>2. brace \in 1 .. k /\ ~(brace > l) => brace \in 1 .. l
    BY ONLY k \in Nat, l \in Nat
  <2> QED
    BY <1>3, <2>1, <2>2
<1>11. brace # 1
  BY ONLY <1>10, l >= 1, l \in Nat, k \in Nat
<1>12. SplitKey(u) = SplitPlain(s)
  BY ONLY <1>8, <1>11, brace = Find(s, <<"[">>) DEF SplitKey
<1>13. SubSeq(s, 1, l) = t
  <2>1. SubSeq(s, 1, l) \in AnyText /\ Len(SubSeq(s, 1, l)) = l /\ \A j \in 1 .. l : SubSeq(s, 1, l)[j] = s[j]
    <3>1. l \in 0 .. Len(s)
      BY <1>2
    <3> QED
      BY ONLY <1>1, <3>1, PrefixOf
  <2> PICK v : v = SubSeq(s, 1, l)
    OBVIOUS
  <2>2. v = t
    <3>1. v \in AnyText /\ Len(v) = Len(t) /\ \A j \in 1 .. Len(t) : v[j] = t[j]
      BY ONLY <1>3, <2>1, v = SubSeq(s, 1, l), l = Len(t)
    <3> QED
      BY ONLY <3>1, t \in AnyText, SameText
  <2> QED
    BY <2>2
<1>14. CASE k = l
  <2>1. ~DelimiterAt(s, l + 1) /\ dots = 0
    <3>1. \A i : DelimiterAt(s, i) => i \in 1 .. (l - 1)
      BY ONLY <1>14, k = Len(s) DEF DelimiterAt
    <3>2. \A i \in 1 .. (l - 1) : ~(i > l)
      BY ONLY l \in Nat
    <3> QED
      BY ONLY <1>7, <1>9, <3>1, <3>2
  <2>2. brace = 0
    BY ONLY <1>10, <1>14, l \in Nat
  <2>3. s = t
    BY ONLY <1>1, <1>3, <1>14, k = Len(s), t \in AnyText, l = Len(t), SameText
  <2>4. SplitPlain(s) = [key |-> StringKey(t), rest |-> <<>>]
    BY ONLY <2>1, <2>2, <2>3, dots = Find(s, Delimiter), brace = Find(s, <<"[">>) DEF SplitPlain
  <2>5. Left(u) = 0 /\ Len(u) - e = 0
    BY <1>2, <1>12, <1>14, <2>4, NoText DEF Left
  <2> QED
    BY ONLY <1>5, <1>12, <2>1, <2>4, <2>5
<1>15. CASE l + 1 < k /\ s[l + 1] = "["
  <2>1. ~DelimiterAt(s, l + 1)
    BY ONLY <1>15, Marks DEF DelimiterAt
  <2>2. brace = l + 1 /\ brace # k /\ brace # 0
    <3>1. l + 1 \in 1 .. k
      BY ONLY <1>15, k \in Nat, l \in Nat
    <3>2. brace \in 1 .. k /\ brace > l /\ brace <= l + 1
      BY ONLY <1>10, <1>15, <3>1
    <3> QED
      BY ONLY <1>15, <3>2, k \in Nat, l \in Nat
  <2>3. dots = 0 \/ brace < dots
    <3>1. dots # l + 1 \/ dots = 0
      BY <1>9, <2>1
    <3> QED
      BY ONLY <1>9, <2>2, <3>1, l \in Nat
  <2>4. SplitPlain(s) = [key |-> StringKey(SubSeq(s, 1, brace - 1)), rest |-> From(s, brace)]
    BY ONLY <2>2, <2>3, k = Len(s), dots = Find(s, Delimiter), brace = Find(s, <<"[">>) DEF SplitPlain
  <2>5. brace - 1 = l /\ 1 \in 1 .. k /\ brace \in 1 .. (Len(s) + 1)
    BY ONLY <1>15, <2>2, k = Len(s), k \in Nat, l \in Nat
  <2>6. SubSeq(s, 1, brace - 1) = t
    BY ONLY <1>13, <2>5
  <2>7. Len(From(s, brace)) = Len(s) - brace + 1
    BY ONLY <1>1, <2>5, FromIs
  <2>8. Len(s) - brace + 1 = Len(u) - e
    BY ONLY <1>2, <2>2, k = Len(s), k \in Nat, l \in Nat
  <2>9. Left(u) = Len(u) - e
    BY ONLY <1>12, <2>4, <2>7, <2>8 DEF Left
  <2>10. SplitKey(u).key = StringKey(SubSeq(s, 1, brace - 1))
    BY ONLY <1>12, <2>4
  <2> QED
    BY ONLY <1>5, <2>1, <2>6, <2>9, <2>10
<1>16. CASE DelimiterAt(s, l + 1) /\ t[l] # ":"
  <2>1. dots = l + 1 /\ l + 1 \in 1 .. (k - 1) /\ s[l + 1] = ":"
    BY ONLY <1>9, <1>16, k = Len(s), l \in Nat DEF DelimiterAt
  <2>2. brace = 0 \/ ~(brace < dots)
    BY ONLY <1>10, <2>1, l \in Nat, k \in Nat
  <2>3. SplitPlain(s) = [key |-> StringKey(SubSeq(s, 1, dots - 1)), rest |-> From(s, dots + 2)]
    <3>1. dots # 0
      BY ONLY <2>1, l \in Nat
    <3> QED
      BY ONLY <2>2, <3>1, dots = Find(s, Delimiter), brace = Find(s, <<"[">>) DEF SplitPlain
  <2>4. dots - 1 = l /\ 1 \in 1 .. k /\ dots + 2 \in 1 .. (Len(s) + 1)
    BY ONLY <2>1, k = Len(s), k \in Nat, l \in Nat
  <2>5. SubSeq(s, 1, dots - 1) = t
    BY ONLY <1>13, <2>4
  <2>6. Len(From(s, dots + 2)) = Len(s) - (dots + 2) + 1
    BY ONLY <1>1, <2>4, FromIs
  <2>7. Len(s) - (dots + 2) + 1 = Len(u) - e - 2
    BY ONLY <1>0, <1>2, <2>1, k = Len(s), k \in Nat, l \in Nat, e \in Nat
  <2>8. Left(u) = Len(u) - e - 2
    BY ONLY <1>12, <2>3, <2>6, <2>7 DEF Left
  <2>9. SplitKey(u).key = StringKey(SubSeq(s, 1, dots - 1))
    BY ONLY <1>12, <2>3
  <2> QED
    BY ONLY <1>5, <1>16, <2>5, <2>8, <2>9
<1> QED
  BY ONLY <1>6, <1>14, <1>15, <1>16

-----------------------------------------------------------------------------
(* Where the keys lie in the text that is written of them. *)

LEMMA ConcatOf ==
  ASSUME NEW s \in AnyText, NEW t \in AnyText
  PROVE  /\ s \o t \in AnyText /\ Len(s \o t) = Len(s) + Len(t)
         /\ \A i \in 1 .. Len(s) : (s \o t)[i] = s[i]
         /\ \A i \in 1 .. Len(t) : (s \o t)[Len(s) + i] = t[i]
<1> PICK v : v = s \o t
  OBVIOUS
<1>1. /\ v \in AnyText /\ Len(v) = Len(s) + Len(t)
      /\ \A i \in 1 .. Len(s) + Len(t) : v[i] = IF i <= Len(s) THEN s[i] ELSE t[i - Len(s)]
  BY ConcatProperties DEF AnyText
<1>2. Len(s) \in Nat /\ Len(t) \in Nat
  BY NoText
<1>3. ASSUME NEW i \in 1 .. Len(s) PROVE v[i] = s[i]
  BY <1>1, <1>2
<1>4. ASSUME NEW i \in 1 .. Len(t) PROVE v[Len(s) + i] = t[i]
  <2>1. Len(s) + i \in 1 .. Len(s) + Len(t) /\ ~(Len(s) + i <= Len(s)) /\ Len(s) + i - Len(s) = i
    BY <1>2
  <2> QED
    BY <1>1, <2>1
<1> QED
  BY <1>1, <1>3, <1>4

Bracketed(key) == key.type = "Index" \/ NeedsBraces(key.str)

LiesBracketed(w, t, a, b) ==
  /\ b = a + (Len(t) + 2) /\ w[a + 1] = "[" /\ w[b] = "]"
  /\ \A j \in 1 .. Len(t) : w[a + (j + 1)] = t[j]

LiesPlain(w, t, a, b, d) ==
  /\ b = a + (d + Len(t)) /\ \A j \in 1 .. d : w[a + j] = ":"
  /\ \A j \in 1 .. Len(t) : w[a + (j + d)] = t[j]

(* The key is written from a on, up to b; a plain one behind a delimiter. *)
Gap(a) == IF a = 0 THEN 0 ELSE 2
Lies(w, key, a, b) ==
  IF Bracketed(key) THEN LiesBracketed(w, key.str, a, b) ELSE LiesPlain(w, key.str, a, b, Gap(a))

(* What is written before stays, and the key lies behind it. *)
LEMMA WrittenLies ==
  ASSUME NEW out \in AnyText, NEW key \in AnyKey, NEW w, w = WithKey(out, key), key.str # <<>>
  PROVE  /\ Len(out) < Len(w) /\ \A j \in 1 .. Len(out) : w[j] = out[j]
         /\ Lies(w, key, Len(out), Len(w))
<1> PICK t : t = key.str
  OBVIOUS
<1> PICK a : a = Len(out)
  OBVIOUS
<1> PICK l : l = Len(t)
  OBVIOUS
<1>1. t \in AnyText /\ a \in Nat /\ l \in Nat /\ l >= 1
  BY WrittenTyped, NoText
<1>2. CASE Bracketed(key)
  <2> PICK x : x = <<"[">> \o t
    OBVIOUS
  <2> PICK y : y = x \o <<"]">>
    OBVIOUS
  <2>1. w = out \o y
    BY <1>2 DEF WithKey, Bracketed, Braced
  <2>2. /\ <<"[">> \in AnyText /\ Len(<<"[">>) = 1 /\ <<"[">>[1] = "["
        /\ <<"]">> \in AnyText /\ Len(<<"]">>) = 1 /\ <<"]">>[1] = "]"
    BY Marks DEF AnyText
  <2>3. x \in AnyText /\ Len(x) = 1 + l /\ x[1] = "[" /\ \A i \in 1 .. l : x[1 + i] = t[i]
    BY ONLY <1>1, <2>2, x = <<"[">> \o t, l = Len(t), ConcatOf
  <2>4. /\ y \in AnyText /\ Len(y) = (1 + l) + 1
        /\ \A i \in 1 .. (1 + l) : y[i] = x[i]
        /\ y[(1 + l) + 1] = "]"
    <3>1. /\ y \in AnyText /\ Len(y) = Len(x) + 1 /\ \A i \in 1 .. Len(x) : y[i] = x[i]
          /\ \A i \in 1 .. 1 : y[Len(x) + i] = <<"]">>[i]
      BY ONLY <2>2, <2>3, y = x \o <<"]">>, ConcatOf
    <3> QED
      BY ONLY <2>2, <2>3, <3>1
  <2>5. /\ Len(w) = a + ((1 + l) + 1) /\ \A j \in 1 .. a : w[j] = out[j]
        /\ \A i \in 1 .. ((1 + l) + 1) : w[a + i] = y[i]
    <3>1. /\ Len(w) = Len(out) + Len(y) /\ \A j \in 1 .. Len(out) : w[j] = out[j]
          /\ \A i \in 1 .. Len(y) : w[Len(out) + i] = y[i]
      BY ONLY out \in AnyText, <2>1, <2>4, ConcatOf
    <3> QED
      BY ONLY <2>4, <3>1, a = Len(out)
  <2>6. w[a + 1] = "[" /\ w[a + ((1 + l) + 1)] = "]"
    <3>1. 1 \in 1 .. ((1 + l) + 1) /\ 1 \in 1 .. (1 + l) /\ (1 + l) + 1 \in 1 .. ((1 + l) + 1)
      BY ONLY <1>1
    <3> QED
      BY ONLY <2>3, <2>4, <2>5, <3>1
  <2>7. ASSUME NEW j \in 1 .. l PROVE w[a + (j + 1)] = t[j]
    <3>1. j + 1 \in 1 .. ((1 + l) + 1) /\ j + 1 \in 1 .. (1 + l) /\ 1 + j = j + 1
      BY ONLY <1>1, j \in 1 .. l
    <3> QED
      BY ONLY <2>3, <2>4, <2>5, <3>1, j \in 1 .. l
  <2>8. a < a + ((1 + l) + 1) /\ a + ((1 + l) + 1) = a + (l + 2)
    BY ONLY <1>1
  <2>9. LiesBracketed(w, t, a, Len(w))
    BY ONLY <2>5, <2>6, <2>7, <2>8, l = Len(t) DEF LiesBracketed
  <2> QED
    BY ONLY <1>2, <2>5, <2>8, <2>9, a = Len(out), t = key.str DEF Lies
<1>3. CASE ~Bracketed(key)
  <2> PICK x : x = IF out = <<>> THEN <<>> ELSE Delimiter
    OBVIOUS
  <2> PICK d : d = Gap(a)
    OBVIOUS
  <2>1. w = (out \o x) \o t
    BY <1>3 DEF WithKey, Bracketed
  <2>2. x \in AnyText /\ Len(x) = d /\ d \in Nat /\ \A j \in 1 .. d : x[j] = ":"
    <3>1. out = <<>> <=> a = 0
      BY NoText
    <3>2. <<>> \in AnyText /\ Len(<<>>) = 0 /\ \A j : ~(j \in 1 .. 0)
      BY NoText
    <3>3. Delimiter \in AnyText /\ Len(Delimiter) = 2 /\ \A j \in 1 .. 2 : Delimiter[j] = ":"
      BY Marks DEF Delimiter, AnyText
    <3>4. CASE a = 0
      BY ONLY <3>1, <3>2, <3>4, x = (IF out = <<>> THEN <<>> ELSE Delimiter), d = Gap(a) DEF Gap
    <3>5. CASE a # 0
      BY ONLY <3>1, <3>3, <3>5, x = (IF out = <<>> THEN <<>> ELSE Delimiter), d = Gap(a) DEF Gap
    <3> QED
      BY ONLY <3>4, <3>5
  <2> PICK y : y = out \o x
    OBVIOUS
  <2>3. /\ y \in AnyText /\ Len(y) = a + d
        /\ \A j \in 1 .. a : y[j] = out[j]
        /\ \A j \in 1 .. d : y[a + j] = x[j]
    BY ONLY out \in AnyText, <2>2, y = out \o x, a = Len(out), ConcatOf
  <2>4. /\ Len(w) = (a + d) + l
        /\ \A j \in 1 .. (a + d) : w[j] = y[j]
        /\ \A j \in 1 .. l : w[(a + d) + j] = t[j]
    <3>1. /\ Len(w) = Len(y) + Len(t) /\ \A j \in 1 .. Len(y) : w[j] = y[j]
          /\ \A j \in 1 .. Len(t) : w[Len(y) + j] = t[j]
      BY ONLY <1>1, <2>1, <2>3, y = out \o x, ConcatOf
    <3> QED
      BY ONLY <2>3, <3>1, l = Len(t)
  <2>5. ASSUME NEW j \in 1 .. a PROVE w[j] = out[j]
    <3>1. j \in 1 .. (a + d)
      BY ONLY <1>1, <2>2, j \in 1 .. a
    <3> QED
      BY ONLY <2>3, <2>4, <3>1, j \in 1 .. a
  <2>6. ASSUME NEW j \in 1 .. d PROVE w[a + j] = ":"
    <3>1. a + j \in 1 .. (a + d)
      BY ONLY <1>1, <2>2, j \in 1 .. d
    <3> QED
      BY ONLY <2>2, <2>3, <2>4, <3>1, j \in 1 .. d
  <2>7. ASSUME NEW j \in 1 .. l PROVE w[a + (j + d)] = t[j]
    <3>1. a + (j + d) = (a + d) + j
      BY ONLY <1>1, <2>2, j \in 1 .. l
    <3> QED
      BY ONLY <2>4, <3>1, j \in 1 .. l
  <2>8. a < (a + d) + l /\ (a + d) + l = a + (d + l)
    BY ONLY <1>1, <2>2
  <2>9. LiesPlain(w, t, a, Len(w), d)
    BY ONLY <2>4, <2>6, <2>7, <2>8, l = Len(t) DEF LiesPlain
  <2> QED
    BY ONLY <1>3, <2>4, <2>5, <2>8, <2>9, a = Len(out), t = key.str, d = Gap(a) DEF Lies
<1> QED
  BY <1>2, <1>3

LEMMA LiesStill ==
  ASSUME NEW v, NEW w, NEW key \in AnyKey, NEW a \in Nat, NEW b \in Nat,
         key.str # <<>>, Lies(v, key, a, b), \A j \in 1 .. b : w[j] = v[j]
  PROVE  Lies(w, key, a, b)
<1> PICK t : t = key.str
  OBVIOUS
<1> PICK l \in Nat : l = Len(t)
  BY WrittenTyped, NoText
<1>1. CASE Bracketed(key)
  <2>1. LiesBracketed(v, t, a, b)
    BY <1>1 DEF Lies
  <2>2. a + 1 \in 1 .. b /\ b \in 1 .. b /\ \A j \in 1 .. l : a + (j + 1) \in 1 .. b
    BY ONLY <2>1, l \in Nat, l = Len(t), a \in Nat DEF LiesBracketed
  <2>3. LiesBracketed(w, t, a, b)
    BY ONLY <2>1, <2>2, l = Len(t), \A j \in 1 .. b : w[j] = v[j] DEF LiesBracketed
  <2> QED
    BY <1>1, <2>3 DEF Lies
<1>2. CASE ~Bracketed(key)
  <2> PICK d \in Nat : d = Gap(a)
    BY DEF Gap
  <2>1. LiesPlain(v, t, a, b, d)
    BY <1>2 DEF Lies
  <2>2. (\A j \in 1 .. d : a + j \in 1 .. b) /\ \A j \in 1 .. l : a + (j + d) \in 1 .. b
    BY ONLY <2>1, l \in Nat, l = Len(t), a \in Nat, d \in Nat DEF LiesPlain
  <2>3. LiesPlain(w, t, a, b, d)
    BY ONLY <2>1, <2>2, l = Len(t), \A j \in 1 .. b : w[j] = v[j] DEF LiesPlain
  <2> QED
    BY <1>2, <2>3 DEF Lies
<1> QED
  BY <1>1, <1>2

(* p[m] is where the text of the first m keys ends. *)
Laid(w, keys, p) ==
  /\ p[0] = 0 /\ p[Len(keys)] = Len(w)
  /\ \A m \in 1 .. Len(keys) :
       p[m - 1] < p[m] /\ p[m] <= Len(w) /\ Lies(w, keys[m], p[m - 1], p[m])

(* In the text of a path its keys lie one behind the other. *)
LEMMA JoinedLaid ==
  ASSUME NEW keys \in Seq(AnyKey), \A i \in 1 .. Len(keys) : keys[i].str # <<>>
  PROVE  Joined(keys) \in AnyText /\ \E p \in [0 .. Len(keys) -> Nat] : Laid(Joined(keys), keys, p)
<1> PICK n \in Nat : n = Len(keys)
  OBVIOUS
<1> PICK f \in [0 .. n -> AnyText] : Joining(f, keys) /\ f[n] = Joined(keys)
  BY JoinedRuns
<1> DEFINE p == [m \in 0 .. n |-> Len(f[m])]
<1>1. p \in [0 .. n -> Nat] /\ \A m \in 0 .. n : p[m] = Len(f[m]) /\ f[m] \in AnyText
  BY NoText
<1> HIDE DEF p
<1>2. ASSUME NEW m \in 1 .. n
      PROVE  /\ m - 1 \in 0 .. n /\ m \in 0 .. n /\ p[m - 1] < p[m]
             /\ \A j \in 1 .. p[m - 1] : f[m][j] = f[m - 1][j]
             /\ Lies(f[m], keys[m], p[m - 1], p[m])
  <2>1. m - 1 \in 0 .. n /\ m \in 0 .. n
    OBVIOUS
  <2>2. f[m] = WithKey(f[m - 1], keys[m])
    BY DEF Joining
  <2>3. f[m - 1] \in AnyText /\ keys[m] \in AnyKey /\ keys[m].str # <<>>
    BY <2>1
  <2> PICK out \in AnyText : out = f[m - 1]
    BY <2>3
  <2> PICK key \in AnyKey : key = keys[m]
    BY <2>3
  <2> PICK w : w = f[m]
    OBVIOUS
  <2>4. /\ Len(out) < Len(w) /\ \A j \in 1 .. Len(out) : w[j] = out[j]
        /\ Lies(w, key, Len(out), Len(w))
    BY ONLY <2>2, <2>3, out = f[m - 1], key = keys[m], w = f[m], out \in AnyText, key \in AnyKey, WrittenLies
  <2>5. Len(out) = p[m - 1] /\ Len(w) = p[m]
    BY <1>1, <2>1
  <2> QED
    BY ONLY <2>1, <2>4, <2>5, out = f[m - 1], key = keys[m], w = f[m]
<1> DEFINE Extends(i, m) == p[m] <= p[i] /\ \A j \in 1 .. p[m] : f[i][j] = f[m][j]
           S == {i \in 0 .. n : \A m \in 0 .. i : Extends(i, m)}
<1>3. 0 \in S
  <2>1. p[0] \in Nat /\ \A m \in 0 .. 0 : m = 0
    BY <1>1
  <2> QED
    BY <2>1
<1>4. ASSUME NEW i \in 1 .. n, i - 1 \in S PROVE i \in S
  <2>1. ASSUME NEW m \in 0 .. i PROVE Extends(i, m)
    <3>1. m \in 0 .. n /\ p[m] \in Nat /\ p[i] \in Nat /\ p[i - 1] \in Nat
      BY <1>1, <1>2
    <3>2. CASE m = i
      BY <3>1, <3>2
    <3>3. CASE m # i
      <4>1. m \in 0 .. (i - 1)
        BY <3>3
      <4>2. Extends(i - 1, m)
        BY <1>4, <4>1
      <4>3. p[i - 1] < p[i] /\ \A j \in 1 .. p[i - 1] : f[i][j] = f[i - 1][j]
        BY <1>2
      <4>4. \A j \in 1 .. p[m] : j \in 1 .. p[i - 1]
        BY ONLY <3>1, <4>2
      <4>5. \A j \in 1 .. p[m] : f[i][j] = f[m][j]
        BY ONLY <4>2, <4>3, <4>4
      <4>6. p[m] <= p[i]
        BY ONLY <3>1, <4>2, <4>3
      <4> QED
        BY <4>5, <4>6
    <3> QED
      BY <3>2, <3>3
  <2> QED
    BY <1>2, <2>1
<1>5. \A i \in 0 .. n : i \in S
  <2> HIDE DEF S
  <2> QED
    BY <1>3, <1>4, InductionUpTo
<1>6. n \in 0 .. n /\ p[0] = 0 /\ p[n] = Len(Joined(keys)) /\ Joined(keys) \in AnyText
  <2>1. 0 \in 0 .. n /\ n \in 0 .. n
    OBVIOUS
  <2>2. f[0] = <<>>
    BY DEF Joining
  <2> QED
    BY <1>1, <2>1, <2>2, NoText
<1>7. ASSUME NEW m \in 1 .. n
      PROVE  /\ p[m - 1] < p[m] /\ p[m] <= Len(Joined(keys))
             /\ Lies(Joined(keys), keys[m], p[m - 1], p[m])
  <2>1. m \in 0 .. n /\ m - 1 \in 0 .. n /\ p[m - 1] < p[m] /\ Lies(f[m], keys[m], p[m - 1], p[m])
    BY <1>2
  <2>2. Extends(n, m)
    BY <1>5, <1>6, <2>1
  <2>3. keys[m] \in AnyKey /\ keys[m].str # <<>> /\ p[m - 1] \in Nat /\ p[m] \in Nat
    BY <1>1, <2>1
  <2> PICK key \in AnyKey : key = keys[m]
    BY <2>3
  <2> PICK a \in Nat : a = p[m - 1]
    BY <2>3
  <2> PICK b \in Nat : b = p[m]
    BY <2>3
  <2>4. \A j \in 1 .. b : f[n][j] = f[m][j]
    BY <2>2
  <2>5. Lies(f[n], key, a, b)
    BY ONLY <2>1, <2>3, <2>4, key = keys[m], a = p[m - 1], b = p[m], key \in AnyKey, a \in Nat, b \in Nat, LiesStill
  <2> QED
    BY ONLY <1>6, <2>1, <2>2, <2>5, key = keys[m], a = p[m - 1], b = p[m], f[n] = Joined(keys)
<1> QED
  BY <1>1, <1>6, <1>7 DEF Laid

-----------------------------------------------------------------------------
(* Reading back what was written. *)

(* A key that a text can hold. *)
Holdable(key) ==
  /\ key.str # <<>>
  /\ key.type = "String" =>
       ~Contains(key.str, "]") /\ (NeedsBraces(key.str) => key.str[1] \notin Digits)

LEMMA KeyIs ==
  ASSUME NEW key \in AnyKey
  PROVE  \/ key.type = "String" /\ key = StringKey(key.str)
         \/ key.type = "Index" /\ key = IndexKey(key.str) /\ key.str \in Seq(Digits)
<1>1. CASE key \in [type : {"String"}, str : AnyText]
  <2>1. key = [type |-> "String", str |-> key.str] /\ key.type = "String"
    BY <1>1
  <2> QED
    BY <2>1 DEF StringKey
<1>2. CASE key \in [type : {"Index"}, str : Seq(Digits) \ {<<>>}]
  <2>1. key = [type |-> "Index", str |-> key.str] /\ key.type = "Index" /\ key.str \in Seq(Digits)
    BY <1>2
  <2> QED
    BY <2>1 DEF IndexKey
<1> QED
  BY <1>1, <1>2 DEF AnyKey

(* From(w, c + 1) has the members of w behind c. *)
LEMMA Behind ==
  ASSUME NEW w \in AnyText, NEW c \in 0 .. Len(w)
  PROVE  /\ From(w, c + 1) \in AnyText /\ Len(From(w, c + 1)) = Len(w) - c
         /\ \A j \in 1 .. (Len(w) - c) : From(w, c + 1)[j] = w[c + j]
<1>0. Len(w) \in Nat /\ c \in Nat
  BY NoText
<1>1. c + 1 \in 1 .. (Len(w) + 1)
  BY <1>0
<1> PICK u : u = From(w, c + 1)
  OBVIOUS
<1>2. u \in AnyText /\ Len(u) = Len(w) - (c + 1) + 1 /\ \A j \in 1 .. (Len(w) - (c + 1) + 1) : u[j] = w[c + 1 + j - 1]
  BY <1>1, FromIs
<1>3. Len(w) - (c + 1) + 1 = Len(w) - c /\ \A j \in Int : c + 1 + j - 1 = c + j
  BY <1>0
<1> QED
  BY ONLY <1>2, <1>3, u = From(w, c + 1)

(* From where a key begins in the text of a path, that key is split off. *)
LEMMA TakesBracketed ==
  ASSUME NEW w \in AnyText, NEW key \in AnyKey, Holdable(key), Bracketed(key),
         NEW a \in Nat, NEW b \in Nat,
         b <= Len(w), Lies(w, key, a, b), NEW u, u = From(w, a + 1)
  PROVE  SplitKey(u).key = key /\ Left(u) = Len(w) - b
<1> PICK t : t = key.str
  OBVIOUS
<1> PICK l \in Nat : l = Len(t)
  BY WrittenTyped, NoText
<1>1. t \in AnyText /\ l >= 1 /\ Len(w) \in Nat
  BY WrittenTyped, NoText DEF Holdable
<1>2. b = a + (l + 2) /\ w[a + 1] = "[" /\ w[b] = "]" /\ \A j \in 1 .. l : w[a + (j + 1)] = t[j]
  BY DEF Lies, LiesBracketed
<1>3. a \in 0 .. Len(w) /\ l + 2 <= Len(w) - a
  BY ONLY <1>1, <1>2, a \in Nat, b \in Nat, l \in Nat, b <= Len(w)
<1>4. u \in AnyText /\ Len(u) = Len(w) - a /\ \A j \in 1 .. (Len(w) - a) : u[j] = w[a + j]
  BY ONLY w \in AnyText, <1>3, u = From(w, a + 1), Behind
<1>5. u[1] = "[" /\ u[l + 2] = "]" /\ Len(u) >= l + 2
  <2>1. 1 \in 1 .. (Len(w) - a) /\ l + 2 \in 1 .. (Len(w) - a)
    BY ONLY <1>1, <1>3, l \in Nat
  <2> QED
    BY ONLY <1>2, <1>3, <1>4, <2>1
<1>6. ASSUME NEW j \in 1 .. l PROVE u[j + 1] = t[j]
  <2>1. j + 1 \in 1 .. (Len(w) - a)
    BY ONLY <1>1, <1>3, l \in Nat, a \in Nat, j \in 1 .. l
  <2> QED
    BY ONLY <1>2, <1>4, <2>1, j \in 1 .. l
<1>7. \A j \in 1 .. l : t[j] # "]"
  <2>1. CASE key.type = "String"
    BY <2>1 DEF Holdable, Contains
  <2>2. CASE key.type = "Index"
    <3>1. t \in Seq(Digits)
      BY <2>2, KeyIs
    <3>2. \A j \in 1 .. l : t[j] \in Digits
      BY <3>1
    <3> QED
      BY <3>2, Marks
  <2> QED
    BY <2>1, <2>2, KeyIs
<1>8. /\ Left(u) = Len(u) - (l + 2)
      /\ t[1] \notin Digits => SplitKey(u).key = StringKey(t)
      /\ t \in Seq(Digits) => SplitKey(u).key = IndexKey(t)
  <2>1. /\ Len(t) >= 1 /\ Len(u) >= Len(t) + 2 /\ u[1] = "[" /\ u[Len(t) + 2] = "]"
        /\ \A j \in 1 .. Len(t) : u[j + 1] = t[j] /\ t[j] # "]"
    BY ONLY <1>1, <1>5, <1>6, <1>7, l = Len(t)
  <2> QED
    BY ONLY <1>1, <1>4, <2>1, l = Len(t), SplitsBracketed
<1>9. Left(u) = Len(w) - b
  BY ONLY <1>1, <1>2, <1>4, <1>8, a \in Nat, l \in Nat
<1>10. SplitKey(u).key = key
  <2>1. CASE key.type = "String"
    <3>1. t[1] \notin Digits /\ key = StringKey(t)
      BY <2>1, KeyIs DEF Holdable, Bracketed
    <3> QED
      BY <1>8, <3>1
  <2>2. CASE key.type = "Index"
    <3>1. t \in Seq(Digits) /\ key = IndexKey(t)
      BY <2>2, KeyIs
    <3> QED
      BY <1>8, <3>1
  <2> QED
    BY <2>1, <2>2, KeyIs
<1> QED
  BY <1>9, <1>10

(* The plain key lies in w between a and b, and ends there. *)
PlainAt(w, key, a, b) ==
  ~Bracketed(key) /\ b <= Len(w) /\ Lies(w, key, a, b) /\ Bounded(w, b, key.str[Len(key.str)])

(* A plain key is split off with the delimiter before it and without. *)
LEMMA TakesPlain ==
  ASSUME NEW w \in AnyText, NEW key \in AnyKey, Holdable(key), NEW a \in Nat, NEW b \in Nat,
         PlainAt(w, key, a, b), NEW c \in {a, a + Gap(a)}, NEW u, u = From(w, c + 1)
  PROVE  /\ SplitKey(u).key = key /\ c < b
         /\ Left(u) = IF DelimiterAt(w, b + 1) THEN Len(w) - b - 2 ELSE Len(w) - b
<1> ~Bracketed(key) /\ b <= Len(w) /\ Lies(w, key, a, b)
  BY DEF PlainAt
<1> Bounded(w, b, key.str[Len(key.str)])
  BY DEF PlainAt
<1> PICK t : t = key.str
  OBVIOUS
<1> PICK l \in Nat : l = Len(t)
  BY WrittenTyped, NoText
<1> PICK gap \in {0, 2} : gap = Gap(a)
  BY DEF Gap
<1> PICK d \in {0, 2} : c + d = a + gap /\ d <= gap
  BY DEF Gap
<1> PICK e \in Nat : e = d + l
  OBVIOUS
<1>1. t \in AnyText /\ l >= 1 /\ Len(w) \in Nat /\ c \in Nat
  <2>1. t \in AnyText /\ t # <<>>
    BY ONLY t = key.str, key \in AnyKey, Holdable(key), NoText, WrittenTyped DEF Holdable
  <2>2. l >= 1 /\ Len(w) \in Nat
    BY ONLY <2>1, l \in Nat, l = Len(t), w \in AnyText, NoText
  <2>3. c \in Nat
    BY ONLY a \in Nat, c \in {a, a + Gap(a)}, gap = Gap(a), gap \in {0, 2}
  <2> QED
    BY <2>1, <2>2, <2>3
<1>2. /\ b = a + (gap + l) /\ \A j \in 1 .. gap : w[a + j] = ":"
      /\ \A j \in 1 .. l : w[a + (j + gap)] = t[j]
  BY DEF Lies, LiesPlain
<1>3. b = c + e /\ c \in 0 .. Len(w) /\ c < b
  BY ONLY <1>1, <1>2, a \in Nat, b \in Nat, l \in Nat, b <= Len(w), gap \in {0, 2}, d \in {0, 2},
          c + d = a + gap, e = d + l
<1>4. u \in AnyText /\ Len(u) = Len(w) - c /\ \A j \in 1 .. (Len(w) - c) : u[j] = w[c + j]
  BY ONLY w \in AnyText, <1>3, u = From(w, c + 1), Behind
<1>5. e <= Len(u) /\ Len(u) - e = Len(w) - b
  BY ONLY <1>1, <1>3, <1>4, b <= Len(w), e \in Nat, b \in Nat
<1>6. ASSUME NEW j \in 1 .. d PROVE u[j] = ":"
  <2>1. j \in 1 .. (Len(w) - c) /\ j \in 1 .. gap /\ c + j = a + j
    BY ONLY <1>1, <1>4, <1>5, j \in 1 .. d, a \in Nat, l \in Nat, gap \in {0, 2}, d \in {0, 2},
            c + d = a + gap, e = d + l, d <= gap
  <2> QED
    BY ONLY <1>2, <1>4, <2>1
<1>7. ASSUME NEW j \in 1 .. l PROVE u[j + d] = t[j]
  <2>1. j + d \in 1 .. (Len(w) - c) /\ c + (j + d) = a + (j + gap)
    BY ONLY <1>1, <1>4, <1>5, j \in 1 .. l, a \in Nat, l \in Nat, gap \in {0, 2}, d \in {0, 2},
            c + d = a + gap, e = d + l
  <2> QED
    BY ONLY <1>2, <1>4, <2>1, j \in 1 .. l
<1>8. key.type = "String" /\ key = StringKey(t) /\ ~NeedsBraces(t)
  BY KeyIs DEF Bracketed
<1>9. (\A j \in 1 .. l : t[j] # "[") /\ \A j : ~DelimiterAt(t, j)
  <2>1. Find(t, Delimiter) = 0 /\ ~Contains(t, "[")
    BY ONLY <1>8 DEF NeedsBraces
  <2>2. \A j \in 1 .. l : t[j] # "["
    BY ONLY <2>1, l = Len(t) DEF Contains
  <2>3. \A j : DelimiterAt(t, j) => j # 0
    BY DEF DelimiterAt
  <2>4. \A j : ~DelimiterAt(t, j)
    <3> PICK f : f = Find(t, Delimiter)
      OBVIOUS
    <3>1. \/ f = 0 /\ \A i : ~DelimiterAt(t, i)
          \/ DelimiterAt(t, f) /\ \A i : DelimiterAt(t, i) => f <= i
      BY ONLY <1>1, f = Find(t, Delimiter), FindDelimiter
    <3> QED
      BY ONLY <2>1, <2>3, <3>1, f = Find(t, Delimiter)
  <2> QED
    BY <2>2, <2>4
<1>10. /\ DelimiterAt(u, e + 1) <=> DelimiterAt(w, b + 1)
       /\ e + 1 < Len(u) <=> b + 1 < Len(w)
       /\ e + 1 < Len(u) => u[e + 1] = w[b + 1]
  <2>1. e + 1 \in 1 .. (Len(u) - 1) <=> b + 1 \in 1 .. (Len(w) - 1)
    BY ONLY <1>1, <1>3, <1>4, e \in Nat, b \in Nat
  <2>2. e + 1 \in 1 .. (Len(u) - 1) => e + 1 \in 1 .. (Len(w) - c) /\ e + 2 \in 1 .. (Len(w) - c)
    BY ONLY <1>1, <1>3, <1>4, e \in Nat, b \in Nat
  <2>3. c + (e + 1) = b + 1 /\ c + (e + 2) = b + 2 /\ (e + 1) + 1 = e + 2 /\ (b + 1) + 1 = b + 2
    BY ONLY <1>1, <1>3, e \in Nat, b \in Nat
  <2>4. e + 1 \in 1 .. (Len(u) - 1) => u[e + 1] = w[b + 1] /\ u[e + 2] = w[b + 2]
    <3> PICK i : i = e + 1
      OBVIOUS
    <3> PICK j : j = e + 2
      OBVIOUS
    <3>1. i \in 1 .. (Len(w) - c) => u[i] = w[c + i]
      BY ONLY <1>4
    <3>2. j \in 1 .. (Len(w) - c) => u[j] = w[c + j]
      BY ONLY <1>4
    <3> QED
      BY ONLY <2>2, <2>3, <3>1, <3>2, i = e + 1, j = e + 2
  <2>5. e + 1 < Len(u) <=> e + 1 \in 1 .. (Len(u) - 1)
    BY ONLY <1>1, <1>3, <1>4, e \in Nat
  <2>6. b + 1 < Len(w) <=> b + 1 \in 1 .. (Len(w) - 1)
    BY ONLY <1>1, b \in Nat
  <2>7. DelimiterAt(u, e + 1) <=> DelimiterAt(w, b + 1)
    BY ONLY <2>1, <2>3, <2>4 DEF DelimiterAt
  <2> QED
    BY ONLY <2>1, <2>4, <2>5, <2>6, <2>7
<1>11. Bounded(u, e, t[l])
  <2>1. Bounded(w, b, t[l])
    OBVIOUS
  <2>2. b = Len(w) => e = Len(u)
    <3>1. Len(u) \in Nat
      BY ONLY <1>4, NoText
    <3> QED
      BY ONLY <1>1, <1>5, <3>1, e \in Nat, b \in Nat
  <2> QED
    BY ONLY <1>10, <2>1, <2>2 DEF Bounded
<1>12. /\ SplitKey(u).key = StringKey(t)
       /\ Left(u) = IF DelimiterAt(u, e + 1) THEN Len(u) - e - 2 ELSE Len(u) - e
  <2>1. \A j \in 1 .. l : u[j + d] = t[j] /\ t[j] # "["
    BY ONLY <1>7, <1>9
  <2>2. \A j \in 1 .. d : u[j] = ":"
    BY ONLY <1>6
  <2>3. BeginsPlain(u, t, d, l, e)
    BY ONLY <1>1, <1>5, <1>9, <1>11, <2>1, <2>2, l = Len(t), e = d + l DEF BeginsPlain
  <2> QED
    BY ONLY <1>1, <1>4, <2>3, d \in {0, 2}, l \in Nat, e \in Nat, SplitsPlain
<1> QED
  BY ONLY <1>3, <1>5, <1>8, <1>10, <1>12

(* Behind the first c characters of w lies key, and r characters are left. *)
Takes(w, c, key, r) ==
  c < Len(w) /\ SplitKey(From(w, c + 1)).key = key /\ r = Left(From(w, c + 1))

LEMMA TakesOne ==
  ASSUME NEW w \in AnyText, NEW f, Splitting(f, w), NEW key \in AnyKey, Holdable(key),
         NEW c \in Nat, NEW r, Takes(w, c, key, r)
  PROVE  f[Len(w) - c] = <<key>> \o f[r]
<1>0. c < Len(w) /\ SplitKey(From(w, c + 1)).key = key /\ r = Left(From(w, c + 1))
  BY DEF Takes
<1>1. Len(w) \in Nat
  BY NoText
<1> PICK n : n = Len(w) - c
  OBVIOUS
<1>2. n \in 1 .. Len(w) /\ Len(w) - n + 1 = c + 1
  BY <1>0, <1>1
<1>3. f[n] = FirstKey(From(w, Len(w) - n + 1)) \o f[Left(From(w, Len(w) - n + 1))]
  BY <1>2 DEF Splitting
<1>4. f[n] = FirstKey(From(w, c + 1)) \o f[r]
  BY ONLY <1>0, <1>2, <1>3
<1>5. key # StringKey(<<>>)
  BY DEF Holdable, StringKey
<1>6. FirstKey(From(w, c + 1)) = <<key>>
  BY <1>0, <1>5 DEF FirstKey
<1> QED
  BY <1>4, <1>6

(* The keys of a path that a text can hold. *)
LEMMA WritableIs ==
  ASSUME NEW keys \in Seq(AnyKey), Writable(keys), NEW i \in 1 .. Len(keys)
  PROVE  /\ keys[i] \in AnyKey /\ Holdable(keys[i])
         /\ ~Bracketed(keys[i]) /\ i < Len(keys) /\ ~Bracketed(keys[i + 1])
              => keys[i].str[Len(keys[i].str)] # ":"
<1> PICK key \in AnyKey : key = keys[i]
  OBVIOUS
<1>1. key.type = "String" =>
        /\ key.str # <<>> /\ ~Contains(key.str, "]")
        /\ NeedsBraces(key.str) => key.str[1] \notin Digits
        /\ Unbraced(key) /\ i < Len(keys) /\ Unbraced(keys[i + 1]) => Last(key.str) # ":"
  BY DEF Writable
<1>2. Holdable(key)
  <2>1. CASE key.type = "String"
    BY <1>1, <2>1 DEF Holdable
  <2>2. CASE key.type = "Index"
    <3>1. key.str # <<>>
      BY <2>2 DEF AnyKey
    <3> QED
      BY <2>2, <3>1 DEF Holdable
  <2> QED
    BY <2>1, <2>2, KeyIs
<1>3. ASSUME NEW k \in AnyKey PROVE ~Bracketed(k) <=> Unbraced(k)
  BY KeyIs DEF Bracketed, Unbraced
<1>4. ASSUME i < Len(keys) PROVE keys[i + 1] \in AnyKey
  <2>1. i + 1 \in 1 .. Len(keys)
    BY <1>4
  <2> QED
    BY <2>1
<1>5. ~Bracketed(key) /\ i < Len(keys) /\ ~Bracketed(keys[i + 1]) => key.str[Len(key.str)] # ":"
  <2>1. Unbraced(key) => key.type = "String"
    BY DEF Unbraced
  <2> QED
    BY <1>1, <1>3, <1>4, <2>1 DEF Last
<1> QED
  BY <1>2, <1>5

(* A path that a text can hold is read back as it was, however long it is  *)
(* and whatever characters its keys are made of.                           *)
THEOREM WrittenPathsAreReadBack ==
  ASSUME NEW keys \in Seq(AnyKey), Writable(keys)
  PROVE  Split(Joined(keys)) = keys
<1> PICK n \in Nat : n = Len(keys)
  OBVIOUS
<1> PICK w : w = Joined(keys)
  OBVIOUS
<1>1. ASSUME NEW i \in 1 .. n
      PROVE  /\ keys[i] \in AnyKey /\ Holdable(keys[i])
             /\ ~Bracketed(keys[i]) /\ i < n /\ ~Bracketed(keys[i + 1])
                  => keys[i].str[Len(keys[i].str)] # ":"
  BY WritableIs
<1>2. \A i \in 1 .. Len(keys) : keys[i].str # <<>>
  BY <1>1 DEF Holdable
<1> PICK L \in Nat : L = Len(w)
  BY <1>2, JoinedLaid, NoText
<1>3. w \in AnyText /\ \E p \in [0 .. n -> Nat] : Laid(w, keys, p)
  BY ONLY <1>2, w = Joined(keys), n = Len(keys), keys \in Seq(AnyKey), JoinedLaid
<1> PICK p \in [0 .. n -> Nat] : Laid(w, keys, p)
  BY <1>3
<1>4. /\ p[0] = 0 /\ p[n] = L
      /\ \A m \in 1 .. n : /\ m - 1 \in 0 .. n /\ m \in 0 .. n /\ p[m - 1] \in Nat /\ p[m] \in Nat
                           /\ p[m - 1] < p[m] /\ p[m] <= L /\ Lies(w, keys[m], p[m - 1], p[m])
  <2>1. /\ p[0] = 0 /\ p[n] = L
        /\ \A m \in 1 .. n : p[m - 1] < p[m] /\ p[m] <= L /\ Lies(w, keys[m], p[m - 1], p[m])
    BY ONLY Laid(w, keys, p), n = Len(keys), L = Len(w) DEF Laid
  <2>2. ASSUME NEW m \in 1 .. n PROVE m - 1 \in 0 .. n /\ m \in 0 .. n
    OBVIOUS
  <2>3. ASSUME NEW m \in 1 .. n PROVE p[m - 1] \in Nat /\ p[m] \in Nat
    BY ONLY <2>2, m \in 1 .. n, p \in [0 .. n -> Nat]
  <2> QED
    BY ONLY <2>1, <2>2, <2>3
<1> PICK f : Splitting(f, w) /\ f[L] = Split(w)
  BY <1>3, SplitRuns
<1>5. f[0] = <<>>
  BY DEF Splitting
<1> DEFINE Rest(m) == SubSeq(keys, m + 1, n)
           Read(m) == /\ f[L - p[m]] = Rest(m)
                      /\ m < n /\ DelimiterAt(w, p[m] + 1) => f[L - p[m] - 2] = Rest(m)
<1>6. \A m \in 1 .. n : Rest(m - 1) = <<keys[m]>> \o Rest(m)
  <2> SUFFICES ASSUME NEW m \in 1 .. n PROVE Rest(m - 1) = <<keys[m]>> \o Rest(m)
    OBVIOUS
  <2>1. SubSeq(keys, m, n) = <<keys[m]>> \o SubSeq(keys, m + 1, n)
    <3>1. m \in 1 .. Len(keys) /\ n \in m .. Len(keys)
      OBVIOUS
    <3> QED
      BY ONLY <3>1, keys \in Seq(AnyKey), SubSeqRecursiveFirst
  <2>2. (m - 1) + 1 = m
    OBVIOUS
  <2> QED
    BY ONLY <2>1, <2>2
<1>7. Read(n)
  <2>1. Rest(n) = <<>>
    BY SubSeqEmpty
  <2>2. L - p[n] = 0 /\ ~(n < n)
    BY <1>4
  <2> QED
    BY ONLY <1>5, <2>1, <2>2
<1> HIDE DEF Rest
(* How the text goes on behind a key. *)
<1>8. ASSUME NEW m \in 1 .. n
      PROVE  /\ m = n => p[m] = L
             /\ m < n /\ Bracketed(keys[m + 1]) => p[m] + 1 < L /\ w[p[m] + 1] = "["
             /\ m < n /\ ~Bracketed(keys[m + 1]) => DelimiterAt(w, p[m] + 1)
  <2> SUFFICES ASSUME m < n
               PROVE  /\ Bracketed(keys[m + 1]) => p[m] + 1 < L /\ w[p[m] + 1] = "["
                      /\ ~Bracketed(keys[m + 1]) => DelimiterAt(w, p[m] + 1)
    BY <1>4
  <2> PICK i : i = m + 1
    OBVIOUS
  <2>1. i \in 1 .. n /\ i - 1 = m
    BY ONLY n \in Nat, m \in 1 .. n, m < n, i = m + 1
  <2> PICK a : a = p[m]
    OBVIOUS
  <2> PICK b : b = p[i]
    OBVIOUS
  <2>2. a \in Nat /\ b \in Nat /\ b <= L /\ Lies(w, keys[i], a, b) /\ a > 0
    <3>1. p[m - 1] \in Nat /\ p[m] \in Nat /\ p[m - 1] < p[m]
      BY <1>4
    <3>2. p[i - 1] = p[m] /\ p[i] \in Nat /\ p[i] <= L /\ Lies(w, keys[i], p[i - 1], p[i])
      BY ONLY <1>4, <2>1
    <3> QED
      BY ONLY <3>1, <3>2, a = p[m], b = p[i]
  <2> PICK t : t = keys[i].str
    OBVIOUS
  <2>3. Len(t) \in Nat /\ Len(t) >= 1
    <3>1. t \in AnyText /\ t # <<>>
      <4>1. keys[i] \in AnyKey /\ keys[i].str # <<>>
        BY ONLY <1>1, <2>1 DEF Holdable
      <4> PICK k : k = keys[i]
        OBVIOUS
      <4>2. k.str \in AnyText
        BY ONLY <4>1, k = keys[i], NoText, WrittenTyped
      <4> QED
        BY ONLY <4>1, <4>2, t = keys[i].str, k = keys[i]
    <3> QED
      BY <3>1, NoText
  <2>4. ASSUME Bracketed(keys[i]) PROVE a + 1 < L /\ w[a + 1] = "["
    <3>1. b = a + (Len(t) + 2) /\ w[a + 1] = "["
      BY ONLY <2>2, <2>4, t = keys[i].str DEF Lies, LiesBracketed
    <3> QED
      BY ONLY <2>2, <2>3, <3>1, L \in Nat
  <2>5. ASSUME ~Bracketed(keys[i]) PROVE DelimiterAt(w, a + 1)
    <3>1. Gap(a) = 2
      BY ONLY <2>2 DEF Gap
    <3>2. b = a + (2 + Len(t)) /\ \A j \in 1 .. 2 : w[a + j] = ":"
      BY ONLY <2>2, <2>5, <3>1, t = keys[i].str DEF Lies, LiesPlain
    <3>3. a + 1 \in 1 .. (L - 1) /\ (a + 1) + 1 = a + 2 /\ 1 \in 1 .. 2 /\ 2 \in 1 .. 2
      BY ONLY <2>2, <2>3, <3>2, L \in Nat
    <3> QED
      BY ONLY <3>2, <3>3, L = Len(w) DEF DelimiterAt
  <2> QED
    BY ONLY <2>4, <2>5, i = m + 1, a = p[m]
<1>9. ASSUME NEW m \in 1 .. n, Read(m) PROVE Read(m - 1) \/ (m = 1 /\ f[L] = Rest(0))
  <2> PICK key \in AnyKey : key = keys[m]
    BY <1>1
  <2> PICK a \in Nat : a = p[m - 1]
    BY <1>4
  <2> PICK b \in Nat : b = p[m]
    BY <1>4
  <2>1. /\ a < b /\ b <= L /\ Lies(w, key, a, b) /\ Holdable(key)
        /\ ~Bracketed(key) /\ m < n /\ ~Bracketed(keys[m + 1]) => key.str[Len(key.str)] # ":"
    BY ONLY <1>1, <1>4, m \in 1 .. n, key = keys[m], a = p[m - 1], b = p[m]
  <2>2. f[L - b] = Rest(m) /\ (m < n /\ DelimiterAt(w, b + 1) => f[L - b - 2] = Rest(m))
    BY ONLY <1>9, b = p[m]
  <2>3. /\ m = n => b = L
        /\ m < n /\ Bracketed(keys[m + 1]) => b + 1 < L /\ w[b + 1] = "["
        /\ m < n /\ ~Bracketed(keys[m + 1]) => DelimiterAt(w, b + 1)
    BY ONLY <1>8, m \in 1 .. n, b = p[m]
  <2>4. CASE Bracketed(key)
    <3> PICK u : u = From(w, a + 1)
      OBVIOUS
    <3>1. SplitKey(u).key = key /\ Left(u) = L - b
      BY ONLY <1>3, <2>1, <2>4, key \in AnyKey, a \in Nat, b \in Nat, L = Len(w), u = From(w, a + 1), TakesBracketed
    <3>2. f[L - a] = <<key>> \o f[L - b]
      <4>1. a < L
        BY ONLY <2>1, a \in Nat, b \in Nat, L \in Nat
      <4> PICK r : r = L - b
        OBVIOUS
      <4>2. w \in AnyText /\ Holdable(key) /\ Takes(w, a, key, r)
        BY ONLY <1>3, <2>1, <3>1, <4>1, L = Len(w), u = From(w, a + 1), r = L - b DEF Takes
      <4>3. f[Len(w) - a] = <<key>> \o f[r]
        BY ONLY <4>2, Splitting(f, w), key \in AnyKey, a \in Nat, TakesOne
      <4> QED
        BY ONLY <4>3, L = Len(w), r = L - b
    <3>3. f[L - a] = Rest(m - 1)
      BY ONLY <1>6, <2>2, <3>2, key = keys[m], m \in 1 .. n
    <3>4. ~DelimiterAt(w, a + 1)
      <4>1. w[a + 1] = "["
        BY ONLY <2>1, <2>4 DEF Lies, LiesBracketed
      <4> QED
        BY ONLY <4>1, Marks DEF DelimiterAt
    <3> QED
      BY ONLY <3>3, <3>4, a = p[m - 1]
  <2>5. CASE ~Bracketed(key)
    <3>1. Bounded(w, b, key.str[Len(key.str)])
      <4>1. CASE m = n
        BY ONLY <2>3, <4>1, L = Len(w) DEF Bounded
      <4>2. CASE m < n /\ Bracketed(keys[m + 1])
        BY ONLY <2>3, <4>2, L = Len(w) DEF Bounded
      <4>3. CASE m < n /\ ~Bracketed(keys[m + 1])
        BY ONLY <2>1, <2>3, <2>5, <4>3, L = Len(w) DEF Bounded
      <4> QED
        BY <4>1, <4>2, <4>3
    <3>2. ASSUME NEW c \in {a, a + Gap(a)} PROVE f[L - c] = Rest(m - 1)
      <4> PICK u : u = From(w, c + 1)
        OBVIOUS
      <4>0. w \in AnyText /\ Holdable(key) /\ PlainAt(w, key, a, b)
        BY ONLY <1>3, <2>1, <2>5, <3>1, L = Len(w) DEF PlainAt
      <4>1. /\ SplitKey(u).key = key /\ c < b
            /\ Left(u) = IF DelimiterAt(w, b + 1) THEN Len(w) - b - 2 ELSE Len(w) - b
        BY ONLY <4>0, key \in AnyKey, a \in Nat, b \in Nat,
                c \in {a, a + Gap(a)}, u = From(w, c + 1), TakesPlain
      <4>2. c \in Nat /\ c < L
        <5>1. Gap(a) \in Nat
          BY ONLY a \in Nat DEF Gap
        <5> QED
          BY ONLY <2>1, <4>1, <5>1, c \in {a, a + Gap(a)}, a \in Nat, b \in Nat, L \in Nat
      <4> PICK r : r = Left(u)
        OBVIOUS
      <4>3. f[Len(w) - c] = <<key>> \o f[r]
        <5>1. Takes(w, c, key, r)
          BY ONLY <4>1, <4>2, L = Len(w), u = From(w, c + 1), r = Left(u) DEF Takes
        <5>2. w \in AnyText /\ Holdable(key) /\ c \in Nat
          BY ONLY <4>0, <4>2
        <5> QED
          BY ONLY <5>1, <5>2, Splitting(f, w), key \in AnyKey, TakesOne
      <4>4. DelimiterAt(w, b + 1) => m < n
        <5>1. m = n => b + 1 \notin 1 .. (Len(w) - 1)
          BY ONLY <2>3, L = Len(w), L \in Nat
        <5>2. m = n \/ m < n
          BY ONLY m \in 1 .. n, n \in Nat
        <5> QED
          BY ONLY <5>1, <5>2 DEF DelimiterAt
      <4>5. f[r] = Rest(m)
        BY ONLY <2>2, <4>1, <4>4, r = Left(u), L = Len(w)
      <4> QED
        BY ONLY <1>6, <4>3, <4>5, key = keys[m], m \in 1 .. n, L = Len(w)
    <3>3. f[L - a] = Rest(m - 1)
      BY ONLY <3>2
    <3>4. CASE m = 1
      <4>1. a = 0 /\ m - 1 = 0 /\ L - a = L
        BY ONLY <1>4, <3>4, a = p[m - 1], L \in Nat
      <4> QED
        BY ONLY <3>3, <3>4, <4>1
    <3>5. CASE m # 1
      <4>1. m - 1 \in 1 .. n
        BY ONLY <3>5, m \in 1 .. n, n \in Nat
      <4>2. a > 0
        <5> PICK i : i = m - 1
          OBVIOUS
        <5>1. p[i - 1] \in Nat /\ p[i] \in Nat /\ p[i - 1] < p[i]
          BY ONLY <1>4, <4>1, i = m - 1
        <5> QED
          BY ONLY <5>1, i = m - 1, a = p[m - 1]
      <4>3. Gap(a) = 2 /\ L - (a + 2) = L - a - 2
        BY ONLY <4>2, a \in Nat, L \in Nat DEF Gap
      <4>4. f[L - a - 2] = Rest(m - 1)
        BY ONLY <3>2, <4>3
      <4> QED
        BY ONLY <3>3, <4>4, a = p[m - 1]
    <3> QED
      BY <3>4, <3>5
  <2> QED
    BY <2>4, <2>5
<1>10. n = 0 \/ Read(0) \/ f[L] = Rest(0)
  <2> DEFINE S == {i \in 0 .. n : Read(n - i) \/ (i = n /\ f[L] = Rest(0))}
  <2>1. 0 \in S
    <3>1. n - 0 = n /\ 0 \in 0 .. n
      OBVIOUS
    <3> HIDE DEF Read
    <3> QED
      BY <1>7, <3>1
  <2>2. ASSUME NEW i \in 1 .. n, i - 1 \in S PROVE i \in S
    <3> HIDE DEF Read
    <3> PICK m : m = n - (i - 1)
      OBVIOUS
    <3>1. m \in 1 .. n /\ m - 1 = n - i /\ i - 1 # n /\ (m = 1 <=> i = n)
      BY ONLY n \in Nat, i \in 1 .. n, m = n - (i - 1)
    <3>2. Read(m)
      BY <2>2, <3>1
    <3>3. Read(m - 1) \/ (m = 1 /\ f[L] = Rest(0))
      BY <1>9, <3>1, <3>2
    <3> QED
      BY <3>1, <3>3
  <2> HIDE DEF S
  <2>3. n \in S
    <3>1. \A i \in 0 .. n : i \in S
      BY <2>1, <2>2, InductionUpTo
    <3> QED
      BY <3>1
  <2>4. n - n = 0
    OBVIOUS
  <2> HIDE DEF Read
  <2> QED
    BY <2>3, <2>4 DEF S
<1>11. f[L] = keys
  <2>1. Rest(0) = keys
    <3>1. 0 + 1 = 1
      OBVIOUS
    <3> QED
      BY ONLY <3>1, n = Len(keys), keys \in Seq(AnyKey), SubSeqFull DEF Rest
  <2>2. L - p[0] = L
    BY <1>4
  <2>3. f[L] = Rest(0)
    <3>1. CASE n = 0
      BY ONLY <1>7, <2>2, <3>1
    <3>2. CASE n # 0
      BY ONLY <1>10, <2>2, <3>2
    <3> QED
      BY <3>1, <3>2
  <2> QED
    BY <2>1, <2>3
<1> QED
  BY <1>11

-----------------------------------------------------------------------------
LEMMA TextsTyped == Texts \subseteq AnyText
<1> SUFFICES ASSUME NEW n \in 0 .. MaxText, NEW s \in [1 .. n -> Chars] PROVE s \in AnyText
  BY DEF Texts
<1>1. n \in Nat
  OBVIOUS
<1> QED
  BY <1>1 DEF AnyText

LEMMA SplitTyped ==
  ASSUME NEW s \in AnyText
  PROVE  Split(s) \in Seq(AnyKey)
<1> PICK f \in [0 .. Len(s) -> Seq(AnyKey)] : f[Len(s)] = Split(s)
  BY SplitRuns
<1>1. Len(s) \in 0 .. Len(s)
  BY NoText
<1> QED
  BY <1>1

LEMMA XKeysTyped == XKeys \subseteq AnyKey
<1>1. \A s \in Texts : StringKey(s) \in AnyKey
  BY TextsTyped, KeysTyped
<1>2. ASSUME NEW d \in Digits PROVE IndexKey(<<d>>) \in AnyKey
  <2>1. <<d>> \in Seq(Digits) /\ Len(<<d>>) = 1 /\ Len(<<>>) = 0
    OBVIOUS
  <2>2. <<d>> \in Seq(Digits) \ {<<>>}
    BY <2>1
  <2> QED
    BY <2>2, KeysTyped
<1> QED
  BY <1>1, <1>2 DEF XKeys

(* Whatever a path was built from and however it was taken apart: written  *)
(* and read again it is the same path.                                     *)
THEOREM PathsAreReadBack == PathSpec => []SplitUndoesJoin
<1> DEFINE Typed == path \in Seq(AnyKey)
<1>1. PathInit => Typed
  BY DEF PathInit
<1>2. Typed /\ [PathNext]_path => Typed'
  <2> SUFFICES ASSUME path \in Seq(AnyKey), [PathNext]_path PROVE path' \in Seq(AnyKey)
    OBVIOUS
  <2>1. ASSUME NEW key \in XKeys, AddKey(key) PROVE path' \in Seq(AnyKey)
    BY <2>1, XKeysTyped, AppendProperties DEF AddKey
  <2>2. ASSUME NEW s \in Texts, AddText(s) PROVE path' \in Seq(AnyKey)
    <3>1. Split(s) \in Seq(AnyKey)
      BY TextsTyped, SplitTyped
    <3> QED
      BY <2>2, <3>1, ConcatProperties DEF AddText
  <2>3. CASE PopBack
    <3>1. CASE path = <<>>
      BY <2>3, <3>1 DEF PopBack
    <3>2. CASE path # <<>>
      <4>1. Len(path) - 1 \in 0 .. Len(path)
        BY <3>2
      <4>2. SubSeq(path, 1, Len(path) - 1) \in Seq(AnyKey)
        BY <4>1, PrefixIs
      <4> QED
        BY <2>3, <3>2, <4>2 DEF PopBack, Front
    <3> QED
      BY <3>1, <3>2
  <2>4. CASE PopFront
    BY <2>4, HeadTailProperties DEF PopFront
  <2>5. CASE UNCHANGED path
    BY <2>5
  <2> QED
    BY <2>1, <2>2, <2>3, <2>4, <2>5 DEF PathNext
<1>3. Typed => SplitUndoesJoin
  BY WrittenPathsAreReadBack DEF SplitUndoesJoin
<1> QED
  BY <1>1, <1>2, <1>3, PTL DEF PathSpec

-----------------------------------------------------------------------------
(* ParentsCheck.  A node that has been walked through is settled: its      *)
(* children have been walked through or are being so, and those of another *)
(* parent have been found.  The walk ends when all below the root is.      *)

Entered(walked) == walked \cup {calls[i].root.node : i \in DOMAIN calls}

Settled(m, n, walked) ==
  n \in Entered(walked) /\ (document.parent[n] # m => improper[n] # NoNode)

Explored(walked) ==
  /\ root.node \in Entered(walked)
  /\ \A n \in Nodes : improper[n] # NoNode => n \in Entered(walked)
  /\ \A m \in walked : \A n \in Children(m) : Settled(m, n, walked)
  /\ \A i \in DOMAIN calls : \A j \in 1 .. calls[i].next - 1 :
       LET m == calls[i].root.node
           pointer == document.held[m][j]
       IN  root.const \/ includeConst \/ ~pointer.const => Settled(m, pointer.node, walked)

CheckCalls == [root : Pointers, next : Nat \ {0}]

CheckTyped ==
  /\ document \in [held : [Nodes -> Seq(Pointers)], parent : [Nodes -> Nodes \cup {NoNode}]]
  /\ root \in Pointers \cup {NoRoot}
  /\ includeConst \in BOOLEAN
  /\ calls \in Seq(CheckCalls)
  /\ improper \in [Nodes -> Nodes \cup {NoNode}]
  /\ root = NoRoot => calls = <<>> /\ \A n \in Nodes : improper[n] = NoNode

CheckInv ==
  /\ CheckTyped
  /\ \A i \in DOMAIN calls :
       /\ calls[i].root.node \in Below
       /\ (calls[i].root.const \/ includeConst) = (root.const \/ includeConst)
       /\ calls[i].next <= Len(document.held[calls[i].root.node]) + 1
  /\ \A n \in Nodes : improper[n] # NoNode => improper[n] \in Holders(n)
  /\ root # NoRoot => \E walked \in SUBSET Nodes : Explored(walked)

LEMMA ChildrenAre ==
  ASSUME CheckTyped, NEW m \in Nodes
  PROVE  /\ Children(m) \subseteq Nodes
         /\ \A n : n \in Children(m) <=>
              \E j \in 1 .. Len(document.held[m]) :
                 /\ document.held[m][j].node = n
                 /\ root.const \/ includeConst \/ ~document.held[m][j].const
<1>1. document.held[m] \in Seq(Pointers)
  BY DEF CheckTyped
<1>2. \A j \in 1 .. Len(document.held[m]) : document.held[m][j].node \in Nodes
  <2> SUFFICES ASSUME NEW j \in 1 .. Len(document.held[m]) PROVE document.held[m][j].node \in Nodes
    OBVIOUS
  <2>1. document.held[m][j] \in Pointers
    BY <1>1
  <2> QED
    BY <2>1 DEF Pointers
<1> QED
  BY <1>1, <1>2 DEF Children

LEMMA BelowIs ==
  ASSUME CheckTyped
  PROVE  /\ Below \subseteq Nodes
         /\ root \in Pointers => root.node \in Below
         /\ \A m \in Below : Children(m) \subseteq Below
<1>1. \A m \in Below : \A n \in Children(m) : n \in Below
  <2> SUFFICES ASSUME NEW m \in Below, NEW n \in Children(m),
                      NEW S \in SUBSET Nodes, root.node \in S, \A k \in S : Children(k) \subseteq S
               PROVE  n \in S
    BY ChildrenAre DEF Below
  <2> QED
    BY DEF Below
<1> QED
  BY <1>1 DEF Below, Pointers

(* The call that has not returned. *)
LEMMA CallIs ==
  ASSUME CheckTyped, calls # <<>>
  PROVE  /\ Len(calls) \in 1 .. Len(calls) /\ Len(calls) \in Nat
         /\ Call = calls[Len(calls)]
         /\ Call \in CheckCalls /\ Call.next \in Nat \ {0}
         /\ Call.root.node \in Nodes /\ Call.root.const \in BOOLEAN
         /\ root \in Pointers /\ root.const \in BOOLEAN /\ root # NoRoot
         /\ ItemsOfCall = document.held[Call.root.node] /\ ItemsOfCall \in Seq(Pointers)
<1>1. calls \in Seq(CheckCalls) /\ root # NoRoot
  BY DEF CheckTyped
<1>2. Len(calls) \in 1 .. Len(calls) /\ Len(calls) \in Nat
  BY <1>1, calls # <<>>
<1>3. Call = calls[Len(calls)] /\ Call \in CheckCalls
  BY <1>1, <1>2 DEF Call
<1>4. Call.root.node \in Nodes /\ Call.root.const \in BOOLEAN /\ Call.next \in Nat \ {0}
  BY <1>3 DEF Pointers, CheckCalls
<1>5. root \in Pointers /\ root.const \in BOOLEAN
  BY <1>1 DEF CheckTyped, Pointers
<1>6. ItemsOfCall = document.held[Call.root.node] /\ ItemsOfCall \in Seq(Pointers)
  BY <1>4 DEF CheckTyped, ItemsOfCall
<1> QED
  BY <1>1, <1>2, <1>3, <1>4, <1>5, <1>6

(* What is below the root stays. *)
LEMMA BelowStays ==
  ASSUME UNCHANGED <<document, root, includeConst>>
  PROVE  /\ \A m : Children(m)' = Children(m)
         /\ Below' = Below
         /\ \A n : Holders(n)' = Holders(n)
<1>1. \A m : Children(m)' = Children(m)
  BY DEF Children
<1>2. Below' = Below
  BY <1>1 DEF Below
<1> QED
  BY <1>1, <1>2 DEF Holders

LEMMA BeginKeeps ==
  ASSUME CheckInv, NEW d \in Documents, NEW pointer \in Roots, NEW withConst \in BOOLEAN,
         Begin(d, pointer, withConst)
  PROVE  CheckInv'
<1>1. /\ pointer \in Pointers /\ pointer.node \in Nodes /\ pointer # NoRoot
      /\ d \in [held : [Nodes -> Seq(Pointers)], parent : [Nodes -> Nodes \cup {NoNode}]]
  <2>1. pointer \in Pointers
    BY DocumentsAssumption
  <2>2. pointer.node \in Nodes /\ NoRoot.node = NoNode
    BY <2>1 DEF Pointers, NoRoot
  <2>3. d \in [held : [Nodes -> Seq(Pointers)], parent : [Nodes -> Nodes \cup {NoNode}]]
    BY DocumentsAssumption
  <2> QED
    BY <2>1, <2>2, <2>3, DocumentsAssumption
<1>2. /\ document' = d /\ root' = pointer /\ includeConst' = withConst /\ improper' = improper
      /\ calls' = <<CallOf(pointer)>> /\ \A n \in Nodes : improper[n] = NoNode
  BY DEF Begin, CheckInv, CheckTyped
<1>3. /\ CallOf(pointer) \in CheckCalls
      /\ CallOf(pointer).root = pointer /\ CallOf(pointer).next = 1
  BY <1>1 DEF CallOf, CheckCalls
<1>4. calls' \in Seq(CheckCalls) /\ DOMAIN calls' = {1} /\ calls'[1] = CallOf(pointer)
  BY <1>2, <1>3
<1>5. CheckTyped'
  BY <1>1, <1>2, <1>4 DEF CheckTyped, CheckInv
<1>6. pointer.node \in Below'
  BY <1>1, <1>2 DEF Below
<1>7. Explored({})'
  BY <1>2, <1>3, <1>4 DEF Explored, Entered
<1> QED
  BY <1>1, <1>2, <1>3, <1>4, <1>5, <1>6, <1>7 DEF CheckInv

(* The calls with the item of the innermost one passed. *)
LEMMA ItemPassedIs ==
  ASSUME CheckTyped, calls # <<>>
  PROVE  /\ ItemPassed \in Seq(CheckCalls) /\ Len(ItemPassed) = Len(calls)
         /\ \A i \in 1 .. Len(calls) :
              /\ ItemPassed[i].root = calls[i].root
              /\ ItemPassed[i].next = IF i = Len(calls) THEN Call.next + 1 ELSE calls[i].next
<1> DEFINE passed == [Call EXCEPT !.next = @ + 1]
<1>1. calls \in Seq(CheckCalls)
  BY DEF CheckTyped
<1>2. passed \in CheckCalls /\ passed.root = Call.root /\ passed.next = Call.next + 1
  BY CallIs DEF CheckCalls
<1>3. ItemPassed = [calls EXCEPT ![Len(calls)] = passed]
  BY DEF ItemPassed, Call
<1> HIDE DEF passed
<1>4. /\ ItemPassed \in Seq(CheckCalls) /\ Len(ItemPassed) = Len(calls)
      /\ \A i \in 1 .. Len(calls) : ItemPassed[i] = IF i = Len(calls) THEN passed ELSE calls[i]
  BY <1>1, <1>2, <1>3, CallIs
<1>5. calls[Len(calls)].root = Call.root
  BY DEF Call
<1> QED
  BY <1>2, <1>4, <1>5

LEMMA ItemIs ==
  ASSUME CheckTyped, calls # <<>>, Call.next <= Len(ItemsOfCall)
  PROVE  /\ Call.next \in 1 .. Len(ItemsOfCall) /\ Item \in Pointers
         /\ Item.node \in Nodes /\ Item.const \in BOOLEAN
         /\ Item = document.held[Call.root.node][Call.next]
<1>1. Call.next \in 1 .. Len(ItemsOfCall) /\ Item \in Pointers
  BY CallIs DEF Item
<1>2. Item.node \in Nodes /\ Item.const \in BOOLEAN
  BY <1>1 DEF Pointers
<1> QED
  BY <1>1, <1>2, CallIs DEF Item

LEMMA PassOverKeeps == ASSUME CheckInv, PassOver PROVE CheckInv'
<1>1. /\ CheckTyped /\ calls # <<>> /\ Call.next <= Len(ItemsOfCall)
      /\ ~Taken \/ improper[Item.node] # NoNode
      /\ calls' = ItemPassed /\ UNCHANGED <<document, root, includeConst, improper>>
  BY DEF PassOver, CheckInv
<1>2. /\ calls' \in Seq(CheckCalls) /\ Len(calls') = Len(calls)
      /\ DOMAIN calls' = 1 .. Len(calls) /\ DOMAIN calls = 1 .. Len(calls)
      /\ \A i \in 1 .. Len(calls) :
           /\ calls'[i].root = calls[i].root
           /\ calls'[i].next = IF i = Len(calls) THEN Call.next + 1 ELSE calls[i].next
  BY <1>1, ItemPassedIs DEF CheckTyped
<1>3. CheckTyped'
  BY <1>1, <1>2 DEF CheckTyped
<1>4. /\ \A m : Children(m)' = Children(m)
      /\ Below' = Below
      /\ \A n : Holders(n)' = Holders(n)
  BY <1>1, BelowStays
<1>5. root # NoRoot /\ Len(calls) \in 1 .. Len(calls) /\ Call = calls[Len(calls)]
      /\ ItemsOfCall = document.held[Call.root.node]
  BY <1>1, CallIs
<1>6. PICK walked \in SUBSET Nodes : Explored(walked)
  BY <1>5 DEF CheckInv
<1>7. Entered(walked)' = Entered(walked)
  BY <1>2 DEF Entered
<1>8. \A m, n : Settled(m, n, walked) => Settled(m, n, walked)'
  BY <1>1, <1>7 DEF Settled
<1>9. ASSUME Taken PROVE Settled(Call.root.node, Item.node, walked)
  BY <1>1, <1>6, <1>9, ItemIs DEF Settled, Explored
<1>10. (Call.root.const \/ includeConst) = (root.const \/ includeConst)
  BY <1>5 , <1>2 DEF CheckInv
<1>11. ASSUME NEW i \in 1 .. Len(calls), NEW j \in 1 .. calls'[i].next - 1,
              NEW m, m = calls[i].root.node, NEW pointer, pointer = document.held[m][j],
              root.const \/ includeConst \/ ~pointer.const
       PROVE  Settled(m, pointer.node, walked)'
  <2>1. CASE j = Call.next /\ i = Len(calls)
    <3>1. m = Call.root.node /\ pointer = Item
      BY <1>1, <1>5, <1>11, <2>1, ItemIs
    <3>2. Taken
      BY <1>10, <1>11, <3>1 DEF Taken
    <3> QED
      BY <1>8, <1>9, <3>1, <3>2
  <2>2. CASE ~(j = Call.next /\ i = Len(calls))
    <3>1. calls[i].next \in Nat /\ i \in DOMAIN calls
      <4>1. calls[i] \in CheckCalls
        BY <1>1 DEF CheckTyped
      <4> QED
        BY <1>2, <4>1 DEF CheckCalls
    <3>2. j \in 1 .. calls[i].next - 1
      <4>1. calls'[i].next = IF i = Len(calls) THEN Call.next + 1 ELSE calls[i].next
        BY <1>2
      <4>2. i = Len(calls) => Call.next = calls[i].next
        BY <1>5
      <4> QED
        BY <2>2, <3>1, <4>1, <4>2
    <3>3. Settled(m, pointer.node, walked)
      BY <1>6, <1>11, <3>1, <3>2 DEF Explored
    <3> QED
      BY <1>8, <3>3
  <2> QED
    BY <2>1, <2>2
<1>12. Explored(walked)'
  <2>1. \A m \in walked : \A n \in Children(m)' : Settled(m, n, walked)'
    BY <1>4, <1>6, <1>8 DEF Explored
  <2>2. ASSUME NEW i \in DOMAIN calls', NEW j \in 1 .. calls'[i].next - 1,
               NEW m, m = calls'[i].root.node, NEW pointer, pointer = document.held[m][j],
               root.const \/ includeConst \/ ~pointer.const
        PROVE  Settled(m, pointer.node, walked)'
    BY <1>2, <1>11, <2>2
  <2>3. /\ root.node \in Entered(walked)'
        /\ \A n \in Nodes : improper[n] # NoNode => n \in Entered(walked)'
    BY <1>6, <1>7 DEF Explored
  <2> QED
    BY <1>1, <2>1, <2>2, <2>3 DEF Explored
<1>13. ASSUME NEW i \in DOMAIN calls'
       PROVE  /\ calls'[i].root.node \in Below
              /\ (calls'[i].root.const \/ includeConst) = (root.const \/ includeConst)
              /\ calls'[i].next <= Len(document.held[calls'[i].root.node]) + 1
  <2>1. i \in DOMAIN calls /\ i \in 1 .. Len(calls) /\ calls'[i].root = calls[i].root
    BY <1>2
  <2>2. /\ calls[i].root.node \in Below
        /\ (calls[i].root.const \/ includeConst) = (root.const \/ includeConst)
        /\ calls[i].next <= Len(document.held[calls[i].root.node]) + 1
    BY <2>1 DEF CheckInv
  <2>3. CASE i = Len(calls)
    <3>1. calls'[i].next = Call.next + 1 /\ calls[i].root = Call.root
      BY <1>2, <1>5, <2>1, <2>3
    <3>2. Call.next \in 1 .. Len(document.held[Call.root.node]) /\ Len(document.held[Call.root.node]) \in Nat
      BY <1>1, <1>5, ItemIs, CallIs
    <3> QED
      BY <2>1, <2>2, <3>1, <3>2
  <2>4. CASE i # Len(calls)
    BY <1>2, <2>1, <2>2, <2>4
  <2> QED
    BY <2>3, <2>4
<1> QED
  BY <1>1, <1>3, <1>4, <1>12, <1>13 DEF CheckInv

LEMMA WalkIntoKeeps == ASSUME CheckInv, WalkInto PROVE CheckInv'
<1> DEFINE m0 == Call.root.node
           n0 == Item.node
           inner == CallOf(Given)
<1>1. /\ CheckTyped /\ calls # <<>> /\ Call.next <= Len(ItemsOfCall)
      /\ Taken /\ improper[n0] = NoNode /\ improper' = Noted
      /\ calls' = Append(ItemPassed, inner) /\ UNCHANGED <<document, root, includeConst>>
  BY DEF WalkInto, CheckInv
<1>2. /\ root \in Pointers /\ root # NoRoot /\ Len(calls) \in 1 .. Len(calls) /\ Len(calls) \in Nat
      /\ Call = calls[Len(calls)] /\ Call.next \in Nat \ {0} /\ m0 \in Nodes /\ Call.root.const \in BOOLEAN
      /\ ItemsOfCall = document.held[m0] /\ ItemsOfCall \in Seq(Pointers)
  BY <1>1, CallIs
<1>3. /\ Call.next \in 1 .. Len(document.held[m0]) /\ n0 \in Nodes /\ Item.const \in BOOLEAN
      /\ Item \in Pointers /\ Item = document.held[m0][Call.next]
  BY <1>1, <1>2, ItemIs
<1>4. /\ inner \in CheckCalls /\ inner.next = 1 /\ inner.root.node = n0
      /\ inner.root.const = (Item.const \/ Call.root.const)
  <2>1. Given \in Pointers /\ Given.node = n0 /\ Given.const = (Item.const \/ Call.root.const)
    BY <1>2, <1>3 DEF Given, Pointers
  <2> QED
    BY <2>1 DEF CallOf, CheckCalls
<1> HIDE DEF inner
<1> PICK top \in Nat \ {0} : top = Len(calls)
  BY <1>2
<1>5. /\ calls' \in Seq(CheckCalls)
      /\ DOMAIN calls' = 1 .. (top + 1) /\ DOMAIN calls = 1 .. top
      /\ calls'[top + 1] = inner
      /\ \A i \in 1 .. top :
           /\ calls'[i].root = calls[i].root
           /\ calls'[i].next = IF i = top THEN Call.next + 1 ELSE calls[i].next
  <2>1. /\ ItemPassed \in Seq(CheckCalls) /\ Len(ItemPassed) = Len(calls)
        /\ \A i \in 1 .. Len(calls) :
             /\ ItemPassed[i].root = calls[i].root
             /\ ItemPassed[i].next = IF i = Len(calls) THEN Call.next + 1 ELSE calls[i].next
    BY <1>1, ItemPassedIs
  <2>2. /\ Append(ItemPassed, inner) \in Seq(CheckCalls)
        /\ Len(Append(ItemPassed, inner)) = Len(calls) + 1
        /\ Append(ItemPassed, inner)[Len(calls) + 1] = inner
        /\ \A i \in 1 .. Len(calls) : Append(ItemPassed, inner)[i] = ItemPassed[i]
    BY <1>2, <1>4, <2>1, AppendProperties
  <2>3. DOMAIN calls = 1 .. Len(calls) /\ DOMAIN calls' = 1 .. Len(calls')
    BY <1>1, <2>2 DEF CheckTyped
  <2> QED
    BY <1>1, <2>1, <2>2, <2>3
<1>6. DOMAIN calls' = 1 .. (top + 1) /\ DOMAIN calls = 1 .. top /\ calls'[top + 1] = inner
  BY <1>5
<1>7. \A i \in 1 .. top :
         /\ calls'[i].root = calls[i].root
         /\ calls'[i].next = IF i = top THEN Call.next + 1 ELSE calls[i].next
  BY <1>5
<1>8. Call = calls[top]
  BY <1>2
<1>9. /\ improper' \in [Nodes -> Nodes \cup {NoNode}]
      /\ \A n \in Nodes \ {n0} : improper'[n] = improper[n]
      /\ improper'[n0] = IF document.parent[n0] = m0 THEN NoNode ELSE m0
  BY <1>1, <1>2, <1>3 DEF Noted, CheckTyped
<1>10. CheckTyped'
  BY <1>1, <1>2, <1>5, <1>9 DEF CheckTyped
<1>11. /\ \A m : Children(m)' = Children(m)
      /\ Below' = Below
      /\ \A n : Holders(n)' = Holders(n)
  BY <1>1, BelowStays
<1>12. /\ m0 \in Below
      /\ (Call.root.const \/ includeConst) = (root.const \/ includeConst)
      /\ includeConst \in BOOLEAN /\ root.const \in BOOLEAN
  BY <1>1, <1>2, <1>5 DEF CheckInv, CheckTyped, Pointers
<1>13. n0 \in Children(m0)
  BY <1>1, <1>2, <1>3, <1>12, ChildrenAre DEF Taken
<1>14. n0 \in Below
  BY <1>1, <1>12, <1>13, BelowIs
<1>15. PICK walked \in SUBSET Nodes : Explored(walked)
  BY <1>2 DEF CheckInv
<1>16. Entered(walked) \subseteq Entered(walked)' /\ n0 \in Entered(walked)'
  <2>1. \A i \in DOMAIN calls : i \in DOMAIN calls' /\ calls'[i].root.node = calls[i].root.node
    BY <1>6, <1>7
  <2>2. top + 1 \in DOMAIN calls' /\ calls'[top + 1].root.node = n0
    BY <1>4, <1>6
  <2> QED
    BY <2>1, <2>2 DEF Entered
<1>17. \A n \in Nodes : improper[n] # NoNode => improper'[n] # NoNode
  BY <1>1, <1>9
<1>18. \A m, n : n \in Nodes /\ Settled(m, n, walked) => Settled(m, n, walked)'
  BY <1>1, <1>16, <1>17 DEF Settled
<1>19. \A m, n : m = m0 /\ n = n0 => Settled(m, n, walked)'
  BY <1>1, <1>2, <1>9, <1>16, DocumentsAssumption DEF Settled
<1>20. ASSUME NEW i \in DOMAIN calls', NEW j \in 1 .. calls'[i].next - 1,
              NEW m, m = calls'[i].root.node, NEW pointer, pointer = document.held[m][j],
              root.const \/ includeConst \/ ~pointer.const
       PROVE  Settled(m, pointer.node, walked)'
  <2>1. CASE i = top + 1
    BY <1>4, <1>6, <2>1
  <2>2. CASE j = Call.next /\ i = top
    <3>1. calls'[i].root = calls[top].root
      BY <1>7, <2>2
    <3>2. m = m0
      BY <1>8, <1>20, <3>1
    <3>3. pointer = Item
      BY <1>3, <1>20, <2>2, <3>2
    <3>4. pointer.node = n0
      BY <3>3
    <3> QED
      BY <1>19, <3>2, <3>4
  <2>3. CASE i # top + 1 /\ ~(j = Call.next /\ i = top)
    <3>1. i \in 1 .. top /\ i \in DOMAIN calls /\ m = calls[i].root.node
      BY <1>6, <1>7, <1>20, <2>3
    <3>2. calls[i] \in CheckCalls /\ calls[i].next \in Nat /\ m \in Nodes
      <4>1. calls[i] \in CheckCalls
        BY <1>1, <3>1 DEF CheckTyped
      <4> QED
        BY <3>1, <4>1 DEF CheckCalls, Pointers
    <3>3. j \in 1 .. calls[i].next - 1
      <4>1. calls'[i].next = IF i = top THEN Call.next + 1 ELSE calls[i].next
        BY <1>7, <3>1
      <4>2. i = top => Call.next = calls[i].next
        BY <1>8
      <4> QED
        BY <2>3, <3>2, <4>1, <4>2
    <3>4. Settled(m, pointer.node, walked)
      BY <1>15, <1>20, <3>1, <3>3 DEF Explored
    <3>5. pointer.node \in Nodes
      <4>1. document.held[m] \in Seq(Pointers) /\ calls[i].next <= Len(document.held[m]) + 1
        BY <1>1, <3>1, <3>2 DEF CheckTyped, CheckInv
      <4>2. document.held[m][j] \in Pointers
        BY <3>2, <3>3, <4>1
      <4> QED
        BY <1>20, <4>2 DEF Pointers
    <3> QED
      BY <1>18, <3>4, <3>5
  <2> QED
    BY <2>1, <2>2, <2>3
<1>21. Explored(walked)'
  <2>1. \A m \in walked : \A n \in Children(m)' : Settled(m, n, walked)'
    <3> SUFFICES ASSUME NEW m \in walked, NEW n \in Children(m) PROVE Settled(m, n, walked)'
      BY <1>11
    <3> QED
      BY <1>1, <1>15, <1>18, ChildrenAre DEF Explored
  <2>2. /\ root.node \in Entered(walked)'
        /\ \A n \in Nodes : improper'[n] # NoNode => n \in Entered(walked)'
    BY <1>9, <1>15, <1>16 DEF Explored
  <2> QED
    BY <1>1, <1>20, <2>1, <2>2 DEF Explored
<1>22. ASSUME NEW i \in DOMAIN calls'
       PROVE  /\ calls'[i].root.node \in Below
              /\ (calls'[i].root.const \/ includeConst) = (root.const \/ includeConst)
              /\ calls'[i].next <= Len(document.held[calls'[i].root.node]) + 1
  <2>1. CASE i = top + 1
    <3>1. (inner.root.const \/ includeConst) = (root.const \/ includeConst)
      BY <1>1, <1>2, <1>3, <1>4, <1>12 DEF Taken
    <3>2. Len(document.held[n0]) \in Nat
      <4>1. n0 \in Nodes /\ document \in [held : [Nodes -> Seq(Pointers)], parent : [Nodes -> Nodes \cup {NoNode}]]
        BY <1>1, <1>3 DEF CheckTyped
      <4>2. document.held[n0] \in Seq(Pointers)
        BY <4>1
      <4> QED
        BY <4>2
    <3> QED
      BY <1>4, <1>6, <1>14, <2>1, <3>1, <3>2
  <2>2. CASE i # top + 1
    <3>1. i \in DOMAIN calls /\ i \in 1 .. top /\ calls'[i].root = calls[i].root
      BY <1>6, <1>7, <2>2
    <3>2. /\ calls[i].root.node \in Below
          /\ (calls[i].root.const \/ includeConst) = (root.const \/ includeConst)
          /\ calls[i].next <= Len(document.held[calls[i].root.node]) + 1
      BY <3>1 DEF CheckInv
    <3>3. CASE i = top
      <4>1. calls'[i].next = Call.next + 1 /\ calls[i].root = Call.root
        BY <1>7, <1>8, <3>1, <3>3
      <4>2. Len(document.held[m0]) \in Nat
        <5>1. document.held[m0] \in Seq(Pointers)
          BY <1>2
        <5> QED
          BY <5>1
      <4>3. Call.next \in 1 .. Len(document.held[m0])
        BY <1>3
      <4> QED
        BY <3>1, <3>2, <4>1, <4>2, <4>3
    <3>4. CASE i # top
      BY <1>7, <3>1, <3>2, <3>4
    <3> QED
      BY <3>3, <3>4
  <2> QED
    BY <2>1, <2>2
<1>23. ASSUME NEW n \in Nodes, improper'[n] # NoNode PROVE improper'[n] \in Holders(n)
  <2>1. CASE n = n0
    BY <1>9, <1>12, <1>13, <1>23, <2>1 DEF Holders
  <2>2. CASE n # n0
    BY <1>9, <1>23, <2>2 DEF CheckInv
  <2> QED
    BY <2>1, <2>2
<1> QED
  BY <1>1, <1>10, <1>11, <1>21, <1>22, <1>23 DEF CheckInv

LEMMA ReturnKeeps == ASSUME CheckInv, Return PROVE CheckInv'
<1> DEFINE m0 == Call.root.node
<1>1. /\ CheckTyped /\ calls # <<>> /\ Call.next > Len(ItemsOfCall)
      /\ calls' = SubSeq(calls, 1, Len(calls) - 1)
      /\ UNCHANGED <<document, root, includeConst, improper>>
  BY DEF Return, CheckInv
<1>2. /\ root \in Pointers /\ root # NoRoot /\ Len(calls) \in 1 .. Len(calls) /\ Len(calls) \in Nat
      /\ Call = calls[Len(calls)] /\ Call.next \in Nat \ {0} /\ m0 \in Nodes
      /\ ItemsOfCall = document.held[m0] /\ ItemsOfCall \in Seq(Pointers)
  BY <1>1, CallIs
<1> PICK top \in Nat \ {0} : top = Len(calls)
  BY <1>2
<1>3. /\ calls' \in Seq(CheckCalls) /\ DOMAIN calls' = 1 .. (top - 1) /\ DOMAIN calls = 1 .. top
      /\ \A i \in 1 .. (top - 1) : calls'[i] = calls[i]
  <2>1. calls \in Seq(CheckCalls) /\ top - 1 \in 0 .. Len(calls)
    BY <1>1, <1>2 DEF CheckTyped
  <2> QED
    BY <1>1, <1>2, <2>1, PrefixIs
<1>4. DOMAIN calls' = 1 .. (top - 1) /\ DOMAIN calls = 1 .. top /\ Call = calls[top]
  BY <1>2, <1>3
<1>5. \A i \in DOMAIN calls' : i \in DOMAIN calls /\ i # top /\ calls'[i] = calls[i]
  BY <1>3, <1>4
<1>6. CheckTyped'
  BY <1>1, <1>2, <1>3 DEF CheckTyped
<1>7. /\ \A m : Children(m)' = Children(m)
      /\ Below' = Below
      /\ \A n : Holders(n)' = Holders(n)
  BY <1>1, BelowStays
<1>8. PICK walked \in SUBSET Nodes : Explored(walked)
  BY <1>2 DEF CheckInv
<1> PICK more \in SUBSET Nodes : more = walked \cup {m0}
  BY <1>2
<1>9. Entered(more)' = Entered(walked)
  <2>1. {calls[i].root.node : i \in DOMAIN calls}
          = {calls'[i].root.node : i \in DOMAIN calls'} \cup {m0}
    <3>1. \A i \in DOMAIN calls : i = top \/ i \in DOMAIN calls'
      BY <1>4
    <3>2. top \in DOMAIN calls
      BY <1>4
    <3> QED
      BY <1>4, <1>5, <3>1, <3>2
  <2> QED
    BY <2>1 DEF Entered
<1>10. \A m, n : Settled(m, n, walked) => Settled(m, n, more)'
  BY <1>1, <1>9 DEF Settled
<1>11. ASSUME NEW n \in Children(m0) PROVE Settled(m0, n, walked)
  <2>1. PICK j \in 1 .. Len(document.held[m0]) :
          /\ document.held[m0][j].node = n
          /\ root.const \/ includeConst \/ ~document.held[m0][j].const
    <3>1. CheckTyped /\ m0 \in Nodes
      BY <1>1, <1>2
    <3> HIDE DEF m0
    <3> QED
      BY <1>11, <3>1, ChildrenAre
  <2>2. j \in 1 .. calls[top].next - 1 /\ top \in DOMAIN calls
    BY <1>1, <1>2, <1>4
  <2> QED
    BY <1>4, <1>8, <2>1, <2>2 DEF Explored
<1>12. Explored(more)'
  <2>1. \A m \in more : \A n \in Children(m)' : Settled(m, n, more)'
    <3> SUFFICES ASSUME NEW m \in more, NEW n \in Children(m) PROVE Settled(m, n, walked)
      BY <1>7, <1>10
    <3> QED
      BY <1>8, <1>11 DEF Explored
  <2>2. ASSUME NEW i \in DOMAIN calls', NEW j \in 1 .. calls'[i].next - 1,
               NEW m, m = calls'[i].root.node, NEW pointer, pointer = document.held[m][j],
               root.const \/ includeConst \/ ~pointer.const
        PROVE  Settled(m, pointer.node, more)'
    <3>1. i \in DOMAIN calls /\ j \in 1 .. calls[i].next - 1 /\ m = calls[i].root.node
      BY <1>5, <2>2
    <3>2. Settled(m, pointer.node, walked)
      BY <1>8, <2>2, <3>1 DEF Explored
    <3> QED
      BY <1>10, <3>2
  <2>3. /\ root.node \in Entered(more)'
        /\ \A n \in Nodes : improper[n] # NoNode => n \in Entered(more)'
    BY <1>8, <1>9 DEF Explored
  <2>4. UNCHANGED <<document, root, includeConst, improper>>
    BY <1>1
  <2> QED
    BY <2>1, <2>2, <2>3, <2>4 DEF Explored
<1>13. \A i \in DOMAIN calls' :
         /\ calls'[i].root.node \in Below
         /\ (calls'[i].root.const \/ includeConst) = (root.const \/ includeConst)
         /\ calls'[i].next <= Len(document.held[calls'[i].root.node]) + 1
  BY <1>5 DEF CheckInv
<1> QED
  BY <1>1, <1>6, <1>7, <1>12, <1>13 DEF CheckInv

(* All below the root has been walked through when the walk is at its end. *)
LEMMA WalkedIsFound == ASSUME CheckInv PROVE ParentsCheckFinds
<1> SUFFICES ASSUME root # NoRoot, calls = <<>>, NEW n \in Nodes
             PROVE  improper[n] \in (IF Holders(n) = {} THEN {NoNode} ELSE Holders(n))
  BY DEF ParentsCheckFinds
<1>1. PICK walked \in SUBSET Nodes : Explored(walked)
  BY DEF CheckInv
<1>2. Entered(walked) = walked
  BY DEF Entered
<1>3. root.node \in walked /\ \A m \in walked : Children(m) \subseteq walked
  BY <1>1, <1>2 DEF Explored, Settled
<1>4. Below \subseteq walked
  BY <1>3 DEF Below
<1>5. ASSUME NEW m \in Holders(n) PROVE improper[n] # NoNode
  BY <1>1, <1>4, <1>5 DEF Holders, Explored, Settled
<1>6. improper[n] # NoNode => improper[n] \in Holders(n)
  BY DEF CheckInv
<1> QED
  BY <1>5, <1>6

(* ParentsCheck finds every improper parent below its root and no other,   *)
(* in any document: whatever the nodes hold, each other and themselves     *)
(* included, whatever their parents are, and whichever root it is given.   *)
THEOREM ParentsCheckAlwaysFinds == CheckSpec => []ParentsCheckFinds
<1>1. CheckInit => CheckInv
  <2> SUFFICES ASSUME CheckInit PROVE CheckInv
    OBVIOUS
  <2>1. calls \in Seq(CheckCalls) /\ DOMAIN calls = {}
    BY DEF CheckInit
  <2>2. document \in [held : [Nodes -> Seq(Pointers)], parent : [Nodes -> Nodes \cup {NoNode}]]
    BY DEF CheckInit
  <2> QED
    BY <2>1, <2>2 DEF CheckInit, CheckInv, CheckTyped
<1>2. CheckInv /\ [CheckNext]_checkVars => CheckInv'
  <2> SUFFICES ASSUME CheckInv, [CheckNext]_checkVars PROVE CheckInv'
    OBVIOUS
  <2>1. CASE UNCHANGED checkVars
    <3>1. UNCHANGED <<document, root, includeConst, calls, improper>>
      BY <2>1 DEF checkVars
    <3>2. /\ \A m : Children(m)' = Children(m)
          /\ Below' = Below
          /\ \A n : Holders(n)' = Holders(n)
      BY <3>1, BelowStays
    <3>3. \A walked : Entered(walked)' = Entered(walked)
      BY <3>1 DEF Entered
    <3>4. \A m, n, walked : Settled(m, n, walked)' = Settled(m, n, walked)
      BY <3>1, <3>3 DEF Settled
    <3>5. \A walked : Explored(walked) => Explored(walked)'
      BY <3>1, <3>2, <3>3, <3>4 DEF Explored
    <3>6. CheckTyped'
      BY <3>1 DEF CheckInv, CheckTyped
    <3> QED
      BY <3>1, <3>2, <3>5, <3>6 DEF CheckInv
  <2>2. CASE \E d \in Documents, pointer \in Roots, withConst \in BOOLEAN :
               Begin(d, pointer, withConst)
    BY <2>2, BeginKeeps
  <2>3. CASE PassOver
    BY <2>3, PassOverKeeps
  <2>4. CASE WalkInto
    BY <2>4, WalkIntoKeeps
  <2>5. CASE Return
    BY <2>5, ReturnKeeps
  <2> QED
    BY <2>1, <2>2, <2>3, <2>4, <2>5 DEF CheckNext
<1>3. CheckInv => ParentsCheckFinds
  BY WalkedIsFound
<1> QED
  BY <1>1, <1>2, <1>3, PTL DEF CheckSpec
=============================================================================
