------------------------------- MODULE Values -------------------------------
(***************************************************************************)
(* XValue: what a value is, how two values compare, and how one is read as *)
(* another type.                                                           *)
(*                                                                         *)
(* A value is its type with an integer that stands for its contents:       *)
(*   - integers stand for themselves, in widths the instance scales down;  *)
(*   - a double is a number of units, of which Parts make one: one of the  *)
(*     finite numbers a mantissa can hold (not a NaN or an infinity);      *)
(*   - a string is a text, see below;                                      *)
(*   - an object is its address, in units of the size of an IObject.       *)
(***************************************************************************)
EXTENDS Integers

CONSTANTS
  MaxInt64, MaxInt32,   \* the largest signed integers of the two widths
  Parts,                \* the units that make one
  DoubleNumbers,        \* the numbers of units a double can hold
  WrittenNumbers,       \* those that std::to_string writes in full: of six decimals
  LLRoundBeyond,        \* what llround gives for a double that int64 cannot hold
  StoredTexts,          \* the texts that are stored, by their codes
  Addresses             \* of objects

ASSUME WidthsAssumption == MaxInt64 \in Nat /\ MaxInt32 \in 1 .. MaxInt64

Signed(max) == -(max + 1) .. max
Unsigned(max) == 0 .. 2 * max + 1

ASSUME NumbersAssumption ==
  /\ Parts \in Nat \ {0}
  /\ DoubleNumbers \subseteq Int /\ {0, Parts} \subseteq DoubleNumbers
  /\ WrittenNumbers \subseteq Int /\ 0 \in WrittenNumbers
  /\ LLRoundBeyond \in [DoubleNumbers -> Signed(MaxInt64)]
  /\ StoredTexts \subseteq Int
  /\ Addresses \subseteq Int

Clamp(n, max) == IF n < -(max + 1) THEN -(max + 1) ELSE IF n > max THEN max ELSE n

Dist(a, b) == IF a < b THEN b - a ELSE a - b

(* Of two that are equally near, which one is left open. *)
Closest(u, numbers) == CHOOSE n \in numbers : \A m \in numbers : Dist(n, u) <= Dist(m, u)

(* Towards zero. *)
Truncated(u, parts) == IF u >= 0 THEN u \div parts ELSE -((-u) \div parts)

-----------------------------------------------------------------------------
(* Texts.  Code 3n is the integer n written out, 3u + 1 a decimal of u     *)
(* units, with a digit before its point, 3j + 2 a word.  The code also     *)
(* orders the texts as strcmp would: of that order only that it is one     *)
(* matters.                                                                *)

IntegerText(n) == 3 * n
DoubleText(u) == 3 * u + 1
Word(j) == 3 * j + 2

BlankText == Word(0)
TrueText == Word(1)
FalseText == Word(2)
OtherText == Word(3)

HasDigits(s) == s % 3 # 2

(* The number a text begins with, in units; a word has none. *)
TextUnits(s) ==
  CASE s % 3 = 0 -> Parts * (s \div 3)
    [] s % 3 = 1 -> s \div 3
    [] OTHER -> 0

(* atof: a word reads as zero. *)
TextDouble(s) == Closest(TextUnits(s), DoubleNumbers)

(* The digits strtoll takes: up to the decimal point. *)
TextWhole(s) == Truncated(TextUnits(s), Parts)

-----------------------------------------------------------------------------
(* Values. *)

XValue(type, val) == [type |-> type, val |-> val]

Empty == XValue("empty", 0)
Null == XValue("null", 0)

Bools == {XValue("bool", b) : b \in {0, 1}}
Int64s == {XValue("int64", n) : n \in Signed(MaxInt64)}
Uint64s == {XValue("uint64", n) : n \in Unsigned(MaxInt64)}
Doubles == {XValue("double", u) : u \in DoubleNumbers}
Strings == {XValue("string", s) : s \in StoredTexts \cup {BlankText, TrueText, FalseText, OtherText}}
Objects == {XValue(type, a) : type \in {"constObject", "object"}, a \in Addresses}

XValues == {Empty, Null} \cup Bools \cup Int64s \cup Uint64s \cup Doubles \cup Strings \cup Objects

(* The place of a type among the alternatives of XVariant. *)
TypeIndex(v) ==
  CASE v.type = "empty" -> 0
    [] v.type = "null" -> 1
    [] v.type = "bool" -> 2
    [] v.type = "int64" -> 3
    [] v.type = "uint64" -> 4
    [] v.type = "double" -> 5
    [] v.type = "string" -> 6
    [] v.type = "constObject" -> 7
    [] v.type = "object" -> 8

IsObject(v) == v.type \in {"object", "constObject"}
IsInteger(v) == v.type \in {"int64", "uint64"}
IsEmpty(v) == v \in {Empty, Null, XValue("string", BlankText)}

-----------------------------------------------------------------------------
(* Conversions.  default is what a value without a number gives, negative  *)
(* what an unsigned result gives for a negative number.                    *)

AsBool(v, default) ==
  CASE v.type \in {"bool", "int64", "uint64", "double"} -> v.val > 0
    [] v.type = "string" -> v.val = TrueText \/ TextDouble(v.val) > 0
    [] OTHER -> default

(* llround: halves go away from zero.  Beyond int64 it has no defined      *)
(* result.                                                                 *)
Rounded(u) == Truncated(2 * u + (IF u >= 0 THEN Parts ELSE -Parts), 2 * Parts)

LLRound(u) == IF Rounded(u) \in Signed(MaxInt64) THEN Rounded(u) ELSE LLRoundBeyond[u]

AsInt64(v, default) ==
  CASE v.type \in {"bool", "int64"} -> v.val
    [] v.type = "uint64" -> Clamp(v.val, MaxInt64)
    [] v.type = "double" -> LLRound(v.val)
    [] v.type = "string" ->
         IF HasDigits(v.val) THEN Clamp(TextWhole(v.val), MaxInt64) ELSE default
    [] OTHER -> default

NonNegative(n, negative) == IF n >= 0 THEN n ELSE negative

AsUint64(v, default, negative) ==
  CASE v.type \in {"bool", "uint64"} -> v.val
    [] v.type = "int64" -> NonNegative(v.val, negative)
    [] v.type = "double" -> NonNegative(LLRound(v.val), negative)
    [] v.type = "string" ->
         IF ~HasDigits(v.val) THEN default
         ELSE IF TextUnits(v.val) < 0
         THEN NonNegative(Clamp(TextWhole(v.val), MaxInt64), negative)
         ELSE IF TextWhole(v.val) > 2 * MaxInt64 + 1 THEN 2 * MaxInt64 + 1 ELSE TextWhole(v.val)
    [] OTHER -> default

AsInt32(v, default) == Clamp(AsInt64(v, default), MaxInt32)

(* Mutation: the 32 bits are cut off the 64. *)
AsUint32Cut(v, default, negative) == AsUint64(v, default, negative) % (2 * MaxInt32 + 2)

AsUint32(v, default, negative) ==
  LET n == AsUint64(v, default, negative)
  IN  IF n > 2 * MaxInt32 + 1 THEN 2 * MaxInt32 + 1 ELSE n

(* In units.  An integer that a double cannot hold is rounded. *)
AsDouble(v, default) ==
  CASE v.type \in {"bool", "int64", "uint64"} -> Closest(Parts * v.val, DoubleNumbers)
    [] v.type = "double" -> v.val
    [] v.type = "string" -> TextDouble(v.val)
    [] OTHER -> default

AsString(v, default) ==
  CASE v.type = "bool" -> IF v.val = 1 THEN TrueText ELSE FalseText
    [] v.type \in {"int64", "uint64"} -> IntegerText(v.val)
    [] v.type = "double" -> DoubleText(Closest(v.val, WrittenNumbers))
    [] v.type = "string" -> v.val
    [] OTHER -> default

-----------------------------------------------------------------------------
(* Comparison. *)

(* operator ==: integers by number whatever their types, objects by        *)
(* address whether const or not.                                           *)
Equal(v, w) ==
  \/ v = w
  \/ IsInteger(v) /\ IsInteger(w) /\ AsInt64(v, 0) = AsInt64(w, 0)
  \/ IsObject(v) /\ IsObject(w) /\ v.val = w.val

(* What (int32_t) keeps of a difference. *)
Wrap32(n) == ((n + MaxInt32 + 1) % (2 * MaxInt32 + 2)) - (MaxInt32 + 1)

(* Mutation: integers are ordered by type before number. *)
CompareTyped(v, w) ==
  IF v = w THEN 0
  ELSE IF v.type = w.type THEN v.val - w.val
  ELSE IF IsObject(v) /\ IsObject(w) THEN Wrap32(v.val - w.val)
  ELSE IF TypeIndex(v) < TypeIndex(w) THEN -1 ELSE 1

Compare(v, w) ==
  IF v = w THEN 0
  ELSE IF IsInteger(v) /\ IsInteger(w) THEN Wrap32(AsInt64(v, 0) - AsInt64(w, 0))
  ELSE IF v.type = "string" /\ w.type = "string" THEN v.val - w.val
  ELSE IF IsObject(v) /\ IsObject(w) THEN Wrap32(v.val - w.val)
  ELSE IF TypeIndex(v) < TypeIndex(w) \/ (v.type = w.type /\ v.val < w.val) THEN -1 ELSE 1

=============================================================================
