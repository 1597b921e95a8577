---------------------------- MODULE StoredValue ----------------------------
(***************************************************************************)
(* The value under one key of a map node, set, erased and counted up by    *)
(* any number of callers.  Each call holds the node's container lock; the  *)
(* change callback may refuse each change.                                 *)
(***************************************************************************)
EXTENDS Values

CONSTANTS
  Settable,    \* the values that are set
  Steps        \* the values Increment adds

ASSUME IncrementsAssumption ==
  /\ Settable \subseteq XValues
  /\ Steps \subseteq Int64s \cup Uint64s \cup Doubles

VARIABLES
  present,     \* whether the map has an entry for the key, a tombstone included
  stored,      \* its value, Empty when there is none
  added        \* what the last Increment added and returned

slotVars == <<present, stored, added>>

SlotInit == present = FALSE /\ stored = Empty /\ added = [step |-> Empty, returned |-> Empty]

(* A sum of doubles is rounded to a double. *)
DoubleSum(v, step) == Closest(AsDouble(v, 0) + AsDouble(step, 0), DoubleNumbers)

(* Mutation: the sum is of the type of the value and not of the step. *)
SumOfStored(v, step) ==
  CASE v.type = "double" -> XValue("double", DoubleSum(v, step))
    [] v.type = "uint64" ->
         XValue("uint64", (AsUint64(v, 0, 0) + AsUint64(step, 0, 0)) % (2 * MaxInt64 + 2))
    [] OTHER ->
         XValue("int64", ((AsInt64(v, 0) + AsInt64(step, 0) + MaxInt64 + 1)
                          % (2 * MaxInt64 + 2)) - (MaxInt64 + 1))

(* What Increment makes of a value: the type of the step decides.  A sum   *)
(* that does not fit wraps around.                                         *)
SumWith(v, step) ==
  CASE step.type = "double" -> XValue("double", DoubleSum(v, step))
    [] step.type = "uint64" ->
         XValue("uint64", (AsUint64(v, 0, 0) + AsUint64(step, 0, 0)) % (2 * MaxInt64 + 2))
    [] OTHER ->
         XValue("int64", ((AsInt64(v, 0) + AsInt64(step, 0) + MaxInt64 + 1)
                          % (2 * MaxInt64 + 2)) - (MaxInt64 + 1))

NotAdding == added' = [step |-> Empty, returned |-> Empty]

SetStored(v) ==
  /\ NotAdding
  /\ \/ ~Equal(stored, v) /\ stored' = v /\ present' = TRUE
     \/ UNCHANGED <<present, stored>>

EraseStored ==
  /\ NotAdding
  /\ \/ ~Equal(stored, Empty) /\ stored' = Empty
     \/ UNCHANGED stored
  /\ UNCHANGED present

(* ForEach finds a value that is not empty.  The caller gets the sum, even *)
(* when the callback refuses it or it equals the old value.                *)
IncrementStored(step) ==
  /\ ~IsEmpty(stored)
  /\ LET sum == SumWith(stored, step)
     IN  /\ added' = [step |-> step, returned |-> sum]
         /\ \/ ~Equal(stored, sum) /\ stored' = sum
            \/ UNCHANGED stored
  /\ UNCHANGED present

(* Without a value the step itself is emplaced, unless there is a          *)
(* tombstone; either way the caller gets an empty value.                   *)
IncrementMissing(step) ==
  /\ IsEmpty(stored)
  /\ added' = [step |-> step, returned |-> Empty]
  /\ \/ ~present /\ stored' = step /\ present' = TRUE
     \/ UNCHANGED <<present, stored>>

(* The bound on sums: between two doubles, so that none is infinite. *)
InReach(v, step) ==
  step.type = "double" =>
    \E low, high \in DoubleNumbers : AsDouble(v, 0) + AsDouble(step, 0) \in low .. high

SlotNext ==
  \/ \E v \in Settable : SetStored(v)
  \/ EraseStored
  \/ \E step \in Steps :
       \/ InReach(stored, step) /\ IncrementStored(step)
       \/ IncrementMissing(step)

-----------------------------------------------------------------------------
(* The number of units a value stands for, as a number or as its digits.   *)
IsNumber(v) ==
  \/ v.type \in {"bool", "int64", "uint64", "double"}
  \/ v.type = "string" /\ HasDigits(v.val)
Units(v) ==
  CASE v.type \in {"bool", "int64", "uint64"} -> Parts * v.val
    [] v.type = "double" -> v.val
    [] v.type = "string" -> TextUnits(v.val)

(* Compare keeps the low 32 bits of the difference of two integers or two  *)
(* addresses, and reads an unsigned integer beyond int64 as the largest    *)
(* int64.                                                                  *)
Far(v, w) ==
  \/ /\ IsInteger(v) /\ IsInteger(w)
     /\ v.val - w.val \notin -MaxInt32 .. MaxInt32 \/ v.val > MaxInt64 \/ w.val > MaxInt64
  \/ IsObject(v) /\ IsObject(w) /\ v.val - w.val \notin -MaxInt32 .. MaxInt32

(* Compare orders all values, by number those that are integers, and finds *)
(* equal exactly those that operator== does, except for integers far from  *)
(* each other and for objects far from each other in memory.  A std::map   *)
(* or std::set of values (improper parents, invalid children of the bulk   *)
(* calls) has an order only as long as its keys are not far apart.         *)
ComparesInOrder ==
  present => \A v \in XValues : ~Far(stored, v) =>
    /\ (Compare(stored, v) = 0) <=> Equal(stored, v)
    /\ (Compare(stored, v) < 0) <=> (Compare(v, stored) > 0)
    /\ Compare(stored, v) <= 0 =>
         \A w \in XValues : ~Far(v, w) /\ ~Far(stored, w) /\ Compare(v, w) <= 0 =>
           Compare(stored, w) <= 0
    /\ IsInteger(stored) /\ IsInteger(v) => Compare(stored, v) = stored.val - v.val

Nearest(n, u, range) ==
  n \in range /\ \A m \in range : Dist(Parts * n, u) <= Dist(Parts * m, u)

(* The integers a value may be read as: a text's decimals are cut off.     *)
Targets(v, range) ==
  CASE v.type # "string" -> range
    [] v.type = "string" /\ Units(v) >= 0 -> {n \in range : n >= 0 /\ Parts * n <= Units(v)}
    [] OTHER -> {n \in range : n <= 0 /\ Parts * n >= Units(v)}

BeyondLLRound(v) == v.type = "double" /\ Rounded(v.val) \notin Signed(MaxInt64)

(* A value written as a text (String). *)
Written(v) == XValue("string", AsString(v, BlankText))

(* A number reads as the integer of each width and signedness that is      *)
(* nearest to it, a text that begins with a number as the nearest that its *)
(* digits before the decimal point reach: what is out of range is clamped, *)
(* never wrapped (Int64, Uint64, Int32 and Uint32 without other defaults). *)
(* Doubles that llround has no result for are excepted.  Integers written  *)
(* as a text (String) read back as the same number, the same double and    *)
(* the same truth, doubles of no more than six decimals as the same.       *)
ConversionsAreNearest ==
  /\ IsNumber(stored) /\ ~BeyondLLRound(stored) =>
       /\ Nearest(AsInt64(stored, 0), Units(stored), Targets(stored, Signed(MaxInt64)))
       /\ Nearest(AsUint64(stored, 0, 0), Units(stored), Targets(stored, Unsigned(MaxInt64)))
       /\ Nearest(AsInt32(stored, 0), Units(stored), Targets(stored, Signed(MaxInt32)))
       /\ Nearest(AsUint32(stored, 0, 0), Units(stored), Targets(stored, Unsigned(MaxInt32)))
  /\ stored.type = "int64" => AsInt64(Written(stored), 0) = stored.val
  /\ stored.type = "uint64" => AsUint64(Written(stored), 0, 0) = stored.val
  /\ IsInteger(stored) => AsDouble(Written(stored), 0) = AsDouble(stored, 0)
  /\ IsInteger(stored) \/ stored.type = "bool" =>
       AsBool(Written(stored), FALSE) = AsBool(stored, FALSE)
  /\ stored.type = "double" /\ stored.val \in WrittenNumbers =>
       AsDouble(Written(stored), 0) = stored.val

(* The units of what the step's type makes of a value, and whether the     *)
(* type can hold so many.                                                  *)
Reading(v, type) ==
  CASE type = "double" -> AsDouble(v, 0)
    [] type = "int64" -> Parts * AsInt64(v, 0)
    [] type = "uint64" -> Parts * AsUint64(v, 0, 0)
Holds(type, u) ==
  CASE type = "double" -> u \in DoubleNumbers
    [] type = "int64" -> u \in {Parts * n : n \in Signed(MaxInt64)}
    [] type = "uint64" -> u \in {Parts * n : n \in Unsigned(MaxInt64)}
Lossless(v, step) == IsNumber(v) /\ Reading(v, step.type) = Units(v)

(* Counting up adds exactly the step when the step's type can hold the     *)
(* value and the sum, whatever type the value has; where it cannot, for    *)
(* an int64 that no double is or a sum between two doubles, nothing is     *)
(* claimed.  A refused step changes nothing, and the caller of a step that *)
(* was taken is given what is stored, unless it was the first.             *)
IncrementAddsExactly ==
  [][LET step == added'.step
         total == Units(stored) + Units(step)
     IN  /\ step # Empty
         /\ stored' # stored
         => /\ stored = Empty => stored' = step
            /\ Lossless(stored, step) /\ Holds(step.type, total)
                 => Units(stored') = total /\ added'.returned = stored']_slotVars
=============================================================================
