---------------------------- MODULE MapWithErase ----------------------------
(***************************************************************************)
(* XContainerMapWithErase, the container of a map node, with the           *)
(* XContainerMap it is built on.  An erased key is not taken out of the    *)
(* map: its value is replaced by an empty value that has a time stamp, so  *)
(* that patches can carry the removal, and erased_values_ counts such      *)
(* entries.  Every write goes through DetectErase_, which asks the node's  *)
(* change callback for permission and keeps the count.                     *)
(*                                                                         *)
(* The node's container lock is held across each operation, so operations  *)
(* do not interleave.  ForEach, whose callback may change or erase every   *)
(* item it visits, takes one step per item.  The answers of the change     *)
(* callback are nondeterministic.                                          *)
(***************************************************************************)
EXTENDS Integers, Sequences, FiniteSets, FiniteSetsExt

CONSTANTS
  Keys,        \* the keys, as numbers in the order std::map keeps them
  Values,      \* plain values, none of them empty
  NoEntry,     \* no entry under this key
  Erased,      \* ErasedValue_(): the empty value with a time stamp
  Null,        \* null or the empty string, with a time stamp
  Untimed,     \* MappedType(): the empty value without a time stamp
  NoKey,       \* no key given, or found
  Nothing      \* what a reader sees under a key without a value

(* A ForEach under way: the key it is at and the one it started from,      *)
(* whether it has a change callback, and what it has found so far.         *)
Visits == [at : Keys, from : Keys \cup {NoKey}, quiet : BOOLEAN,
           found : BOOLEAN, expected : BOOLEAN]

ASSUME KeysAssumption ==
  /\ Keys \subseteq Nat
  /\ IsFiniteSet(Keys)
  /\ NoKey \notin Keys \cup Visits

ASSUME ContentsAssumption ==
  /\ {NoEntry, Erased, Null, Untimed, Nothing} \cap Values = {}
  /\ NoEntry \notin {Erased, Null, Untimed, Nothing}
  /\ Nothing \notin {Erased, Null, Untimed}
  /\ Erased # Null /\ Erased # Untimed /\ Null # Untimed

VARIABLES
  values,      \* values_map_
  erased,      \* erased_values_
  visit,       \* the ForEach under way, or NoKey
  op,          \* the last operation: its name, key, and whether it had no callback
  asked,       \* the questions the last step put to the change callback
  result       \* what the last operation returned

vars == <<values, erased, visit, op, asked, result>>

Stored == Values \cup {Erased, Null, Untimed}
Given == Values \cup {Erased, Null}            \* an XValue gets a stamp on its way in

IsEmpty(v) == v \in {Erased, Null, Untimed}
IsErasedValue(v) == v \in {Erased, Null}       \* empty, and has a time stamp

(* XValue::operator== does not look at the time stamp. *)
Same(v, w) == v = w \/ {v, w} \subseteq {Erased, Untimed}

Entries == {k \in Keys : values[k] # NoEntry}
ValueAt(k) == IF k \in Entries THEN values[k] ELSE Untimed

Tombs == {k \in Entries : IsErasedValue(values[k])}
Visible == Entries \ Tombs

Size == Cardinality(Entries) - erased

(* Mutation: a tombstone that is overwritten stays counted. *)
DetectNewTombsOnly(from, to) ==
  IF ~IsErasedValue(from) /\ IsErasedValue(to) THEN erased + 1 ELSE erased

(* What DetectErase_ makes of the count when the change is allowed. *)
DetectErase(from, to) ==
  CASE ~IsErasedValue(from) /\ IsErasedValue(to) -> erased + 1
    [] IsErasedValue(from) /\ ~IsErasedValue(to) -> erased - 1
    [] OTHER -> erased

(* What the change callback may answer; without one every change is allowed. *)
Answers(quiet) == IF quiet THEN {TRUE} ELSE BOOLEAN

Asking(quiet, k, from, to, answer) ==
  IF quiet THEN <<>> ELSE <<[key |-> k, from |-> from, to |-> to, allowed |-> answer]>>

(* Mutation: the value is stored whatever the callback answered. *)
WriteAlways(k, v, allowed) ==
  /\ values' = [values EXCEPT ![k] = v]
  /\ erased' = DetectErase(ValueAt(k), v)

Write(k, v, allowed) ==
  IF allowed
  THEN /\ values' = [values EXCEPT ![k] = v]
       /\ erased' = DetectErase(ValueAt(k), v)
  ELSE UNCHANGED <<values, erased>>

Operation(name, k, quiet) == op' = [name |-> name, key |-> k, quiet |-> quiet]
Return(done, v) == result' = [done |-> done, value |-> v]

Init ==
  /\ values = [k \in Keys |-> NoEntry]
  /\ erased = 0
  /\ visit = NoKey
  /\ op = [name |-> "Create", key |-> NoKey, quiet |-> TRUE]
  /\ asked = <<>>
  /\ result = [done |-> TRUE, value |-> Nothing]

-----------------------------------------------------------------------------
(* XContainerMap::Set behind DetectErase_: nothing happens when the value  *)
(* is already there; otherwise the callback decides.                       *)
Store(k, v, quiet) ==
  \/ /\ Same(ValueAt(k), v)
     /\ Return(FALSE, ValueAt(k))
     /\ asked' = <<>>
     /\ UNCHANGED <<values, erased>>
  \/ /\ ~Same(ValueAt(k), v)
     /\ \E answer \in Answers(quiet) :
          /\ asked' = Asking(quiet, k, ValueAt(k), v, answer)
          /\ Return(answer, ValueAt(k))
          /\ Write(k, v, answer)

Set(k, v) ==
  /\ visit = NoKey
  /\ Operation("Set", k, FALSE)
  /\ Store(k, v, FALSE)
  /\ UNCHANGED visit

(* Erase stores the timed empty value.  BulkErase and the parent's clean-up *)
(* (PrivateErase) call it without a change callback.                       *)
Erase(k, quiet) ==
  /\ visit = NoKey
  /\ Operation("Erase", k, quiet)
  /\ Store(k, Erased, quiet)
  /\ UNCHANGED visit

(* Emplace never replaces an entry, a tombstone included. *)
Emplace(k, v) ==
  /\ visit = NoKey
  /\ Operation("Emplace", k, FALSE)
  /\ UNCHANGED visit
  /\ \/ /\ k \in Entries
        /\ Return(FALSE, values[k])
        /\ asked' = <<>>
        /\ UNCHANGED <<values, erased>>
     \/ /\ k \notin Entries
        /\ \E answer \in BOOLEAN :
             /\ asked' = Asking(FALSE, k, Untimed, v, answer)
             /\ Return(answer, Untimed)
             /\ Write(k, v, answer)

(* Mutation: Clear forgets the count. *)
ClearKeepsCount ==
  /\ visit = NoKey
  /\ Operation("Clear", NoKey, TRUE)
  /\ values' = [k \in Keys |-> NoEntry]
  /\ asked' = <<>>
  /\ Return(TRUE, Nothing)
  /\ UNCHANGED <<erased, visit>>

Clear ==
  /\ visit = NoKey
  /\ Operation("Clear", NoKey, TRUE)
  /\ values' = [k \in Keys |-> NoEntry]
  /\ erased' = 0
  /\ asked' = <<>>
  /\ Return(TRUE, Nothing)
  /\ UNCHANGED visit

-----------------------------------------------------------------------------
(* The ForEach that may change what it visits.                             *)

Found(from) == IF from = NoKey THEN Visible # {} ELSE from \in Visible

StartOf(from) == IF from = NoKey THEN Entries ELSE {from} \cap Entries

(* `expected` is a history field: what the return value should be. *)
ForEachBegin(from, quiet) ==
  /\ visit = NoKey
  /\ Operation("ForEach", from, quiet)
  /\ asked' = <<>>
  /\ UNCHANGED <<values, erased>>
  /\ IF StartOf(from) = {}
     THEN Return(FALSE, Nothing) /\ UNCHANGED visit
     ELSE /\ visit' = [at |-> Min(StartOf(from)), from |-> from, quiet |-> quiet,
                       found |-> FALSE, expected |-> Found(from)]
          /\ UNCHANGED result

(* The iteration ends, or goes on with the next entry of the map. *)
Proceed(found, stop) ==
  LET later == {k \in Entries : k > visit.at}
  IN  IF stop \/ later = {}
      THEN visit' = NoKey /\ Return(found, Nothing)
      ELSE /\ visit' = [visit EXCEPT !.at = Min(later), !.found = found]
           /\ UNCHANGED result

(* Mutation: an erased starting key is skipped like any other tombstone. *)
VisitAnyTomb ==
  /\ visit # NoKey
  /\ visit.at \in Tombs
  /\ asked' = <<>>
  /\ Proceed(visit.found, FALSE)
  /\ UNCHANGED <<values, erased, op>>

(* A tombstone is passed over; when the walk was to start at it, it ends. *)
VisitTomb ==
  /\ visit # NoKey
  /\ visit.at \in Tombs
  /\ asked' = <<>>
  /\ Proceed(visit.found, ~visit.found /\ visit.from = visit.at)
  /\ UNCHANGED <<values, erased, op>>

(* The item callback assigned v, or the value that was there. *)
VisitAssign(v, stop) ==
  /\ visit # NoKey
  /\ visit.at \in Visible
  /\ \/ /\ Same(v, values[visit.at])
        /\ asked' = <<>>
        /\ UNCHANGED <<values, erased>>
     \/ /\ ~Same(v, values[visit.at])
        /\ \E answer \in Answers(visit.quiet) :
             /\ asked' = Asking(visit.quiet, visit.at, values[visit.at], v, answer)
             /\ Write(visit.at, v, answer)
  /\ Proceed(TRUE, stop)
  /\ UNCHANGED op

(* The item callback asked to erase.  The derived ForEach asks the change  *)
(* callback once and puts the empty value in the item's place; the base    *)
(* ForEach then sees a changed item and asks again through DetectErase_.   *)
VisitErase(stop) ==
  /\ visit # NoKey
  /\ visit.at \in Visible
  /\ \E first, second \in Answers(visit.quiet) :
       LET k == visit.at
           again == first /\ ~Same(values[k], Erased)
       IN  /\ asked' = Asking(visit.quiet, k, values[k], Untimed, first)
                        \o IF again THEN Asking(visit.quiet, k, values[k], Erased, second)
                                    ELSE <<>>
           /\ Write(k, Erased, again /\ second)
  /\ Proceed(TRUE, stop)
  /\ UNCHANGED op

-----------------------------------------------------------------------------
(* Read-only operations.                                                   *)

(* XContainerMatchMap::ContainerKey: the key at a sequential index; -2 is  *)
(* kIdxLast.  The visible entries are walked while the index counts down.  *)
ContainerKey(index) ==
  LET i == IF index = -2 /\ Size > 0 THEN Size - 1 ELSE index
      at == {k \in Visible : Cardinality({j \in Visible : j < k}) = i}
  IN  IF i \notin 0..(Size - 1) \/ at = {} THEN NoKey ELSE Min(at)

-----------------------------------------------------------------------------
Next ==
  \/ \E k \in Keys, v \in Given : Set(k, v) \/ Emplace(k, v)
  \/ \E k \in Keys, quiet \in BOOLEAN : Erase(k, quiet)
  \/ Clear
  \/ \E from \in Keys \cup {NoKey}, quiet \in BOOLEAN : ForEachBegin(from, quiet)
  \/ VisitTomb
  \/ \E v \in Stored, stop \in BOOLEAN : VisitAssign(v, stop)
  \/ \E stop \in BOOLEAN : VisitErase(stop)

Spec == Init /\ [][Next]_vars

-----------------------------------------------------------------------------
TypeOK ==
  /\ values \in [Keys -> Stored \cup {NoEntry}]
  /\ erased \in Nat
  /\ visit \in Visits \cup {NoKey}
  /\ op \in [name : {"Create", "Set", "Erase", "Emplace", "Clear", "ForEach"},
             key : Keys \cup {NoKey}, quiet : BOOLEAN]
  /\ asked \in Seq([key : Keys, from : Stored, to : Stored, allowed : BOOLEAN])
  /\ result \in [done : BOOLEAN, value : Stored \cup {Nothing}]

(* erased_values_ is the number of tombstones after every operation and    *)
(* every item of a ForEach, whichever way an entry became or ceased to be  *)
(* empty; Size() and Empty() of a node rest on it.                         *)
CountsTombs == erased = Cardinality(Tombs)

(* The map with tombstones and a count behaves as a dictionary whose size  *)
(* is its number of values: Set, Emplace, Erase, Clear and every item of a *)
(* ForEach change at most one key, or all, of what a reader sees.          *)
Seen(v) == IF v = NoEntry \/ IsErasedValue(v) THEN Nothing ELSE v
Map == INSTANCE KeyValueMap WITH
         Contents <- Stored, dict <- [k \in Keys |-> Seen(values[k])], size <- Size
IsDictionary == Map!Spec

(* Access by sequential index (ContainerKey) reaches every visible key and *)
(* no other, in the order of the map, and kIdxLast is the last of them;    *)
(* the bound it checks the index against is the counted Size().            *)
IndexReachesVisible ==
  /\ \A i \in 0..(Size - 1) : ContainerKey(i) \in Visible
  /\ {ContainerKey(i) : i \in 0..(Size - 1)} = Visible
  /\ \A i, j \in 0..(Size - 1) : i < j => ContainerKey(i) < ContainerKey(j)
  /\ ContainerKey(-2) = IF Visible = {} THEN NoKey ELSE Max(Visible)

(* With a change callback in place, a key changes only if the callback was *)
(* asked about that key, the old value and the new one, and allowed every  *)
(* question of the step.  (Clear has no callback to ask.)                  *)
Approved(k) ==
  /\ asked' # <<>>
  /\ \A i \in DOMAIN asked' :
       /\ asked'[i].key = k
       /\ asked'[i].allowed
       /\ Same(asked'[i].from, ValueAt(k))
       /\ Same(asked'[i].to, values'[k])
ChangedOnlyIfApproved ==
  [][\A k \in Keys : values'[k] # values[k] /\ ~op'.quiet => Approved(k)]_vars

(* The changing ForEach returns false exactly when nothing was visible at  *)
(* its start: an empty map, or a starting key that is absent or erased.    *)
ForEachFindsVisible ==
  [][visit # NoKey /\ visit' = NoKey => result'.done = visit.expected]_vars
=============================================================================
