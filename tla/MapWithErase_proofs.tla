------------------------ MODULE MapWithErase_proofs ------------------------
(***************************************************************************)
(* Proofs about MapWithErase, for any finite set of keys and any values.   *)
(***************************************************************************)
EXTENDS MapWithErase, SequenceFacts, FiniteSetTheorems, TLAPS

USE DEF Stored, Given, IsEmpty, IsErasedValue

-----------------------------------------------------------------------------
(* The entries, the tombstones and the visible keys are finite, and the    *)
(* visible keys are the entries that are not counted.                      *)
LEMMA FiniteEntries ==
  /\ IsFiniteSet(Entries) /\ IsFiniteSet(Tombs) /\ IsFiniteSet(Visible)
  /\ Cardinality(Entries) \in Nat /\ Cardinality(Tombs) \in Nat
  /\ Cardinality(Visible) = Cardinality(Entries) - Cardinality(Tombs)
<1>1. Entries \in SUBSET Keys /\ Tombs \in SUBSET Entries /\ Visible \in SUBSET Entries
  BY DEF Entries, Tombs, Visible
<1>2. IsFiniteSet(Entries)
  BY <1>1, FS_Subset, KeysAssumption
<1>3. IsFiniteSet(Tombs) /\ IsFiniteSet(Visible)
  BY <1>1, <1>2, FS_Subset
<1>4. Entries = Visible \cup Tombs /\ Visible \cap Tombs = {}
  BY <1>1 DEF Visible
<1>5. Cardinality(Entries) = Cardinality(Visible) + Cardinality(Tombs) - Cardinality({})
  BY <1>3, <1>4, FS_Union
<1> QED
  BY <1>2, <1>3, <1>5, FS_EmptySet, FS_CardinalityType

(* The part of the type invariant that the count depends on. *)
Counted ==
  /\ values \in [Keys -> Stored \cup {NoEntry}]
  /\ erased \in Nat
  /\ CountsTombs

(* DetectErase_ keeps the count right whatever value replaces whatever     *)
(* other under one key.                                                    *)
LEMMA WriteCounts ==
  ASSUME Counted, NEW k \in Keys, NEW v \in Stored, NEW allowed \in BOOLEAN,
         Write(k, v, allowed)
  PROVE  Counted'
<1> USE DEF Counted
<1>1. CASE ~allowed
  BY <1>1 DEF Write, CountsTombs, Tombs, Entries
<1>2. CASE allowed
  <2>1. /\ values' = [values EXCEPT ![k] = v]
        /\ erased' = DetectErase(ValueAt(k), v)
    BY <1>2 DEF Write
  <2>2. values' \in [Keys -> Stored \cup {NoEntry}]
    BY <2>1
  <2>3. IsErasedValue(ValueAt(k)) <=> k \in Tombs
    BY ContentsAssumption DEF ValueAt, Tombs
  <2>4. IsErasedValue(v) <=> k \in Tombs'
    BY <2>1, ContentsAssumption DEF Tombs, Entries
  <2>5. \A j \in Keys : j # k => (j \in Tombs' <=> j \in Tombs)
    BY <2>1 DEF Tombs, Entries
  <2>6. Tombs \subseteq Keys /\ Tombs' \subseteq Keys
    BY DEF Tombs, Entries
  <2>7. CASE k \in Tombs <=> k \in Tombs'
    <3>1. Tombs' = Tombs
      BY <2>5, <2>6, <2>7
    <3>2. erased' = erased
      BY <2>1, <2>3, <2>4, <2>7 DEF DetectErase
    <3> QED
      BY <2>2, <3>1, <3>2 DEF CountsTombs
  <2>8. CASE k \notin Tombs /\ k \in Tombs'
    <3>1. Tombs' = Tombs \cup {k}
      BY <2>5, <2>6, <2>8
    <3>2. erased' = erased + 1
      BY <2>1, <2>3, <2>4, <2>8 DEF DetectErase
    <3>3. Cardinality(Tombs') = Cardinality(Tombs) + 1
      BY <2>8, <3>1, FiniteEntries, FS_AddElement
    <3> QED
      BY <2>2, <3>2, <3>3 DEF CountsTombs
  <2>9. CASE k \in Tombs /\ k \notin Tombs'
    <3>1. Tombs' = Tombs \ {k}
      BY <2>5, <2>6, <2>9
    <3>2. erased' = erased - 1
      BY <2>1, <2>3, <2>4, <2>9 DEF DetectErase
    <3>3. Cardinality(Tombs') = Cardinality(Tombs) - 1
      BY <2>9, <3>1, FiniteEntries, FS_RemoveElement
    <3>4. Cardinality(Tombs) # 0
      BY <2>9, FiniteEntries, FS_EmptySet
    <3> QED
      BY <2>2, <3>2, <3>3, <3>4, FiniteEntries DEF CountsTombs
  <2> QED
    BY <2>7, <2>8, <2>9
<1> QED
  BY <1>1, <1>2

-----------------------------------------------------------------------------
(* Every operation touches the map in one of three ways.                   *)
Writes == \E k \in Keys, v \in Stored, allowed \in BOOLEAN : Write(k, v, allowed)

LEMMA StoreWrites ==
  ASSUME NEW k \in Keys, NEW v \in Stored, NEW quiet \in BOOLEAN, Store(k, v, quiet)
  PROVE  UNCHANGED <<values, erased>> \/ Writes
<1>1. Answers(quiet) \subseteq BOOLEAN
  BY DEF Answers
<1> QED
  BY <1>1, Zenon DEF Store, Writes

LEMMA StepKinds ==
  ASSUME [Next]_vars
  PROVE  UNCHANGED <<values, erased>> \/ Writes \/ Clear
<1>1. ASSUME NEW k \in Keys, NEW v \in Given, Set(k, v)
      PROVE  UNCHANGED <<values, erased>> \/ Writes
  BY <1>1, StoreWrites DEF Set
<1>2. ASSUME NEW k \in Keys, NEW v \in Given, Emplace(k, v)
      PROVE  UNCHANGED <<values, erased>> \/ Writes
  <2>1. v \in Stored
    OBVIOUS
  <2> QED
    BY <1>2, <2>1, Zenon DEF Emplace, Writes
<1>3. ASSUME NEW k \in Keys, NEW quiet \in BOOLEAN, Erase(k, quiet)
      PROVE  UNCHANGED <<values, erased>> \/ Writes
  BY <1>3, StoreWrites DEF Erase
<1>4. ASSUME NEW from \in Keys \cup {NoKey}, NEW quiet \in BOOLEAN, ForEachBegin(from, quiet)
      PROVE  UNCHANGED <<values, erased>>
  BY <1>4, Zenon DEF ForEachBegin
<1>5. ASSUME VisitTomb PROVE UNCHANGED <<values, erased>>
  BY <1>5, Zenon DEF VisitTomb
<1>6. visit.at \in Visible => visit.at \in Keys
  BY DEF Visible, Entries
<1>7. ASSUME NEW v \in Stored, NEW stop \in BOOLEAN, VisitAssign(v, stop)
      PROVE  UNCHANGED <<values, erased>> \/ Writes
  <2>1. Answers(visit.quiet) \subseteq BOOLEAN
    BY DEF Answers
  <2> QED
    BY <1>6, <1>7, <2>1, Zenon DEF VisitAssign, Writes
<1>8. ASSUME NEW stop \in BOOLEAN, VisitErase(stop)
      PROVE  Writes
  <2>1. PICK first \in Answers(visit.quiet), second \in Answers(visit.quiet) :
          Write(visit.at, Erased, (first /\ ~Same(values[visit.at], Erased)) /\ second)
    BY <1>8, Zenon DEF VisitErase
  <2>2. ((first /\ ~Same(values[visit.at], Erased)) /\ second) \in BOOLEAN
    OBVIOUS
  <2>3. visit.at \in Keys /\ Erased \in Stored
    BY <1>6, <1>8 DEF VisitErase
  <2> QED
    BY <2>1, <2>2, <2>3, Zenon DEF Writes
<1>9. CASE UNCHANGED vars
  BY <1>9 DEF vars
<1> QED
  BY <1>1, <1>2, <1>3, <1>4, <1>5, <1>7, <1>8, <1>9, Zenon DEF Next

LEMMA CountedInit == Init => Counted
<1> SUFFICES ASSUME Init PROVE Counted
  OBVIOUS
<1>1. Entries = {}
  BY DEF Init, Entries
<1>2. Tombs = {}
  BY <1>1 DEF Tombs
<1> QED
  BY <1>2, FS_EmptySet DEF Init, Counted, CountsTombs

LEMMA CountedStep == Counted /\ [Next]_vars => Counted'
<1> SUFFICES ASSUME Counted, [Next]_vars PROVE Counted'
  OBVIOUS
<1>1. CASE UNCHANGED <<values, erased>>
  BY <1>1 DEF Counted, CountsTombs, Tombs, Entries
<1>2. CASE Writes
  BY <1>2, WriteCounts DEF Writes
<1>3. CASE Clear
  <2>1. Tombs' = {}
    BY <1>3 DEF Clear, Tombs, Entries
  <2> QED
    BY <1>3, <2>1, FS_EmptySet DEF Clear, Counted, CountsTombs
<1> QED
  BY <1>1, <1>2, <1>3, StepKinds

LEMMA AlwaysCounted == Spec => []Counted
  BY CountedInit, CountedStep, PTL DEF Spec

(* erased_values_ equals the number of tombstones after any sequence of    *)
(* operations of the container, so that Size() and Empty() are exact.      *)
THEOREM CountIsExact == Spec => []CountsTombs
<1>1. Counted => CountsTombs
  BY DEF Counted
<1> QED
  BY <1>1, AlwaysCounted, PTL

-----------------------------------------------------------------------------
(* The container implements the dictionary of KeyValueMap: nothing that a  *)
(* reader sees, the size included, tells a tombstone from a missing key.   *)
THEOREM ImplementsDictionary == Spec => IsDictionary
<1> DEFINE dict == [k \in Keys |-> Seen(values[k])]
<1>1. Counted => Map!Holding(dict) = Visible /\ Size = Cardinality(Visible)
  <2> SUFFICES ASSUME Counted
               PROVE  Map!Holding(dict) = Visible /\ Size = Cardinality(Visible)
    OBVIOUS
  <2>1. \A k \in Keys : Seen(values[k]) # Nothing <=> k \in Visible
    BY ContentsAssumption DEF Counted, Seen, Visible, Entries, Tombs
  <2>2. Map!Holding(dict) = Visible
    BY <2>1 DEF Map!Holding, Visible, Entries
  <2> QED
    BY <2>2, FiniteEntries DEF Size, Counted, CountsTombs
<1>2. Init => Map!Init
  <2> SUFFICES ASSUME Init PROVE Map!Init
    OBVIOUS
  <2>1. Entries = {} /\ dict = [k \in Keys |-> Nothing]
    BY DEF Init, Entries, Seen
  <2> QED
    BY <2>1, FS_EmptySet DEF Init, Map!Init, Size
<1>3. Counted /\ Counted' /\ [Next]_vars => [Map!Next]_<<dict, Size>>
  <2> SUFFICES ASSUME Counted, Counted', [Next]_vars PROVE [Map!Next]_<<dict, Size>>
    OBVIOUS
  <2>1. CASE UNCHANGED <<values, erased>>
    BY <2>1 DEF Size, Entries
  <2>2. CASE Writes
    <3>1. PICK k \in Keys, v \in Stored, allowed \in BOOLEAN : Write(k, v, allowed)
      BY <2>2 DEF Writes
    <3>2. CASE ~allowed
      BY <3>1, <3>2 DEF Write, Size, Entries
    <3>3. CASE allowed
      <4>1. values' = [values EXCEPT ![k] = v]
        BY <3>1, <3>3 DEF Write
      <4>2. dict' = [dict EXCEPT ![k] = Seen(v)]
        BY <4>1 DEF Counted
      <4>3. Seen(v) \in Stored \cup {Nothing}
        BY DEF Seen
      <4>4. Map!Holding(dict') = Visible' /\ Size' = Cardinality(Visible')
        <5>1. (Map!Holding(dict) = Visible /\ Size = Cardinality(Visible))'
          BY <1>1, PTL
        <5> QED
          BY <5>1 DEF Map!Holding
      <4>5. Map!Write(k, Seen(v))
        BY <4>2, <4>4, Zenon DEF Map!Write, Map!Cardinality, Cardinality
      <4> QED
        BY <4>3, <4>5, Zenon DEF Map!Next
    <3> QED
      BY <3>2, <3>3
  <2>3. CASE Clear
    <3>1. dict' = [k \in Keys |-> Nothing] /\ Entries' = {} /\ erased' = 0
      BY <2>3 DEF Clear, Entries, Seen
    <3> QED
      BY <3>1, FS_EmptySet DEF Map!Next, Map!RemoveAll, Size
  <2> QED
    BY <2>1, <2>2, <2>3, StepKinds
<1> QED
  BY <1>2, <1>3, AlwaysCounted, PTL DEF Spec, IsDictionary, Map!Spec

-----------------------------------------------------------------------------
Questions == [key : Keys, from : Stored, to : Stored, allowed : BOOLEAN]
Asked == Seq(Questions)
Results == [done : BOOLEAN, value : Stored \cup {Nothing}]
Operations == [name : {"Create", "Set", "Erase", "Emplace", "Clear", "ForEach"},
               key : Keys \cup {NoKey}, quiet : BOOLEAN]

LEMMA AskedSequences ==
  /\ <<>> \in Asked
  /\ \A q \in Questions : <<q>> \in Asked
  /\ \A s, t \in Asked : s \o t \in Asked
  BY DEF Asked

LEMMA AskingType ==
  ASSUME NEW quiet, NEW k \in Keys, NEW from \in Stored, NEW to \in Stored,
         NEW answer \in BOOLEAN
  PROVE  Asking(quiet, k, from, to, answer) \in Asked
<1>1. [key |-> k, from |-> from, to |-> to, allowed |-> answer] \in Questions
  BY DEF Questions
<1>2. CASE quiet
  BY <1>2, AskedSequences DEF Asking
<1>3. CASE ~quiet
  BY <1>1, <1>3, AskedSequences, Zenon DEF Asking
<1> QED
  BY <1>2, <1>3

LEMMA ResultType ==
  ASSUME NEW done \in BOOLEAN, NEW v \in Stored \cup {Nothing}, Return(done, v)
  PROVE  result' \in Results
  BY DEF Return, Results

LEMMA ProceedType ==
  ASSUME TypeOK, visit # NoKey, NEW found \in BOOLEAN, NEW stop \in BOOLEAN,
         Proceed(found, stop)
  PROVE  visit' \in Visits \cup {NoKey} /\ result' \in Results
<1> DEFINE later == {k \in Entries : k > visit.at}
<1>1. later \subseteq Keys /\ visit \in Visits
  BY DEF Entries, TypeOK, Visits
<1>2. CASE stop \/ later = {}
  BY <1>2 DEF Proceed, Return, Results
<1>3. CASE ~(stop \/ later = {})
  <2>1. Min(later) \in Keys
    BY <1>1, <1>3, MinOfNaturals, KeysAssumption
  <2>2. visit' = [visit EXCEPT !.at = Min(later), !.found = found] /\ result' = result
    BY <1>3 DEF Proceed
  <2> QED
    BY <1>1, <2>1, <2>2 DEF TypeOK, Visits, Results
<1> QED
  BY <1>2, <1>3

LEMMA StoreType ==
  ASSUME TypeOK, NEW k \in Keys, NEW v \in Stored, NEW quiet \in BOOLEAN,
         Store(k, v, quiet)
  PROVE  asked' \in Asked /\ result' \in Results
<1>1. ValueAt(k) \in Stored
  BY DEF ValueAt, Entries, TypeOK
<1>2. Answers(quiet) \subseteq BOOLEAN
  BY DEF Answers
<1>3. CASE Same(ValueAt(k), v)
  <2>1. Return(FALSE, ValueAt(k)) /\ asked' = <<>>
    BY <1>3, Zenon DEF Store
  <2> QED
    BY <1>1, <2>1, ResultType, AskedSequences
<1>4. CASE ~Same(ValueAt(k), v)
  <2>1. PICK answer \in Answers(quiet) :
          /\ asked' = Asking(quiet, k, ValueAt(k), v, answer)
          /\ Return(answer, ValueAt(k))
    BY <1>4, Zenon DEF Store
  <2> QED
    BY <1>1, <1>2, <2>1, ResultType, AskingType
<1> QED
  BY <1>3, <1>4

(* The types of the container's state, the iteration and the questions put *)
(* to the callback included; erased_values_ never underflows.              *)
THEOREM TypeCorrect == Spec => []TypeOK
<1>1. Init => TypeOK
  BY DEF Init, TypeOK
<1>2. TypeOK /\ Counted' /\ [Next]_vars => TypeOK'
  <2> SUFFICES ASSUME TypeOK, Counted', [Next]_vars
               PROVE  /\ visit' \in Visits \cup {NoKey}
                      /\ op' \in Operations
                      /\ asked' \in Asked
                      /\ result' \in Results
    BY DEF Counted, TypeOK, Visits, Asked, Questions, Results, Operations
  <2> USE DEF Operation
  <2>10. /\ visit \in Visits \cup {NoKey} /\ op \in Operations
         /\ asked \in Asked /\ result \in Results
    BY DEF TypeOK, Visits, Operations, Asked, Questions, Results
  <2>a. visit # NoKey /\ visit.at \in Keys => values[visit.at] \in Stored \cup {NoEntry}
    BY DEF TypeOK
  <2>b. visit.at \in Entries => values[visit.at] \in Stored /\ visit.at \in Keys
    BY DEF TypeOK, Entries
  <2>c. Visible \subseteq Entries /\ Tombs \subseteq Entries
    BY DEF Visible, Tombs
  <2>1. ASSUME NEW k \in Keys, NEW v \in Given, Set(k, v)
        PROVE  /\ visit' = visit /\ asked' \in Asked /\ result' \in Results
               /\ op' = [name |-> "Set", key |-> k, quiet |-> FALSE]
    BY <2>1, StoreType DEF Set
  <2>2. ASSUME NEW k \in Keys, NEW v \in Given, Emplace(k, v)
        PROVE  /\ visit' = visit /\ asked' \in Asked /\ result' \in Results
               /\ op' = [name |-> "Emplace", key |-> k, quiet |-> FALSE]
    <3>1. k \in Entries => values[k] \in Stored
      BY DEF TypeOK, Entries
    <3>2. visit' = visit /\ op' = [name |-> "Emplace", key |-> k, quiet |-> FALSE]
      BY <2>2 DEF Emplace
    <3>3. CASE k \in Entries
      BY <2>2, <3>1, <3>2, <3>3, ResultType, AskedSequences DEF Emplace
    <3>4. CASE k \notin Entries
      <4>1. PICK answer \in BOOLEAN :
              asked' = Asking(FALSE, k, Untimed, v, answer) /\ Return(answer, Untimed)
        BY <2>2, <3>4, Zenon DEF Emplace
      <4> QED
        BY <3>2, <4>1, AskingType, ResultType
    <3> QED
      BY <3>3, <3>4
  <2>3. ASSUME NEW k \in Keys, NEW quiet \in BOOLEAN, Erase(k, quiet)
        PROVE  /\ visit' = visit /\ asked' \in Asked /\ result' \in Results
               /\ op' = [name |-> "Erase", key |-> k, quiet |-> quiet]
    BY <2>3, StoreType DEF Erase
  <2>4. ASSUME NEW from \in Keys \cup {NoKey}, NEW quiet \in BOOLEAN, ForEachBegin(from, quiet)
        PROVE  /\ visit' \in Visits \cup {NoKey} /\ asked' \in Asked /\ result' \in Results
               /\ op' = [name |-> "ForEach", key |-> from, quiet |-> quiet]
    <3>1. StartOf(from) \subseteq Keys
      BY DEF StartOf, Entries
    <3>2. Found(from) \in BOOLEAN
      <4>1. CASE from = NoKey
        BY <4>1, SMT DEF Found
      <4>2. CASE from # NoKey
        BY <4>2, SMT DEF Found
      <4> QED
        BY <4>1, <4>2
    <3>3. StartOf(from) # {} => Min(StartOf(from)) \in Keys
      BY <3>1, MinOfNaturals, KeysAssumption
    <3>4. asked' \in Asked /\ op' = [name |-> "ForEach", key |-> from, quiet |-> quiet]
      BY <2>4, AskedSequences DEF ForEachBegin
    <3>5. CASE StartOf(from) = {}
      BY <2>4, <3>4, <3>5, <2>10, ResultType DEF ForEachBegin
    <3>6. CASE StartOf(from) # {}
      <4>1. /\ visit' = [at |-> Min(StartOf(from)), from |-> from, quiet |-> quiet,
                         found |-> FALSE, expected |-> Found(from)]
            /\ result' = result
        BY <2>4, <3>6 DEF ForEachBegin
      <4>2. visit' \in Visits
        BY <3>2, <3>3, <3>6, <4>1 DEF Visits
      <4> QED
        BY <2>10, <3>4, <4>1, <4>2
    <3> QED
      BY <3>5, <3>6
  <2>5. ASSUME VisitTomb
        PROVE  visit' \in Visits \cup {NoKey} /\ asked' \in Asked /\ result' \in Results /\ op' = op
    <3>1. visit.found \in BOOLEAN /\ (~visit.found /\ visit.from = visit.at) \in BOOLEAN
      BY <2>5, <2>10 DEF VisitTomb, Visits
    <3>2. visit' \in Visits \cup {NoKey} /\ result' \in Results
      BY <2>5, <3>1, ProceedType, Zenon DEF VisitTomb
    <3> QED
      BY <2>5, <3>2, AskedSequences DEF VisitTomb
  <2>6. ASSUME NEW v \in Stored, NEW stop \in BOOLEAN, VisitAssign(v, stop)
        PROVE  visit' \in Visits \cup {NoKey} /\ asked' \in Asked /\ result' \in Results /\ op' = op
    <3>1. visit' \in Visits \cup {NoKey} /\ result' \in Results
      BY <2>6, ProceedType DEF VisitAssign
    <3>2. Answers(visit.quiet) \subseteq BOOLEAN
      BY DEF Answers
    <3>3. visit.at \in Keys /\ values[visit.at] \in Stored /\ op' = op
      BY <2>6, <2>b, <2>c DEF VisitAssign
    <3>4. \/ asked' = <<>>
          \/ \E answer \in Answers(visit.quiet) :
               asked' = Asking(visit.quiet, visit.at, values[visit.at], v, answer)
      BY <2>6, Zenon DEF VisitAssign
    <3> QED
      BY <3>1, <3>2, <3>3, <3>4, AskingType, AskedSequences
  <2>7. ASSUME NEW stop \in BOOLEAN, VisitErase(stop)
        PROVE  visit' \in Visits \cup {NoKey} /\ asked' \in Asked /\ result' \in Results /\ op' = op
    <3>1. visit' \in Visits \cup {NoKey} /\ result' \in Results
      BY <2>7, ProceedType DEF VisitErase
    <3>2. Answers(visit.quiet) \subseteq BOOLEAN
      BY DEF Answers
    <3>3. visit.at \in Keys /\ values[visit.at] \in Stored
      BY <2>7, <2>b, <2>c DEF VisitErase
    <3>4. PICK first \in Answers(visit.quiet), second \in Answers(visit.quiet) :
            asked' = Asking(visit.quiet, visit.at, values[visit.at], Untimed, first)
                     \o IF first /\ ~Same(values[visit.at], Erased)
                        THEN Asking(visit.quiet, visit.at, values[visit.at], Erased, second)
                        ELSE <<>>
      BY <2>7, Zenon DEF VisitErase
    <3>5. /\ Asking(visit.quiet, visit.at, values[visit.at], Untimed, first) \in Asked
          /\ Asking(visit.quiet, visit.at, values[visit.at], Erased, second) \in Asked
          /\ <<>> \in Asked
      BY <3>2, <3>3, AskingType, AskedSequences
    <3>6. asked' \in Asked
      BY <3>4, <3>5, AskedSequences
    <3> QED
      BY <2>7, <3>1, <3>6 DEF VisitErase
  <2>8. ASSUME Clear
        PROVE  /\ visit' = visit /\ asked' \in Asked /\ result' \in Results
               /\ op' = [name |-> "Clear", key |-> NoKey, quiet |-> TRUE]
    BY <2>8, ResultType, AskedSequences DEF Clear
  <2>9. CASE UNCHANGED vars
    BY <2>9, <2>10 DEF vars
  <2>11. \A n \in {"Set", "Erase", "Emplace", "Clear", "ForEach"},
            k \in Keys \cup {NoKey}, quiet \in BOOLEAN :
            [name |-> n, key |-> k, quiet |-> quiet] \in Operations
    BY DEF Operations
  <2> QED
    BY <2>1, <2>2, <2>3, <2>4, <2>5, <2>6, <2>7, <2>8, <2>9, <2>10, <2>11, ZenonT(40) DEF Next
<1> QED
  BY <1>1, <1>2, AlwaysCounted, PTL DEF Spec

-----------------------------------------------------------------------------
(* Sequential indexes: the place of a key among those of a finite set is   *)
(* the number of smaller ones.                                             *)

Below(S, k) == {j \in S : j < k}
Place(S, k) == Cardinality(Below(S, k))

LEMMA PlacesGrow ==
  ASSUME NEW S \in SUBSET Nat, IsFiniteSet(S), NEW k \in S
  PROVE  /\ Place(S, k) \in 0 .. Cardinality(S) - 1
         /\ \A m \in S : k < m => Place(S, k) < Place(S, m)
<1>1. IsFiniteSet(Below(S, k)) /\ Place(S, k) \in Nat
  BY FS_Subset, FS_CardinalityType DEF Below, Place
<1>2. k \notin Below(S, k)
  BY DEF Below
<1>3. Cardinality(Below(S, k) \cup {k}) = Place(S, k) + 1
  BY <1>1, <1>2, FS_AddElement DEF Place
<1>4. ASSUME NEW T, T \subseteq S, k \in T, Below(S, k) \subseteq T
      PROVE  Place(S, k) + 1 <= Cardinality(T)
  <2>1. IsFiniteSet(T)
    BY <1>4, FS_Subset
  <2>2. Below(S, k) \cup {k} \in SUBSET T
    BY <1>4
  <2>3. Cardinality(Below(S, k) \cup {k}) <= Cardinality(T)
    BY <2>1, <2>2, FS_Subset
  <2> QED
    BY <1>3, <2>3
<1>5. Place(S, k) + 1 <= Cardinality(S) /\ Cardinality(S) \in Nat
  BY <1>4, FS_CardinalityType DEF Below
<1>6. ASSUME NEW m \in S, k < m
      PROVE  Place(S, k) < Place(S, m)
  <2>1. Below(S, m) \subseteq S /\ k \in Below(S, m)
    BY <1>6 DEF Below
  <2>2. Below(S, k) \subseteq Below(S, m)
    <3> SUFFICES ASSUME NEW j \in S, j < k PROVE j < m
      BY DEF Below
    <3>1. j \in Nat /\ k \in Nat /\ m \in Nat
      OBVIOUS
    <3> QED
      BY <1>6, <3>1
  <2>3. Place(S, k) + 1 <= Place(S, m)
    BY <1>4, <2>1, <2>2 DEF Place
  <2>4. Place(S, m) \in Nat
    BY <2>1, FS_Subset, FS_CardinalityType DEF Place
  <2> QED
    BY <1>1, <2>3, <2>4
<1> QED
  BY <1>1, <1>5, <1>6

(* Each place has its key, and only one. *)
LEMMA PlacesAreTaken ==
  ASSUME NEW S \in SUBSET Nat, IsFiniteSet(S), NEW i \in 0 .. Cardinality(S) - 1
  PROVE  \E k \in S : {m \in S : Place(S, m) = i} = {k}
<1> DEFINE n == Cardinality(S)
           T == 0 .. n - 1
           f == [k \in S |-> Place(S, k)]
<1>1. n \in Nat
  BY FS_CardinalityType
<1>2. IsFiniteSet(T) /\ Cardinality(T) = n
  <2>1. ASSUME NEW m \in Int
        PROVE  IsFiniteSet(0 .. m) /\ Cardinality(0 .. m) = IF 0 > m THEN 0 ELSE m - 0 + 1
    BY FS_Interval
  <2> QED
    BY <1>1, <2>1
<1>3. f \in [S -> T]
  BY PlacesGrow
<1>4. ASSUME NEW k \in S, NEW m \in S, Place(S, k) = Place(S, m)
      PROVE  k = m
  <2>1. ~(k < m) /\ ~(m < k)
    <3>1. Place(S, k) \in Int
      BY PlacesGrow
    <3> QED
      BY <1>4, <3>1, PlacesGrow
  <2>2. k \in Nat /\ m \in Nat
    OBVIOUS
  <2> QED
    BY <2>1, <2>2
<1>5. f \in Injection(S, T)
  BY <1>3, <1>4 DEF Injection, IsInjective
<1>6. f \in Surjection(S, T)
  BY <1>2, <1>5, FS_Injection
<1>7. PICK k \in S : f[k] = i
  BY <1>6 DEF Surjection
<1> QED
  BY <1>4, <1>7

(* The key at an index is the visible key in that place. *)
LEMMA IndexedKey ==
  ASSUME Counted, NEW i \in 0 .. Size - 1
  PROVE  ContainerKey(i) \in Visible /\ Place(Visible, ContainerKey(i)) = i
<1>1. Visible \in SUBSET Nat /\ IsFiniteSet(Visible) /\ Size = Cardinality(Visible)
  BY FiniteEntries, KeysAssumption DEF Visible, Entries, Size, Counted, CountsTombs
<1> DEFINE at == {k \in Visible : Cardinality({j \in Visible : j < k}) = i}
<1>2. PICK k \in Visible : at = {k}
  BY <1>1, PlacesAreTaken DEF Place, Below
<1>3. Min({k}) = k
  BY <1>1, MinOfNaturals
<1>4. i # -2
  BY <1>1, FS_CardinalityType
<1>5. ContainerKey(i) = k
  BY <1>2, <1>3, <1>4 DEF ContainerKey
<1> QED
  BY <1>2, <1>5 DEF Place, Below

LEMMA IndexesReach == Counted => IndexReachesVisible
<1> SUFFICES ASSUME Counted
             PROVE  IndexReachesVisible
  OBVIOUS
<1>1. /\ Visible \in SUBSET Nat /\ IsFiniteSet(Visible)
      /\ Size = Cardinality(Visible) /\ Size \in Nat
  BY FiniteEntries, FS_CardinalityType, KeysAssumption DEF Visible, Entries, Size, Counted, CountsTombs
<1>2. \A i \in 0 .. Size - 1 : ContainerKey(i) \in Visible /\ Place(Visible, ContainerKey(i)) = i
  BY IndexedKey
<1>3. ASSUME NEW k \in Visible
      PROVE  /\ Place(Visible, k) \in 0 .. Size - 1
             /\ \A m \in Visible : k < m => Place(Visible, k) < Place(Visible, m)
  BY <1>1, PlacesGrow
<1>4. ASSUME NEW k \in Visible
      PROVE  ContainerKey(Place(Visible, k)) = k
  <2> DEFINE m == ContainerKey(Place(Visible, k))
  <2>1. m \in Visible /\ Place(Visible, m) = Place(Visible, k)
    BY <1>2, <1>3
  <2>2. Place(Visible, k) \in Int
    BY <1>1, <1>3
  <2> HIDE DEF m
  <2>3. m \in Nat /\ k \in Nat
    BY <1>1, <2>1
  <2>4. ~(k < m) /\ ~(m < k)
    BY <1>3, <2>1, <2>2
  <2> QED
    BY <2>3, <2>4 DEF m
<1>5. ASSUME NEW i \in 0 .. Size - 1, NEW j \in 0 .. Size - 1, i < j
      PROVE  ContainerKey(i) < ContainerKey(j)
  <2> DEFINE k == ContainerKey(i)
             m == ContainerKey(j)
  <2>1. k \in Visible /\ Place(Visible, k) = i /\ m \in Visible /\ Place(Visible, m) = j
    BY <1>2
  <2>2. k \in Nat /\ m \in Nat
    BY <1>1, <2>1
  <2> HIDE DEF k, m
  <2>3. k # m /\ ~(m < k)
    BY <1>3, <1>5, <2>1
  <2> QED
    BY <2>2, <2>3 DEF k, m
<1>6. ContainerKey(-2) = IF Visible = {} THEN NoKey ELSE Max(Visible)
  <2>1. CASE Visible = {}
    <3>1. Size = 0
      BY <1>1, <2>1, FS_EmptySet
    <3> QED
      BY <2>1, <3>1 DEF ContainerKey
  <2>2. CASE Visible # {}
    <3> DEFINE i == Size - 1
               last == ContainerKey(i)
    <3>1. Size > 0
      BY <1>1, <2>2, FS_EmptySet
    <3>2. i \in 0 .. Size - 1
      BY <1>1, <3>1
    <3>3. ContainerKey(-2) = last
      <4>1. i # -2
        BY <1>1
      <4> QED
        BY <3>1, <4>1 DEF ContainerKey
    <3>4. last \in Visible /\ Place(Visible, last) = i
      BY <1>2, <3>2
    <3> HIDE DEF last
    <3>5. \A k \in Visible : last >= k
      <4> TAKE k \in Visible
      <4>1. ~(last < k)
        BY <1>1, <1>3, <3>4
      <4> QED
        BY <1>1, <3>4, <4>1
    <3>6. \A m \in Visible : (\A k \in Visible : m >= k) => m = last
      BY <1>1, <3>4, <3>5
    <3>7. Max(Visible) = last
      BY <3>4, <3>5, <3>6 DEF Max
    <3> QED
      BY <2>2, <3>3, <3>7
  <2> QED
    BY <2>1, <2>2
<1>7. {ContainerKey(i) : i \in 0 .. Size - 1} = Visible
  BY <1>2, <1>3, <1>4
<1> QED
  BY <1>2, <1>5, <1>6, <1>7 DEF IndexReachesVisible

(* The sequential indexes below Size() reach every visible key and no      *)
(* other, in the order of the map, and kIdxLast the last of them, whatever *)
(* was erased, emplaced or cleared before: ContainerKey skips tombstones,  *)
(* while the bound it checks the index against is the count.               *)
THEOREM IndexesAlwaysReach == Spec => []IndexReachesVisible
  BY AlwaysCounted, IndexesReach, PTL

-----------------------------------------------------------------------------
(* The changing ForEach and the change callback.                           *)

(* What a walk knows of the map until it finds something: that it has      *)
(* passed nothing but tombstones.                                          *)
WalkSound ==
  visit # NoKey =>
    /\ op.quiet = visit.quiet
    /\ visit.at \in Entries
    /\ visit.found => visit.expected
    /\ ~visit.found =>
         /\ visit.expected = Found(visit.from)
         /\ visit.from # NoKey => visit.at = visit.from
         /\ visit.from = NoKey => \A k \in Entries : k < visit.at => k \in Tombs

(* A write never takes an entry out of the map. *)
LEMMA EntriesStay ==
  ASSUME TypeOK, NEW k \in Keys, NEW v \in Stored, NEW allowed \in BOOLEAN, Write(k, v, allowed)
  PROVE  Entries \subseteq Entries'
<1>1. v # NoEntry /\ values \in [Keys -> Stored \cup {NoEntry}]
  BY ContentsAssumption DEF TypeOK
<1> QED
  BY <1>1 DEF Write, Entries

(* What a step of a walk makes of it: it goes on at the next entry, with   *)
(* nothing between, or ends and returns whether it has found something.    *)
Goes(found, stop) ==
  \/ visit' = NoKey /\ result'.done = found /\ (stop \/ \A k \in Entries : k <= visit.at)
  \/ /\ visit' \in Visits /\ visit' # NoKey
     /\ visit'.found = found /\ visit'.expected = visit.expected
     /\ visit'.from = visit.from /\ visit'.quiet = visit.quiet
     /\ ~stop /\ visit'.at \in Entries
     /\ \A k \in Entries : k < visit'.at => k <= visit.at

LEMMA ProceedGoes ==
  ASSUME TypeOK, visit # NoKey, NEW found \in BOOLEAN, NEW stop \in BOOLEAN, Proceed(found, stop)
  PROVE  Goes(found, stop)
<1> DEFINE later == {k \in Entries : k > visit.at}
<1>1. Entries \subseteq Nat /\ visit \in Visits /\ visit.at \in Nat /\ later \subseteq Entries
  BY KeysAssumption DEF Entries, TypeOK, Visits
<1>2. CASE stop \/ later = {}
  <2>1. later = {} => \A k \in Entries : k <= visit.at
    BY <1>1
  <2> QED
    BY <1>2, <2>1 DEF Proceed, Goes, Return
<1>3. CASE ~(stop \/ later = {})
  <2>1. Min(later) \in later /\ \A k \in later : Min(later) <= k
    BY <1>1, <1>3, MinOfNaturals
  <2>2. Min(later) \in Entries /\ \A k \in Entries : k < Min(later) => k <= visit.at
    <3> PICK m : m = Min(later)
      OBVIOUS
    <3>1. m \in Entries /\ \A k \in Entries : k > visit.at => m <= k
      BY <2>1
    <3>2. ASSUME NEW k \in Entries, k < m
          PROVE  k <= visit.at
      <4>1. k \in Nat /\ m \in Nat /\ ~(k > visit.at)
        BY <1>1, <3>1, <3>2
      <4> QED
        BY <1>1, <4>1
    <3> QED
      BY <3>1, <3>2
  <2>3. Min(later) \in Keys
    BY <2>2 DEF Entries
  <2>4. visit' = [visit EXCEPT !.at = Min(later), !.found = found]
    BY <1>3 DEF Proceed
  <2> HIDE DEF later
  <2>5. /\ visit' \in Visits /\ visit'.at = Min(later) /\ visit'.found = found
        /\ visit'.expected = visit.expected /\ visit'.from = visit.from /\ visit'.quiet = visit.quiet
    BY <1>1, <2>3, <2>4 DEF Visits
  <2>6. visit' # NoKey
    BY <2>5, KeysAssumption
  <2> QED
    BY <1>3, <2>2, <2>5, <2>6 DEF Goes
<1> QED
  BY <1>2, <1>3

(* A step at a visible item: it has been found.                            *)
LEMMA FindsSound ==
  ASSUME TypeOK, WalkSound, visit # NoKey, visit.at \in Visible,
         Entries \subseteq Entries', op' = op, NEW stop \in BOOLEAN, Goes(TRUE, stop)
  PROVE  WalkSound' /\ (visit' = NoKey => result'.done = visit.expected)
<1>1. visit \in Visits /\ visit.expected \in BOOLEAN
  BY DEF TypeOK, Visits
<1>2. visit.expected
  <2>1. ~visit.found => Found(visit.from)
    BY DEF WalkSound, Found
  <2> QED
    BY <1>1, <2>1 DEF WalkSound
<1>3. CASE visit' = NoKey
  BY <1>1, <1>2, <1>3 DEF WalkSound, Goes
<1>4. CASE visit' # NoKey
  BY <1>1, <1>2, <1>4 DEF WalkSound, Goes
<1> QED
  BY <1>3, <1>4

(* A step at a tombstone: nothing more has been found.                     *)
LEMMA PassesSound ==
  ASSUME TypeOK, WalkSound, visit # NoKey, visit.at \in Tombs, UNCHANGED <<values, op>>,
         Goes(visit.found, ~visit.found /\ visit.from = visit.at)
  PROVE  WalkSound' /\ (visit' = NoKey => result'.done = visit.expected)
<1>1. /\ visit \in Visits /\ visit.expected \in BOOLEAN /\ visit.found \in BOOLEAN
      /\ visit.at \in Keys /\ visit.from \in Keys \cup {NoKey} /\ Keys \subseteq Nat
      /\ NoKey \notin Keys
  BY KeysAssumption DEF TypeOK, Visits
<1>2. Entries' = Entries /\ Tombs' = Tombs /\ Visible' = Visible /\ Entries \subseteq Keys
  BY DEF Entries, Tombs, Visible
<1>3. CASE visit.found
  BY <1>1, <1>2, <1>3 DEF WalkSound, Goes
<1>4. CASE ~visit.found /\ visit.from # NoKey
  <2>1. visit.at = visit.from /\ visit.expected = Found(visit.from)
    BY <1>4 DEF WalkSound
  <2>2. visit.expected = FALSE
    BY <1>1, <1>4, <2>1 DEF Found, Visible
  <2>3. visit' = NoKey /\ result'.done = visit.found
    BY <1>4, <2>1 DEF Goes
  <2> QED
    BY <1>1, <1>4, <2>2, <2>3 DEF WalkSound
<1>5. CASE ~visit.found /\ visit.from = NoKey
  <2>1. visit.expected = (Visible # {}) /\ visit.from # visit.at
    BY <1>1, <1>5 DEF WalkSound, Found
  <2>2. \A k \in Entries : k <= visit.at => k \in Tombs
    <3> TAKE k \in Entries
    <3>1. k < visit.at => k \in Tombs
      BY <1>5 DEF WalkSound
    <3>2. k \in Nat /\ visit.at \in Nat
      BY <1>1, <1>2
    <3>3. k <= visit.at => k < visit.at \/ k = visit.at
      BY <3>2
    <3> QED
      BY <3>1, <3>3
  <2>3. CASE visit' = NoKey
    <3>1. result'.done = visit.found /\ \A k \in Entries : k <= visit.at
      BY <1>5, <2>1, <2>3 DEF Goes
    <3>2. Visible = {}
      BY <2>2, <3>1 DEF Visible
    <3> QED
      BY <1>1, <1>5, <2>1, <2>3, <3>1, <3>2 DEF WalkSound
  <2>4. CASE visit' # NoKey
    <3>1. /\ visit'.found = visit.found /\ visit'.expected = visit.expected
          /\ visit'.from = visit.from /\ visit'.quiet = visit.quiet
          /\ visit'.at \in Entries
          /\ \A k \in Entries : k < visit'.at => k <= visit.at
      BY <2>4 DEF Goes
    <3>2. visit'.from = NoKey /\ visit'.expected = (Visible' # {})
      BY <1>2, <1>5, <2>1, <3>1
    <3>3. visit'.expected = Found(visit.from)'
      BY <3>2 DEF Found
    <3>4. op'.quiet = visit'.quiet /\ visit'.at \in Entries' /\ ~visit'.found
      BY <1>2, <1>5, <3>1 DEF WalkSound
    <3>5. \A k \in Entries' : k < visit'.at => k \in Tombs'
      BY <1>2, <2>2, <3>1
    <3> QED
      BY <2>4, <3>2, <3>3, <3>4, <3>5 DEF WalkSound
  <2> QED
    BY <2>3, <2>4
<1> QED
  BY <1>3, <1>4, <1>5

LEMMA NoWalkStep ==
  ASSUME TypeOK, visit = NoKey, [Next]_vars
  PROVE  WalkSound'
<1>1. CASE \E from \in Keys \cup {NoKey}, quiet \in BOOLEAN : ForEachBegin(from, quiet)
  <2> PICK from \in Keys \cup {NoKey}, quiet \in BOOLEAN : ForEachBegin(from, quiet)
    BY <1>1
  <2>1. UNCHANGED values /\ Entries' = Entries /\ Tombs' = Tombs /\ Visible' = Visible
    BY DEF ForEachBegin, Entries, Tombs, Visible
  <2>2. op'.quiet = quiet
    BY DEF ForEachBegin, Operation
  <2>3. CASE StartOf(from) = {}
    BY <2>3 DEF ForEachBegin, WalkSound
  <2>4. CASE StartOf(from) # {}
    <3>1. StartOf(from) \subseteq Entries /\ Entries \subseteq Nat
      BY KeysAssumption DEF StartOf, Entries
    <3>2. Min(StartOf(from)) \in StartOf(from)
          /\ \A k \in StartOf(from) : Min(StartOf(from)) <= k
      BY <3>1, <2>4, MinOfNaturals
    <3> PICK m : m = Min(StartOf(from))
      OBVIOUS
    <3>3. visit' = [at |-> m, from |-> from, quiet |-> quiet,
                    found |-> FALSE, expected |-> Found(from)]
      BY <2>4 DEF ForEachBegin
    <3>4. m \in Entries /\ (from # NoKey => m = from)
      BY <3>1, <3>2 DEF StartOf
    <3>5. from = NoKey => \A k \in Entries : ~(k < m)
      <4>1. from = NoKey => \A k \in Entries : m <= k
        BY <3>2 DEF StartOf
      <4>2. \A k \in Entries : m \in Nat /\ k \in Nat
        BY <3>1, <3>4
      <4> QED
        BY <4>1, <4>2
    <3>6. visit'.from = from /\ visit'.expected = Found(from)
      BY <3>3
    <3>7. visit'.expected = Found(visit.from)'
      BY <2>1, <3>6 DEF Found
    <3> QED
      BY <2>1, <2>2, <3>3, <3>4, <3>5, <3>7 DEF WalkSound
  <2> QED
    BY <2>3, <2>4
<1>2. CASE visit' = NoKey
  BY <1>2 DEF WalkSound
<1> QED
  BY <1>1, <1>2 DEF Next, vars, Set, Emplace, Erase, Clear, VisitTomb, VisitAssign, VisitErase

(* Each step of a walk keeps what it knows, and the last one returns it.   *)
LEMMA WalkStep ==
  ASSUME TypeOK, WalkSound, visit # NoKey, [Next]_vars
  PROVE  WalkSound' /\ (visit' = NoKey => result'.done = visit.expected)
<1>1. visit \in Visits /\ visit.at \in Keys /\ visit.quiet \in BOOLEAN
  BY DEF TypeOK, Visits
<1>2. CASE VisitTomb
  <2>1. Goes(visit.found, ~visit.found /\ visit.from = visit.at)
    BY <1>1, <1>2, ProceedGoes DEF VisitTomb, Visits
  <2> QED
    BY <1>2, <2>1, PassesSound DEF VisitTomb
<1>3. ASSUME NEW v \in Stored, NEW stop \in BOOLEAN, VisitAssign(v, stop)
      PROVE  WalkSound' /\ (visit' = NoKey => result'.done = visit.expected)
  <2>1. Entries \subseteq Entries'
    <3>1. UNCHANGED values \/ \E answer \in BOOLEAN : Write(visit.at, v, answer)
      BY <1>1, <1>3 DEF VisitAssign, Answers
    <3>2. UNCHANGED values => Entries' = Entries
      BY DEF Entries
    <3> QED
      BY <1>1, <3>1, <3>2, EntriesStay
  <2>2. Goes(TRUE, stop)
    BY <1>3, ProceedGoes DEF VisitAssign
  <2> QED
    BY <1>3, <2>1, <2>2, FindsSound DEF VisitAssign
<1>4. ASSUME NEW stop \in BOOLEAN, VisitErase(stop)
      PROVE  WalkSound' /\ (visit' = NoKey => result'.done = visit.expected)
  <2>1. Entries \subseteq Entries'
    <3>1. \E allowed \in BOOLEAN : Write(visit.at, Erased, allowed)
      BY <1>4 DEF VisitErase
    <3> QED
      BY <1>1, <3>1, EntriesStay DEF Stored
  <2>2. Goes(TRUE, stop)
    BY <1>4, ProceedGoes DEF VisitErase
  <2> QED
    BY <1>4, <2>1, <2>2, FindsSound DEF VisitErase
<1>5. CASE UNCHANGED vars
  <2>1. Entries' = Entries /\ Tombs' = Tombs /\ Visible' = Visible
    BY <1>5 DEF vars, Entries, Tombs, Visible
  <2>2. Found(visit.from)' = Found(visit.from)
    BY <1>5, <2>1 DEF vars, Found
  <2> QED
    BY <1>5, <2>1, <2>2 DEF vars, WalkSound
<1> QED
  BY <1>2, <1>3, <1>4, <1>5
  DEF Next, Set, Emplace, Erase, Clear, ForEachBegin

LEMMA AlwaysWalkSound == Spec => []WalkSound
<1>1. Init => WalkSound
  BY DEF Init, WalkSound
<1>2. TypeOK /\ WalkSound /\ [Next]_vars => WalkSound'
  BY NoWalkStep, WalkStep
<1>3. Spec => []TypeOK
  BY TypeCorrect
<1> QED
  BY <1>1, <1>2, <1>3, PTL DEF Spec

(* The changing ForEach answers what was true when it began: it returns    *)
(* false exactly when nothing was visible, or the key to start from was    *)
(* absent or erased, whatever its callback changed and erased meanwhile.   *)
THEOREM ForEachReturnsTruth == Spec => ForEachFindsVisible
<1>1. TypeOK /\ WalkSound /\ [Next]_vars
      => (visit # NoKey /\ visit' = NoKey => result'.done = visit.expected)
  BY WalkStep
<1>2. Spec => []TypeOK
  BY TypeCorrect
<1>3. Spec => []WalkSound
  BY AlwaysWalkSound
<1> QED
  BY <1>1, <1>2, <1>3, PTL DEF Spec, ForEachFindsVisible

LEMMA OneQuestion ==
  ASSUME NEW q
  PROVE  DOMAIN <<q>> = {1} /\ <<q>>[1] = q /\ <<q>> # <<>>
OBVIOUS

(* One question, answered before the write it is about.                    *)
LEMMA AskedThenWritten ==
  ASSUME TypeOK, NEW k \in Keys, NEW v \in Stored, NEW answer \in BOOLEAN,
         asked' = Asking(FALSE, k, ValueAt(k), v, answer), Write(k, v, answer),
         NEW j \in Keys, values'[j] # values[j]
  PROVE  Approved(j)
<1>1. answer
  BY DEF Write
<1>2. j = k /\ values'[k] = v
  BY <1>1 DEF Write, TypeOK
<1> PICK q : q = [key |-> k, from |-> ValueAt(k), to |-> v, allowed |-> answer]
  OBVIOUS
<1>3. asked' = <<q>>
  BY DEF Asking
<1>4. DOMAIN asked' = {1} /\ asked'[1] = q /\ asked' # <<>>
  BY <1>3, OneQuestion
<1>5. q.key = k /\ q.allowed = answer /\ q.from = ValueAt(k) /\ q.to = v
  OBVIOUS
<1>6. \A x : Same(x, x)
  BY DEF Same
<1>7. asked'[1].allowed /\ asked'[1].key = j
      /\ asked'[1].from = ValueAt(j) /\ asked'[1].to = values'[j]
  BY <1>1, <1>2, <1>4, <1>5
<1> QED
  BY <1>4, <1>6, <1>7 DEF Approved

(* The two questions of an erasure during a walk: the one of the derived   *)
(* ForEach, for the empty value, and the one of DetectErase_.              *)
LEMMA AskedTwiceThenErased ==
  ASSUME TypeOK, WalkSound, visit # NoKey, ~op.quiet, NEW stop \in BOOLEAN, VisitErase(stop),
         NEW j \in Keys, values'[j] # values[j]
  PROVE  Approved(j)
<1>1. visit \in Visits /\ visit.quiet = FALSE /\ visit.at \in Entries
  BY DEF WalkSound, TypeOK, Visits
<1> PICK k : k = visit.at
  OBVIOUS
<1>2. k \in Keys /\ ValueAt(k) = values[k]
  BY <1>1 DEF Entries, ValueAt
<1>3. PICK first \in BOOLEAN, second \in BOOLEAN :
        /\ asked' = Asking(FALSE, k, values[k], Untimed, first)
                      \o IF first /\ ~Same(values[k], Erased)
                         THEN Asking(FALSE, k, values[k], Erased, second)
                         ELSE <<>>
        /\ Write(k, Erased, first /\ ~Same(values[k], Erased) /\ second)
  BY <1>1 DEF VisitErase, Answers
<1>4. first /\ ~Same(values[k], Erased) /\ second
  BY <1>3 DEF Write
<1>5. j = k /\ values'[k] = Erased
  BY <1>2, <1>3, <1>4 DEF Write, TypeOK
<1> PICK p : p = [key |-> k, from |-> values[k], to |-> Untimed, allowed |-> first]
  OBVIOUS
<1> PICK q : q = [key |-> k, from |-> values[k], to |-> Erased, allowed |-> second]
  OBVIOUS
<1>6. asked' = <<p>> \o <<q>>
  BY <1>3, <1>4 DEF Asking
<1>7. DOMAIN asked' = {1, 2} /\ asked'[1] = p /\ asked'[2] = q /\ asked' # <<>>
  BY <1>6
<1>8. p.key = k /\ p.allowed = first /\ p.from = values[k] /\ p.to = Untimed
  OBVIOUS
<1>9. q.key = k /\ q.allowed = second /\ q.from = values[k] /\ q.to = Erased
  OBVIOUS
<1>10. \A i \in DOMAIN asked' :
         /\ asked'[i].key = k /\ asked'[i].allowed /\ asked'[i].from = values[k]
         /\ asked'[i].to \in {Untimed, Erased}
  BY <1>4, <1>7, <1>8, <1>9
<1> QED
  BY <1>2, <1>5, <1>7, <1>10 DEF Approved, Same

LEMMA ApprovedStep ==
  ASSUME TypeOK, WalkSound, [Next]_vars, NEW j \in Keys, values'[j] # values[j], ~op'.quiet
  PROVE  Approved(j)
<1>1. ASSUME NEW k \in Keys, NEW v \in Stored, NEW quiet \in BOOLEAN, ~quiet, Store(k, v, quiet)
      PROVE  Approved(j)
  <2>1. PICK answer \in BOOLEAN :
          asked' = Asking(FALSE, k, ValueAt(k), v, answer) /\ Write(k, v, answer)
    BY <1>1 DEF Store, Answers
  <2> QED
    BY <2>1, AskedThenWritten
<1>2. ASSUME NEW k \in Keys, NEW v \in Given, Set(k, v)
      PROVE  Approved(j)
  BY <1>1, <1>2 DEF Set
<1>3. ASSUME NEW k \in Keys, NEW v \in Given, Emplace(k, v)
      PROVE  Approved(j)
  <2>1. PICK answer \in BOOLEAN :
          asked' = Asking(FALSE, k, ValueAt(k), v, answer) /\ Write(k, v, answer)
    BY <1>3 DEF Emplace, ValueAt
  <2> QED
    BY <2>1, AskedThenWritten
<1>4. ASSUME NEW k \in Keys, NEW quiet \in BOOLEAN, Erase(k, quiet)
      PROVE  Approved(j)
  <2>1. ~quiet
    BY <1>4 DEF Erase, Operation
  <2> QED
    BY <1>1, <1>4, <2>1 DEF Erase
<1>5. ASSUME NEW v \in Stored, NEW stop \in BOOLEAN, VisitAssign(v, stop)
      PROVE  Approved(j)
  <2>1. visit \in Visits /\ visit.quiet = FALSE /\ visit.at \in Entries
    BY <1>5 DEF VisitAssign, WalkSound, TypeOK, Visits
  <2>2. visit.at \in Keys /\ ValueAt(visit.at) = values[visit.at]
    BY <2>1 DEF Entries, ValueAt
  <2>3. PICK answer \in BOOLEAN :
          /\ asked' = Asking(FALSE, visit.at, ValueAt(visit.at), v, answer)
          /\ Write(visit.at, v, answer)
    BY <1>5, <2>1, <2>2 DEF VisitAssign, Answers
  <2> QED
    BY <2>2, <2>3, AskedThenWritten
<1>6. ASSUME NEW stop \in BOOLEAN, VisitErase(stop)
      PROVE  Approved(j)
  BY <1>6, AskedTwiceThenErased DEF VisitErase
<1>7. ASSUME Clear
      PROVE  FALSE
  <2>1. op' = [name |-> "Clear", key |-> NoKey, quiet |-> TRUE]
    BY <1>7 DEF Clear, Operation
  <2> QED
    BY <2>1
<1> QED
  BY <1>2, <1>3, <1>4, <1>5, <1>6, <1>7 DEF Next, vars, ForEachBegin, VisitTomb

(* With a change callback in place no key changes unless the callback was  *)
(* asked about that key, its old and its new value, and allowed every      *)
(* question of the step; an erasure during a walk asks two.                *)
THEOREM ApprovedChanges == Spec => ChangedOnlyIfApproved
<1>1. TypeOK /\ WalkSound /\ [Next]_vars
      => \A k \in Keys : values'[k] # values[k] /\ ~op'.quiet => Approved(k)
  BY ApprovedStep
<1>2. Spec => []TypeOK
  BY TypeCorrect
<1>3. Spec => []WalkSound
  BY AlwaysWalkSound
<1> QED
  BY <1>1, <1>2, <1>3, PTL DEF Spec, ChangedOnlyIfApproved
=============================================================================
