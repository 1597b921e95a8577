------------------------ MODULE ChangeCallbacks_proofs ------------------------
(***************************************************************************)
(* Proofs about ChangeCallbacks, for any functions, ids and callers.       *)
(***************************************************************************)
EXTENDS ChangeCallbacks, TLAPS

(* The callbacks up to id n, as they were asked or told to roll back. *)
UpTo(n) == {p \in Ids \X Callbacks : p[1] <= n /\ callbacks_map[p[1]] = p[2]}

(* While the lock is held the histories are initial segments of the map. *)
Segments ==
  /\ step = "asking" => failed_uid = 0 /\ undone = {} /\ asked = UpTo(at)
  /\ step = "undoing" =>
       /\ failed_uid \in Registered /\ at < failed_uid
       /\ asked = UpTo(failed_uid) /\ undone = UpTo(at)

RollbackInv == TypeOK /\ Segments /\ RollbackIsExact /\ NoDiscardIsApproved

(* No registered id is beyond the last uid, nor is one that is still to be *)
(* dropped; what such an id names has answered nullopt.                    *)
IdsGiven == \A i \in Registered : i <= uid
ExpiredAnswered ==
  step # "idle" =>
    /\ \A i \in expired : i <= uid
    /\ Registered \cap expired \subseteq gone

ExpiryInv == TypeOK /\ IdsGiven /\ ExpiredAnswered

-----------------------------------------------------------------------------
LEMMA TypeInit == Init => TypeOK
<1> SUFFICES ASSUME Init PROVE TypeOK
  OBVIOUS
<1>1. no_discard \in BOOLEAN
  BY Zenon DEF Init
<1>2. 0 \in 0..MaxId
  BY CallbacksAssumption
<1> QED
  BY <1>1, <1>2 DEF Init, TypeOK, Ids

LEMMA TypeStep == TypeOK /\ [Next]_vars => TypeOK'
<1> SUFFICES ASSUME TypeOK, [Next]_vars PROVE TypeOK'
  OBVIOUS
<1> USE DEF TypeOK, Ids, registry, change
<1>1. CASE \E f \in Callbacks : OnChangeAddOwn(f)
  BY <1>1 DEF OnChangeAddOwn, Register
<1>2. CASE \E f \in Callbacks : OnChangeAddNew(f)
  BY <1>2 DEF OnChangeAddNew, Register
<1>3. CASE \E i \in Ids : OnChangeRemove(i)
  BY <1>3 DEF OnChangeRemove
<1>4. CASE OnChangeReset
  BY <1>4 DEF OnChangeReset
<1>5. CASE \E nd \in BOOLEAN : Begin(nd)
  <2>1. (no_discard \in BOOLEAN)'
    BY <1>5, Zenon DEF Begin
  <2>2. 0 \in 0..MaxId
    BY CallbacksAssumption
  <2> QED
    BY <1>5, <2>1, <2>2 DEF Begin
<1>6. ASSUME NEW i \in Ids, Agree(i) \/ AnswerNullopt(i) \/ Refuse(i) \/ Rollback(i)
      PROVE  TypeOK'
  <2>1. <<i, callbacks_map[i]>> \in Ids \X Callbacks
    BY <1>6 DEF Agree, AnswerNullopt, Refuse, Rollback, IsNext, Registered
  <2>2. i \in 0..MaxId /\ 0 \in 0..MaxId
    BY CallbacksAssumption
  <2>3. CASE Agree(i)
    BY <2>1, <2>2, <2>3 DEF Agree, Tell
  <2>4. CASE AnswerNullopt(i)
    BY <2>1, <2>2, <2>4 DEF AnswerNullopt, Tell
  <2>5. CASE Refuse(i)
    BY <2>1, <2>2, <2>5 DEF Refuse, Tell
  <2>6. CASE Rollback(i)
    BY <2>1, <2>2, <2>6 DEF Rollback
  <2> QED
    BY <1>6, <2>3, <2>4, <2>5, <2>6
<1>7. CASE Unlock
  BY <1>7 DEF Unlock
<1>8. CASE RemoveExpired
  BY <1>8 DEF RemoveExpired
<1>9. CASE UNCHANGED vars
  BY <1>9 DEF vars
<1> QED
  BY <1>1, <1>2, <1>3, <1>4, <1>5, <1>6, <1>7, <1>8, <1>9 DEF Next, Proceed

(* Every value of the registry and of a change in progress keeps its type, *)
(* for any number of callbacks and ids.                                    *)
THEOREM TypeCorrect == Spec => []TypeOK
  BY TypeInit, TypeStep, PTL DEF Spec

-----------------------------------------------------------------------------
(* The callback told next extends the segment by itself. *)
LEMMA NextExtends ==
  ASSUME TypeOK, NEW i \in Ids, IsNext(i)
  PROVE  UpTo(i) = UpTo(at) \cup {<<i, callbacks_map[i]>>}
<1>1. <<i, callbacks_map[i]>> \in Ids \X Callbacks
  BY DEF IsNext, Registered, TypeOK
<1>2. ASSUME NEW p \in Ids \X Callbacks
      PROVE  p \in UpTo(i) <=> p \in UpTo(at) \/ p = <<i, callbacks_map[i]>>
  <2>1. PICK j \in Ids, f \in Callbacks : p = <<j, f>>
    BY <1>2
  <2>2. callbacks_map[j] = f => j \in Registered
    BY CallbacksAssumption DEF Registered
  <2>3. j \in Registered => (j <= i <=> j <= at \/ j = i)
    BY DEF IsNext, TypeOK, Ids
  <2> QED
    BY <2>1, <2>2, <2>3 DEF UpTo
<1> QED
  BY <1>1, <1>2 DEF UpTo

LEMMA NobodyUpToZero == UpTo(0) = {}
  BY DEF UpTo, Ids

LEMMA RollbackInit == Init => RollbackInv
  BY TypeInit DEF Init, RollbackInv, Segments, RollbackIsExact, NoDiscardIsApproved

LEMMA RollbackStep == RollbackInv /\ [Next]_vars => RollbackInv'
<1> SUFFICES ASSUME RollbackInv, [Next]_vars
             PROVE  (Segments /\ RollbackIsExact /\ NoDiscardIsApproved)'
  BY TypeStep DEF RollbackInv
<1> USE DEF RollbackInv
<1>1. CASE UNCHANGED change /\ ~Locked
  BY <1>1 DEF change, Locked, Segments, RollbackIsExact, NoDiscardIsApproved
<1>2. CASE \E nd \in BOOLEAN : Begin(nd)
  <2>1. UpTo(at)' = {}
    BY <1>2 DEF Begin, UpTo, Ids
  <2> QED
    BY <1>2, <2>1 DEF Begin, Segments, RollbackIsExact, NoDiscardIsApproved, Locked
<1>3. ASSUME NEW i \in Ids, Agree(i) \/ AnswerNullopt(i)
      PROVE  (Segments /\ RollbackIsExact /\ NoDiscardIsApproved)'
  <2>1. UpTo(i) = UpTo(at) \cup {<<i, callbacks_map[i]>>}
    BY <1>3, NextExtends DEF Agree, AnswerNullopt
  <2>2. UpTo(at)' = UpTo(i)
    BY <1>3 DEF Agree, AnswerNullopt, UpTo, registry
  <2> QED
    BY <1>3, <2>1, <2>2 DEF Agree, AnswerNullopt, Tell, Segments, RollbackIsExact,
       NoDiscardIsApproved, Locked
<1>4. ASSUME NEW i \in Ids, Refuse(i)
      PROVE  (Segments /\ RollbackIsExact /\ NoDiscardIsApproved)'
  <2>1. UpTo(i) = UpTo(at) \cup {<<i, callbacks_map[i]>>}
    BY <1>4, NextExtends DEF Refuse
  <2>2. UpTo(failed_uid)' = UpTo(i) /\ UpTo(at)' = {}
    BY <1>4 DEF Refuse, UpTo, registry, Ids
  <2>3. (failed_uid \in Registered /\ at < failed_uid)'
    BY <1>4 DEF Refuse, IsNext, Registered, registry, Ids
  <2> QED
    BY <1>4, <2>1, <2>2, <2>3 DEF Refuse, Tell, Segments, RollbackIsExact,
       NoDiscardIsApproved, Locked
<1>5. ASSUME NEW i \in Ids, Rollback(i)
      PROVE  (Segments /\ RollbackIsExact /\ NoDiscardIsApproved)'
  <2>1. UpTo(i) = UpTo(at) \cup {<<i, callbacks_map[i]>>}
    BY <1>5, NextExtends DEF Rollback
  <2>2. UpTo(at)' = UpTo(i) /\ UpTo(failed_uid)' = UpTo(failed_uid)
    BY <1>5 DEF Rollback, UpTo, registry
  <2>3. (failed_uid \in Registered /\ at < failed_uid)'
    BY <1>5 DEF Rollback, IsNext, Segments, Registered, registry, TypeOK, Ids
  <2> QED
    BY <1>5, <2>1, <2>2, <2>3 DEF Rollback, Segments, RollbackIsExact,
       NoDiscardIsApproved, Locked
<1>6. CASE Unlock
  <2>1. undone = IF failed_uid = 0 THEN {} ELSE {p \in asked : p[1] # failed_uid}
    <3>1. CASE step = "asking"
      BY <1>6, <3>1 DEF Unlock, Segments
    <3>2. CASE step = "undoing"
      <4>1. ASSUME NEW p \in Ids \X Callbacks
            PROVE  p \in UpTo(at) <=> p \in UpTo(failed_uid) /\ p[1] # failed_uid
        <5>1. PICK j \in Ids, f \in Callbacks : p = <<j, f>>
          BY <4>1
        <5>2. callbacks_map[j] = f => j \in Registered
          BY CallbacksAssumption DEF Registered
        <5>3. j \in Registered => (j <= at <=> j <= failed_uid /\ j # failed_uid)
          BY <1>6, <3>2 DEF Unlock, Segments, TypeOK, Ids
        <5> QED
          BY <5>1, <5>2, <5>3 DEF UpTo
      <4>2. failed_uid # 0
        BY <3>2 DEF Segments, Registered, Ids
      <4> QED
        BY <3>2, <4>1, <4>2 DEF Segments, UpTo
    <3> QED
      BY <1>6, <3>1, <3>2 DEF Unlock
  <2> QED
    BY <1>6, <2>1 DEF Unlock, Segments, RollbackIsExact, NoDiscardIsApproved
<1>7. CASE RemoveExpired
  BY <1>7 DEF RemoveExpired, Segments, RollbackIsExact, NoDiscardIsApproved, Locked
<1>8. CASE UNCHANGED vars
  <2> (UpTo(at)' = UpTo(at)) /\ (UpTo(failed_uid)' = UpTo(failed_uid))
    BY <1>8 DEF vars, registry, change, UpTo
  <2> QED
    BY <1>8 DEF vars, registry, change, Segments, RollbackIsExact, NoDiscardIsApproved,
       Locked, Registered
<1> QED
  BY <1>1, <1>2, <1>3, <1>4, <1>5, <1>6, <1>7, <1>8
     DEF Next, Proceed, OnChangeAddOwn, OnChangeAddNew, OnChangeRemove, OnChangeReset, Register

(* A refused change rolls back exactly the callbacks asked before the one  *)
(* that refused, with the functions they had when asked, whatever ids      *)
(* callers choose and whenever they add, replace and remove callbacks.     *)
THEOREM RollbackExact == Spec => []RollbackIsExact
<1>1. RollbackInv => RollbackIsExact
  BY DEF RollbackInv
<1> QED
  BY <1>1, RollbackInit, RollbackStep, PTL DEF Spec

(* A change that cannot be discarded is never refused, so that what        *)
(* KeyChange has taken out of the container is put back.                   *)
THEOREM NoDiscardApproved == Spec => []NoDiscardIsApproved
<1>1. RollbackInv => NoDiscardIsApproved
  BY DEF RollbackInv
<1> QED
  BY <1>1, RollbackInit, RollbackStep, PTL DEF Spec

-----------------------------------------------------------------------------
LEMMA ExpiryInit == Init => ExpiryInv
  BY TypeInit DEF Init, ExpiryInv, IdsGiven, ExpiredAnswered, Registered

LEMMA ExpiryStep == Careful /\ ExpiryInv /\ [Next]_vars => ExpiryInv'
<1> SUFFICES ASSUME Careful, ExpiryInv, [Next]_vars
             PROVE  (IdsGiven /\ ExpiredAnswered)'
  BY TypeStep DEF ExpiryInv
<1> USE DEF ExpiryInv
<1>1. ASSUME NEW f \in Callbacks, OnChangeAddOwn(f)
      PROVE  (IdsGiven /\ ExpiredAnswered)'
  <2>1. PICK i \in OwnIds : IsCareful(i) /\ Register(f, i)
    BY <1>1 DEF OnChangeAddOwn
  <2>2. step' = "idle"
    BY <1>1, <2>1 DEF OnChangeAddOwn, IsCareful, Register, Locked, TypeOK, change
  <2>3. Registered' \subseteq Registered \cup {i}
    BY <2>1 DEF Register, Registered, TypeOK
  <2> QED
    BY <1>1, <2>1, <2>2, <2>3 DEF OnChangeAddOwn, IsCareful, IdsGiven, ExpiredAnswered
<1>2. ASSUME NEW f \in Callbacks, OnChangeAddNew(f)
      PROVE  (IdsGiven /\ ExpiredAnswered)'
  <2>1. PICK u \in Ids, i \in Ids :
          /\ u > uid /\ uid' = u /\ u <= i
          /\ i = u \/ i - 1 \in Registered
          /\ Register(f, i)
    BY <1>2 DEF OnChangeAddNew
  <2>2. i = u
    BY <2>1 DEF IdsGiven, TypeOK, Ids
  <2>3. Registered' \subseteq Registered \cup {i}
    BY <2>1 DEF Register, Registered, TypeOK
  <2>4. IdsGiven'
    BY <2>1, <2>2, <2>3 DEF IdsGiven, TypeOK, Ids, Registered
  <2>5. step # "idle" => i \notin expired
    BY <2>1, <2>2 DEF ExpiredAnswered, TypeOK, Ids
  <2>6. ExpiredAnswered'
    BY <2>1, <2>2, <2>3, <2>5 DEF ExpiredAnswered, Register, change, TypeOK, Ids
  <2> QED
    BY <2>4, <2>6
<1>3. ASSUME NEW i \in Ids, OnChangeRemove(i)
      PROVE  (IdsGiven /\ ExpiredAnswered)'
  <2>1. Registered' = Registered \ {i}
    BY <1>3 DEF OnChangeRemove, Registered, TypeOK
  <2> QED
    BY <1>3, <2>1 DEF OnChangeRemove, IdsGiven, ExpiredAnswered, change
<1>4. CASE OnChangeReset
  <2>1. Registered' = {}
    BY <1>4 DEF OnChangeReset, Registered
  <2> QED
    BY <1>4, <2>1 DEF OnChangeReset, IdsGiven, ExpiredAnswered, change
<1>5. CASE \E nd \in BOOLEAN : Begin(nd)
  BY <1>5 DEF Begin, IdsGiven, ExpiredAnswered, Registered, registry
<1>6. ASSUME NEW i \in Ids, Agree(i) \/ AnswerNullopt(i) \/ Refuse(i) \/ Rollback(i)
      PROVE  (IdsGiven /\ ExpiredAnswered)'
  BY <1>6 DEF Agree, AnswerNullopt, Refuse, Rollback, IsNext, IdsGiven, ExpiredAnswered,
     Registered, registry
<1>7. CASE Unlock
  BY <1>7 DEF Unlock, IdsGiven, ExpiredAnswered, Registered, registry
<1>8. CASE RemoveExpired
  <2>1. Registered' \subseteq Registered
    BY <1>8 DEF RemoveExpired, Registered
  <2> QED
    BY <1>8, <2>1 DEF RemoveExpired, IdsGiven, ExpiredAnswered
<1>9. CASE UNCHANGED vars
  BY <1>9 DEF vars, registry, change, IdsGiven, ExpiredAnswered, Registered
<1> QED
  BY <1>1, <1>2, <1>3, <1>4, <1>5, <1>6, <1>7, <1>8, <1>9 DEF Next, Proceed

(* With ids that come from NextUid, and no replacement while expired ids   *)
(* are still to be dropped, no callback is dropped that did not ask for    *)
(* it: an id does not come to name another callback in between.            *)
THEOREM ExpiryIsHarmless ==
  ASSUME Careful
  PROVE  Spec => ExpiresOnlyTheExpired
<1>1. ExpiryInv /\ [Next]_vars => ExpiryInv'
  BY ExpiryStep
<1>2. ExpiryInv /\ [Next]_vars => [RemoveExpired => Registered \cap expired \subseteq gone]_vars
  BY DEF ExpiryInv, ExpiredAnswered, RemoveExpired
<1> QED
  BY <1>1, <1>2, ExpiryInit, PTL DEF Spec, ExpiresOnlyTheExpired
=============================================================================
