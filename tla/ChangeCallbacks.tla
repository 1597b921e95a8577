--------------------------- MODULE ChangeCallbacks ---------------------------
(***************************************************************************)
(* XNodeCallbacks: the change callbacks of one node.  A change asks them   *)
(* in the order of their ids, rolls the earlier ones back when one         *)
(* refuses, and afterwards drops those that answered nullopt.              *)
(*                                                                         *)
(* The changes of a node come one at a time, since every change holds its  *)
(* container's lock; callbacks are added and removed by other threads.     *)
(* map_rw_ is held shared while `step` is "asking" or "undoing", and       *)
(* exclusively within one step by whoever changes callbacks_map_.          *)
(***************************************************************************)
EXTENDS Integers

CONSTANTS
  Callbacks,   \* the functions of the callers
  NoCallback,
  MaxId,       \* bound: the largest id
  OwnIds,      \* the ids callers give to OnChangeAdd
  Careful      \* whether callers keep to IsCareful

Ids == 1..MaxId

ASSUME CallbacksAssumption ==
  /\ NoCallback \notin Callbacks
  /\ MaxId \in Nat
  /\ OwnIds \subseteq Ids
  /\ Careful \in BOOLEAN

VARIABLES
  callbacks_map, \* callbacks_map_
  uid,           \* the last of xbase::NextUid, for this node or another
  step,          \* where the change is: idle, asking, undoing, unlocked
  no_discard,    \* _no_discard
  at,            \* the id told last, 0 before the first
  failed_uid,    \* the id that refused, 0 for none
  expired,       \* the ids that answered nullopt
  asked,         \* history: who was asked in this change
  undone,        \* history: who was told to roll back
  gone           \* history: the ids whose present callback answered nullopt

registry == <<callbacks_map, uid>>
change == <<step, no_discard, at, failed_uid, expired, asked, undone>>
vars == <<registry, change, gone>>

Registered == {i \in Ids : callbacks_map[i] # NoCallback}
Locked == step \in {"asking", "undoing"}

Init ==
  /\ callbacks_map = [i \in Ids |-> NoCallback] /\ uid = 0
  /\ step = "idle" /\ no_discard = FALSE /\ at = 0 /\ failed_uid = 0
  /\ expired = {} /\ asked = {} /\ undone = {} /\ gone = {}

-----------------------------------------------------------------------------
(* What other threads do.                                                  *)

Register(f, i) ==
  /\ callbacks_map' = [callbacks_map EXCEPT ![i] = f]
  /\ gone' = gone \ {i}
  /\ UNCHANGED change

(* Callers that replace callbacks only under ids they got, and not while   *)
(* a change is about to drop the expired ones, which they cannot know.     *)
IsCareful(i) == i <= uid /\ step # "unlocked"

(* Mutation: a callback is added without waiting for the lock. *)
OnChangeAddOwnAtOnce(f) ==
  \E i \in OwnIds :
    /\ Careful => IsCareful(i)
    /\ Register(f, i)
    /\ UNCHANGED uid

OnChangeAddOwn(f) ==
  \E i \in OwnIds :
    /\ ~Locked
    /\ Careful => IsCareful(i)
    /\ Register(f, i)
    /\ UNCHANGED uid

(* Mutation: the new id is one past the largest there is. *)
OnChangeAddNewLargest(f) ==
  \E i \in Ids :
    /\ ~Locked
    /\ i = 1 \/ i - 1 \in Registered
    /\ \A j \in Registered : j < i
    /\ Register(f, i)
    /\ UNCHANGED uid

(* The new id is the larger of the next uid and one past the largest. *)
OnChangeAddNew(f) ==
  \E u, i \in Ids :
    /\ ~Locked
    /\ u > uid /\ uid' = u
    /\ u <= i
    /\ \A j \in Registered : j < i
    /\ i = u \/ i - 1 \in Registered
    /\ Register(f, i)

OnChangeRemove(i) ==
  /\ ~Locked
  /\ i \in Registered
  /\ callbacks_map' = [callbacks_map EXCEPT ![i] = NoCallback]
  /\ gone' = gone \ {i}
  /\ UNCHANGED <<uid, change>>

OnChangeReset ==
  /\ ~Locked
  /\ callbacks_map' = [i \in Ids |-> NoCallback]
  /\ gone' = {}
  /\ UNCHANGED <<uid, change>>

-----------------------------------------------------------------------------
(* DoCallbacks, step by step.                                              *)

IsNext(i) == i \in Registered /\ at < i /\ \A j \in Registered : at < j => i <= j

Begin(nd) ==
  /\ step = "idle"
  /\ step' = "asking" /\ no_discard' = nd
  /\ at' = 0 /\ failed_uid' = 0 /\ expired' = {}
  /\ asked' = {} /\ undone' = {}
  /\ UNCHANGED <<registry, gone>>

Tell(i) == asked' = asked \cup {<<i, callbacks_map[i]>>}

Agree(i) ==
  /\ step = "asking" /\ IsNext(i)
  /\ Tell(i) /\ at' = i
  /\ UNCHANGED <<registry, step, no_discard, failed_uid, expired, undone, gone>>

AnswerNullopt(i) ==
  /\ step = "asking" /\ IsNext(i)
  /\ Tell(i) /\ at' = i
  /\ expired' = expired \cup {i} /\ gone' = gone \cup {i}
  /\ UNCHANGED <<registry, step, no_discard, failed_uid, undone>>

(* A refusal counts only if the change can be discarded. *)
Refuse(i) ==
  /\ step = "asking" /\ IsNext(i) /\ ~no_discard
  /\ Tell(i) /\ at' = 0
  /\ failed_uid' = i /\ step' = "undoing"
  /\ UNCHANGED <<registry, no_discard, expired, undone, gone>>

(* Mutation: the loop does not go on to the next callback. *)
RollbackInPlace(i) ==
  /\ step = "undoing" /\ IsNext(i) /\ i # failed_uid
  /\ undone' = undone \cup {<<i, callbacks_map[i]>>}
  /\ UNCHANGED <<registry, step, no_discard, at, failed_uid, expired, asked, gone>>

(* The callbacks before the one that refused are told to roll back. *)
Rollback(i) ==
  /\ step = "undoing" /\ IsNext(i) /\ i # failed_uid
  /\ undone' = undone \cup {<<i, callbacks_map[i]>>} /\ at' = i
  /\ UNCHANGED <<registry, step, no_discard, failed_uid, expired, asked, gone>>

Unlock ==
  /\ \/ step = "asking" /\ \A i \in Registered : i <= at
     \/ step = "undoing" /\ \A i \in Registered : i < failed_uid => i <= at
  /\ step' = IF expired = {} THEN "idle" ELSE "unlocked"
  /\ UNCHANGED <<registry, no_discard, at, failed_uid, expired, asked, undone, gone>>

RemoveExpired ==
  /\ step = "unlocked"
  /\ callbacks_map' = [i \in Ids |-> IF i \in expired THEN NoCallback ELSE callbacks_map[i]]
  /\ gone' = gone \ expired
  /\ step' = "idle"
  /\ UNCHANGED <<uid, no_discard, at, failed_uid, expired, asked, undone>>

(* The change's own steps; that a change begins is up to the callers. *)
Proceed ==
  \/ \E i \in Ids : Agree(i) \/ AnswerNullopt(i) \/ Refuse(i) \/ Rollback(i)
  \/ Unlock
  \/ RemoveExpired

Next ==
  \/ \E f \in Callbacks : OnChangeAddOwn(f) \/ OnChangeAddNew(f)
  \/ \E i \in Ids : OnChangeRemove(i)
  \/ OnChangeReset
  \/ \E nd \in BOOLEAN : Begin(nd)
  \/ Proceed

Spec == Init /\ [][Next]_vars
FairSpec == Spec /\ WF_vars(Proceed)

-----------------------------------------------------------------------------
TypeOK ==
  /\ callbacks_map \in [Ids -> Callbacks \cup {NoCallback}]
  /\ uid \in 0..MaxId
  /\ step \in {"idle", "asking", "undoing", "unlocked"}
  /\ no_discard \in BOOLEAN
  /\ at \in 0..MaxId /\ failed_uid \in 0..MaxId
  /\ expired \subseteq Ids /\ gone \subseteq Ids
  /\ asked \subseteq Ids \X Callbacks /\ undone \subseteq Ids \X Callbacks

(* A refused change is rolled back with exactly the functions that had     *)
(* been asked before the one that refused, those that answered nullopt     *)
(* among them; any other change with none.  The two loops of DoCallbacks   *)
(* read the map separately and rest on the lock for it to be the same.     *)
RollbackIsExact ==
  ~Locked => undone = IF failed_uid = 0 THEN {} ELSE {p \in asked : p[1] # failed_uid}

(* A change that cannot be discarded is refused by nobody: KeyChange       *)
(* counts on it to put a value back that it has already taken out.         *)
NoDiscardIsApproved == no_discard => failed_uid = 0

(* Dropping the expired callbacks drops no callback that did not answer    *)
(* nullopt, although the lock was released after the answers: ids must     *)
(* not come back.                                                          *)
ExpiresOnlyTheExpired == [][RemoveExpired => Registered \cap expired \subseteq gone]_vars

(* A change that has begun is decided. *)
EveryChangeIsDecided == step # "idle" ~> step = "idle"
=============================================================================
