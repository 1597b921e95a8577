---------------------------- MODULE MCNodeTree ----------------------------
(* Instances of NodeTree: one thread that keeps to careful calls; two that *)
(* each keep to their own keys and children; one that rearranges the tree  *)
(* another climbs through.                                                 *)
EXTENDS NodeTree, TLC

CONSTANTS A, B, C, D, k1, k2, k3, s, t1, t2

ThreeNodes == {A, B, C}
FourNodes == {A, B, C, D}
OneKey == {k1}
TwoKeys == {k1, k2}
ThreeKeys == {k1, k2, k3}
OneScalar == {s}
OneThread == {t1}
TwoThreads == {t1, t2}

(* A is watched, so only B and C look alike. *)
Alike == Permutations({B, C}) \cup Permutations(TwoKeys)

Unnamed == [n \in Nodes |-> NoName]
Named == [n \in Nodes |-> k1]

(* All calls but a rename to the empty name, after which KeyChange loses   *)
(* the value it moves.                                                     *)
NamedCalls ==
  {c \in Calls : c.op \in {"KeyChange", "NameSet"} => c.to # NoName}
AnyCall == [t \in Threads |-> NamedCalls]

(* One thread alone rearranges A, B and C, by calls that look for the      *)
(* child among its new ancestors before they enter it, after, or both:     *)
(* whether two threads may is a question of its own, which cross_adoption  *)
(* answers.  The other thread climbs through the same nodes, up to the     *)
(* top, to put the leaf D under A.                                         *)
Inner == {A, B, C}
Rearranging ==
  {c \in Calls :
     \/ c.op = "ParentSet" /\ c.self \in Inner /\ c.into \in Inner \cup {NoNode} /\ c.name = Keep
     \/ c.op = "Erase" /\ c.self \in Inner
     \/ c.op = "CompareExchange" /\ c.self = C /\ c.val = A /\ c.expected = NoEntry
     \/ c.op = "Set" /\ c.self = B /\ c.val = A}
LeafIntoA == {c \in Calls : c.op = "Set" /\ c.self = A /\ c.val = D}
Attaching == (t1 :> Rearranging) @@ (t2 :> LeafIntoA)

(* The calls that put `child` into A or B, or take it out, under `keys`. *)
CallsWith(keys, child) ==
  {c \in NamedCalls :
     CASE c.op \in {"Set", "Insert"} -> c.self \in {A, B} /\ c.key \in keys /\ c.val = child
       [] c.op = "CompareExchange" ->
            c.self \in {A, B} /\ c.key \in keys /\ c.val = child /\ c.expected = NoEntry
       [] c.op = "Erase" -> c.self \in {A, B} /\ c.key \in keys
       [] c.op = "BulkErase" -> c.self \in {A, B} /\ c.keys = keys
       [] c.op = "KeyChange" -> c.self \in {A, B} /\ {c.key, c.to} \subseteq keys
       [] c.op = "ParentSet" -> c.self = child /\ c.into \in {A, B, NoNode}
                                /\ c.name \in keys \cup {Keep}
       [] c.op = "NameSet" -> c.self = child /\ c.to \in keys
       [] c.op = "Clear" -> c.self = child}

(* Both threads change A and B, each under keys and with a child of its own; *)
(* the second makes the calls that take the most critical sections.        *)
Partition ==
  (t1 :> CallsWith({k1, k3}, C))
  @@ (t2 :> {c \in CallsWith({k2}, D) : c.op \in {"ParentSet", "Erase"}})

-----------------------------------------------------------------------------
(* The few calls that show where code and documentation part.              *)

ParentSetCall(n, p, k) == [op |-> "ParentSet", self |-> n, into |-> p, name |-> k]

(* Two nodes, each made the parent of the other by a thread of its own. *)
CrossAdoption ==
  (t1 :> {ParentSetCall(A, B, k1)}) @@ (t2 :> {ParentSetCall(B, A, k1)})
=============================================================================
