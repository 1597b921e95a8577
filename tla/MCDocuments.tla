---------------------------- MODULE MCDocuments ----------------------------
(***************************************************************************)
(* Three documents of two nodes: 1 with 2, 3 with 4, and 5 with 6.  The    *)
(* first two are patched and copied both ways while values come and go in  *)
(* them; from the third is only copied.  Whatever documents come of it are *)
(* compared, cloned, and written and read as JSON.                         *)
(***************************************************************************)
EXTENDS Merging, JsonText

CONSTANTS t1, t2

Int64(n) == XValue("int64", n)

Patch(target, source) == [op |-> "PatchApply", target |-> target, source |-> source]
Copy(source, target, override, asRefs, depth) ==
  [op |-> "CopyTo", target |-> target, source |-> source, override |-> override,
   asRefs |-> asRefs, depth |-> depth]
SetBy(target, key, val) == [op |-> "Set", target |-> target, key |-> key, val |-> val]
EraseBy(target, key) == [op |-> "Erase", target |-> target, key |-> key]

MCCallsOf == [t \in {t1, t2} |->
  IF t = t1
  THEN {Patch(1, 3), Patch(1, 5), Copy(3, 1, TRUE, FALSE, MaxDepth), Copy(3, 1, TRUE, TRUE, 0)}
  ELSE {Patch(3, 1), Copy(1, 3, FALSE, TRUE, MaxDepth), SetBy(1, 1, Int64(2)), SetBy(3, 1, Null),
        EraseBy(3, 2)}]

(* One thread copies, to the depth of 1. *)
CopiesOf == [t \in {t1, t2} |->
  IF t = t1
  THEN {Copy(source, 1, override, asRefs, 1) :
          source \in {3, 5}, override \in BOOLEAN, asRefs \in BOOLEAN}
  ELSE {}]

(* The values of these documents are integers. *)
NoLLRound == [u \in DoubleNumbers |-> 0]

(* A root with its items, and the next node, which it may hold, with its   *)
(* leaves.                                                                 *)
Document(type, root, items, leaves) ==
  <<Node(type, items, 0),
    Node("Map", leaves, IF \E k \in DOMAIN items : items[k] = Ref(root + 1) THEN root ELSE 0)>>

(* u, w: what the first two hold under 2; x: a leaf of the third. *)
MapHeap(u, w, x) ==
  Document("Map", 1, 1 :> Null @@ 2 :> u, 1 :> Int64(1))
    \o Document("Map", 3, 1 :> Int64(2) @@ 2 :> w, 1 :> Int64(3) @@ 2 :> Null)
    \o Document("Map", 5, 1 :> Null @@ 2 :> Ref(6), 2 :> x)

ArrayHeap ==
  Document("Array", 1, 0 :> Int64(1) @@ 1 :> Int64(2) @@ 2 :> Ref(2), 1 :> Int64(1))
    \o Document("Array", 3, 0 :> Null @@ 1 :> Ref(4), 1 :> Int64(3))
    \o Document("Array", 5, 0 :> Empty @@ 1 :> Ref(6), 2 :> Int64(1))

MCHeaps ==
  {MapHeap(Ref(2), Ref(4), ConstRef(4)), MapHeap(Int64(-1), Ref(4), Int64(-3)), ArrayHeap}
-----------------------------------------------------------------------------
Quiet == \A t \in Threads : ~Busy(t)

(* Compare is an order of documents: zero for those that read the same,    *)
(* and the one way round the opposite of the other, although it goes       *)
(* through one node's items beside the other's and leaves nested nodes for *)
(* later.  (An array with an empty value is not even equal to itself.)     *)
Comparable(n) ==
  \A k \in DOMAIN heap[n].items :
     LET v == heap[n].items[k] IN heap[n].type = "Map" \/ v # Empty

SignOf(i) == IF i < 0 THEN -1 ELSE IF i > 0 THEN 1 ELSE 0

ComparesByContent ==
  Quiet =>
    \A l, r \in {n \in DOMAIN heap : Comparable(n)} :
       LET order == CompareNodes(heap, l, r, TRUE)
       IN  /\ order = 0 <=> Content(heap, Ref(l)) = Content(heap, Ref(r))
           /\ SignOf(order) = -SignOf(CompareNodes(heap, r, l, TRUE))

(* A clone reads as its original does, which stays as it was; the nodes of *)
(* the clone are new and have their parents, but for the const nodes that  *)
(* it shares.                                                              *)
CloneIsEqualAndOwn ==
  Quiet =>
    \A n \in DOMAIN heap, cloneNodes \in BOOLEAN :
       LET made == Clone(heap, Ref(n), cloneNodes)
           new == DOMAIN made.heap \ DOMAIN heap
       IN  /\ Content(made.heap, Ref(made.node)) = Content(heap, Ref(n))
           /\ \A m \in DOMAIN heap : made.heap[m] = heap[m]
           /\ \A m \in new : \A k \in DOMAIN made.heap[m].items :
                LET v == made.heap[m].items[k]
                IN  v.type = "object" => v.val \in new /\ made.heap[v.val].parent = m

One == XValue("uint64", 1)

MapWith(items) == [leaf |-> XValue("Map", 0), kids |-> items]
ArrayWith(items) == [leaf |-> XValue("Array", 0), kids |-> items]
Leaf(v) == [leaf |-> v, kids |-> <<>>]

=============================================================================
