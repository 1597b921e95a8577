----------------------------- MODULE Documents -----------------------------
(***************************************************************************)
(* Functions on whole documents: xnode::Compare and Clone.                 *)
(*                                                                         *)
(* A heap is a sequence of nodes; the place of a node is its address.  A   *)
(* node has a type, a parent (0 for none) and its items by key: keys are   *)
(* numbers, those of a map in the order of its strings, those of an array  *)
(* its indexes from 0.  An erased key of a map still has an item, Empty.   *)
(***************************************************************************)
EXTENDS Values, SequencesExt

Node(type, items, parent) == [type |-> type, items |-> items, parent |-> parent]

Ref(n) == XValue("object", n)
ConstRef(n) == XValue("constObject", n)

(* A node that is reached through a const pointer gives out const pointers. *)
MakeConst(v) == IF IsObject(v) THEN ConstRef(v.val) ELSE v

At(h, n, k) == IF k \in DOMAIN h[n].items THEN h[n].items[k] ELSE Empty

(* The keys BulkGetAll visits, in their order: a map passes over whatever  *)
(* IsEmpty, null and the empty string as well as erased values.            *)
ListedSet(h, n) ==
  {k \in DOMAIN h[n].items : h[n].type = "Array" \/ ~IsEmpty(h[n].items[k])}
Listed(h, n) == SetToSortSeq(ListedSet(h, n), LAMBDA j, k : j < k)

-----------------------------------------------------------------------------
(* Compare without a callback. *)

(* Mutation: an item that only the right node has is passed over. *)
RightOnlySkipped(acc) == [acc EXCEPT !.it = @ + 1]

RightOnly(acc) == [acc EXCEPT !.order = -1, !.stop = TRUE]

(* Walks the items of the left node beside those of the right one; nodes   *)
(* under the same key are kept for later.                                  *)
CompareItems(h, left, right, unwrap) ==
  LET keys == SelectSeq(Listed(h, right), LAMBDA k : At(h, right, k) # Empty)
      Visit(acc, k) ==
        LET v == At(h, left, k)
            w == At(h, right, k)
            order == Compare(v, w)
        IN  IF acc.stop THEN acc
            ELSE IF acc.it > Len(keys) \/ k < keys[acc.it]
            THEN [acc EXCEPT !.order = 1, !.stop = TRUE]
            ELSE IF k > keys[acc.it] THEN RightOnly(acc)
            ELSE IF Equal(v, w) \/ order = 0 THEN [acc EXCEPT !.it = @ + 1]
            ELSE IF unwrap /\ IsObject(v) /\ IsObject(w) /\ h[v.val].type = h[w.val].type
            THEN [acc EXCEPT !.it = @ + 1, !.nodes = Append(@, <<v.val, w.val>>)]
            ELSE [acc EXCEPT !.order = order, !.stop = TRUE]
      end == FoldLeft(Visit, [it |-> 1, order |-> 0, stop |-> FALSE, nodes |-> <<>>],
                      Listed(h, left))
  IN  IF end.order = 0 /\ end.it <= Len(keys) THEN [end EXCEPT !.order = -1] ELSE end

NodeTypeOrder(type) == IF type = "Map" THEN 0 ELSE 1

RECURSIVE CompareNodes(_, _, _, _)
CompareNodes(h, left, right, unwrap) ==
  IF h[left].type # h[right].type
  THEN NodeTypeOrder(h[left].type) - NodeTypeOrder(h[right].type)
  ELSE LET level == CompareItems(h, left, right, unwrap)
       IN  FoldLeft(LAMBDA order, pair :
                      IF order # 0 THEN order ELSE CompareNodes(h, pair[1], pair[2], TRUE),
                    level.order, level.nodes)

-----------------------------------------------------------------------------
(* Clone. *)

(* Mutation: a node within the clone stays the node it was. *)
ClonedNestedShared(acc, k, made) == [heap |-> made.heap, items |-> acc.items]

(* What a clone holds in place of a node, and that node's parent. *)
ClonedNested(acc, k, made) ==
  [heap |-> made.heap, items |-> [acc.items EXCEPT ![k] = Ref(made.node)]]

(* The heap with a clone, and the clone.  Nodes that are not const are     *)
(* cloned too, or made const; const ones are shared.                       *)
RECURSIVE Clone(_, _, _)
Clone(h, ref, cloneNodes) ==
  LET listed == ListedSet(h, ref.val)
      seen == [k \in listed |->
                 LET v == h[ref.val].items[k] IN IF ref.type = "object" THEN v ELSE MakeConst(v)]
      nested == SetToSortSeq({k \in listed : seen[k].type = "object"}, LAMBDA j, k : j < k)
      all == FoldLeft(LAMBDA acc, k :
                        IF cloneNodes THEN ClonedNested(acc, k, Clone(acc.heap, seen[k], TRUE))
                        ELSE [acc EXCEPT !.items[k] = MakeConst(@)],
                      [heap |-> h, items |-> seen], nested)
      new == Len(all.heap) + 1
      children == {all.items[k].val : k \in {j \in listed : all.items[j].type = "object"}}
  IN  [heap |-> Append([n \in DOMAIN all.heap |->
                          IF n \in children THEN [all.heap[n] EXCEPT !.parent = new]
                          ELSE all.heap[n]],
                       Node(h[ref.val].type, all.items, 0)),
       node |-> new]

-----------------------------------------------------------------------------
(* What a reader finds in a document: the items that are listed, and in    *)
(* them the same.                                                          *)

RECURSIVE Content(_, _)
Content(h, v) ==
  IF IsObject(v)
  THEN [leaf |-> XValue(h[v.val].type, 0),
        kids |-> [k \in ListedSet(h, v.val) |-> Content(h, h[v.val].items[k])]]
  ELSE [leaf |-> v, kids |-> <<>>]
=============================================================================
