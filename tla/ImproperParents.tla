-------------------------- MODULE ImproperParents --------------------------
(***************************************************************************)
(* xnode::ParentsCheck: a walk from a root over the nodes that are held    *)
(* below it, for those whose parent is not the node that holds them.  The  *)
(* recursion is a stack of calls.  Nobody changes the document meanwhile;  *)
(* the calls that came before may have left it in any state: nodes held    *)
(* twice, parents that hold nothing, nodes that hold each other.           *)
(***************************************************************************)
EXTENDS Integers, Sequences

CONSTANTS
  Nodes, NoNode,
  Documents,     \* what each node holds, in the order of its keys, and its parent
  Roots          \* what ParentsCheck is called with

(* A value that holds a node: a pointer to it, or a const pointer. *)
Pointers == [node : Nodes, const : BOOLEAN]

ASSUME DocumentsAssumption ==
  /\ NoNode \notin Nodes /\ Roots \subseteq Pointers
  /\ Documents \subseteq [held : [Nodes -> Seq(Pointers)], parent : [Nodes -> Nodes \cup {NoNode}]]

VARIABLES
  document,      \* the nodes
  root,          \* _root, NoRoot before the call
  includeConst,  \* _include_const
  calls,         \* the calls that have not returned, the innermost one last
  improper       \* _improper_map: the node each node was found under

checkVars == <<document, root, includeConst, calls, improper>>

NoRoot == [node |-> NoNode, const |-> FALSE]

CheckInit ==
  /\ document = [held |-> [n \in Nodes |-> <<>>], parent |-> [n \in Nodes |-> NoNode]]
  /\ root = NoRoot
  /\ includeConst = FALSE
  /\ calls = <<>>
  /\ improper = [n \in Nodes |-> NoNode]

(* A call on a node, and the first of its items that is still to be seen. *)
CallOf(pointer) == [root |-> pointer, next |-> 1]

Call == calls[Len(calls)]
ItemsOfCall == document.held[Call.root.node]
Item == ItemsOfCall[Call.next]
ItemPassed == [calls EXCEPT ![Len(calls)].next = @ + 1]

(* NodesList and NodesConstList: a const node gives out const pointers. *)
Taken == Call.root.const \/ includeConst \/ ~Item.const
Given == [Item EXCEPT !.const = @ \/ Call.root.const]

Begin(d, pointer, withConst) ==
  /\ root = NoRoot
  /\ document' = d
  /\ root' = pointer
  /\ includeConst' = withConst
  /\ calls' = <<CallOf(pointer)>>
  /\ UNCHANGED improper

PassOver ==
  /\ calls # <<>> /\ Call.next <= Len(ItemsOfCall)
  /\ ~Taken \/ improper[Item.node] # NoNode
  /\ calls' = ItemPassed
  /\ UNCHANGED <<document, root, includeConst, improper>>

Noted ==
  IF document.parent[Item.node] = Call.root.node THEN improper
  ELSE [improper EXCEPT ![Item.node] = Call.root.node]

(* Mutation: a node that has its proper parent is not walked into. *)
WalkIntoImproper ==
  /\ calls # <<>> /\ Call.next <= Len(ItemsOfCall)
  /\ Taken /\ improper[Item.node] = NoNode
  /\ improper' = Noted
  /\ calls' = IF Noted = improper THEN ItemPassed ELSE Append(ItemPassed, CallOf(Given))
  /\ UNCHANGED <<document, root, includeConst>>

WalkInto ==
  /\ calls # <<>> /\ Call.next <= Len(ItemsOfCall)
  /\ Taken /\ improper[Item.node] = NoNode
  /\ improper' = Noted
  /\ calls' = Append(ItemPassed, CallOf(Given))
  /\ UNCHANGED <<document, root, includeConst>>

Return ==
  /\ calls # <<>> /\ Call.next > Len(ItemsOfCall)
  /\ calls' = SubSeq(calls, 1, Len(calls) - 1)
  /\ UNCHANGED <<document, root, includeConst, improper>>

CheckNext ==
  \/ \E d \in Documents, pointer \in Roots, withConst \in BOOLEAN : Begin(d, pointer, withConst)
  \/ PassOver \/ WalkInto \/ Return

CheckSpec == CheckInit /\ [][CheckNext]_checkVars

-----------------------------------------------------------------------------
(* The nodes another holds, const ones when the caller asks for them or    *)
(* begins at one.                                                          *)
Children(n) ==
  {pointer.node : pointer \in
     {document.held[n][i] : i \in
        {j \in DOMAIN document.held[n] :
           root.const \/ includeConst \/ ~document.held[n][j].const}}}

(* The root and all that is held below it: what every set has that has the *)
(* root and with a node its children.                                      *)
Below ==
  {n \in Nodes : \A S \in SUBSET Nodes :
     root.node \in S /\ (\A m \in S : Children(m) \subseteq S) => n \in S}

(* The nodes below the root that hold n without being its parent. *)
Holders(n) == {m \in Below : n \in Children(m) /\ document.parent[n] # m}

(* ParentsCheck finds every node below the root that some node there holds *)
(* without being its parent, under one that does, and no other: although   *)
(* it goes into such a node only until it has found it, and the nodes may  *)
(* hold each other.                                                        *)
ParentsCheckFinds ==
  root # NoRoot /\ calls = <<>> =>
    \A n \in Nodes : improper[n] \in (IF Holders(n) = {} THEN {NoNode} ELSE Holders(n))
=============================================================================
