------------------------------ MODULE Merging ------------------------------
(***************************************************************************)
(* PatchApply and CopyTo, called by several threads on documents they      *)
(* share, beside threads that set and erase values.                        *)
(*                                                                         *)
(* A call works level by level.  It holds the lock of the source node,     *)
(* shared, while it goes through that node's items, and takes the lock of  *)
(* the target node for each look and each change; nested pairs of nodes    *)
(* are kept for later.  Each of these critical sections is one step.  What *)
(* Set and Erase do to parents beyond the node that comes or goes is       *)
(* NodeTree's subject, and the callbacks allow every change.               *)
(***************************************************************************)
EXTENDS Documents

CONSTANTS
  Threads,
  CallsOf,     \* the calls each thread may make, each of them once
  MaxCalls,    \* the number of calls a thread makes
  Heaps,       \* the documents there may be at first
  MaxDepth     \* the depth that stands for size_t(-1)

Calls ==
       [op : {"PatchApply"}, target : Nat, source : Nat]
  \cup [op : {"CopyTo"}, target : Nat, source : Nat, override : BOOLEAN, asRefs : BOOLEAN,
        depth : 0 .. MaxDepth]
  \cup [op : {"Set"}, target : Nat, key : Nat, val : XValues]
  \cup [op : {"Erase"}, target : Nat, key : Nat]

ASSUME CallsAssumption == \A t \in Threads : \A c \in CallsOf[t] : c \in Calls

VARIABLES
  heap,        \* the nodes
  reading,     \* the shared locks: pairs of a thread and a node
  run,         \* where each thread is, and what it carries along
  begun,       \* the calls each thread has made
  disturbed,   \* the threads during whose call others have changed a node
  before       \* the nodes when a thread's call began

vars == <<heap, reading, run, begun, disturbed, before>>

NoCall == [op |-> "none"]
NoLevel == [target |-> 0, source |-> 0, override |-> TRUE, asRefs |-> FALSE, depth |-> 0]

(* keys: of the source, still to visit; next: pairs of nodes to go into    *)
(* when the level is done; clones: nodes to clone then; todo: levels that  *)
(* wait, the next one first.                                               *)
Idle == [pc |-> "idle", call |-> NoCall, level |-> NoLevel, keys |-> <<>>, seen |-> Empty,
         next |-> <<>>, clones |-> <<>>, todo |-> <<>>]

Init ==
  /\ heap \in Heaps
  /\ reading = {}
  /\ run = [t \in Threads |-> Idle]
  /\ begun = [t \in Threads |-> {}]
  /\ disturbed = {}
  /\ before = [t \in Threads |-> <<>>]

Merges(c) == c.op \in {"PatchApply", "CopyTo"}
Busy(t) == run[t].pc \notin {"idle", "returned"}

-----------------------------------------------------------------------------
(* The containers. *)

(* XContainerArray::Set pads with empty values. *)
ItemsWith(node, k, v) ==
  IF node.type = "Map" THEN (k :> v) @@ node.items
  ELSE [i \in DOMAIN node.items \cup 0 .. k |->
          IF i = k THEN v ELSE IF i \in DOMAIN node.items THEN node.items[i] ELSE Empty]

(* A map keeps the key, with an empty value; an array closes the gap. *)
ItemsWithout(node, k) ==
  IF node.type = "Map" THEN (k :> Empty) @@ node.items
  ELSE [i \in DOMAIN node.items \ {Cardinality(DOMAIN node.items) - 1} |->
          IF i < k THEN node.items[i] ELSE node.items[i + 1]]

Orphaned(h, v) == IF v.type = "object" THEN [h EXCEPT ![v.val].parent = 0] ELSE h

(* IsValidChild_: a node does not take itself in, nor one above it. *)
RECURSIVE MayHold(_, _, _)
MayHold(h, n, v) ==
  ~IsObject(v) \/ n = 0 \/ (v.val # n /\ MayHold(h, h[n].parent, v))

(* XNode::Set and Erase do nothing when the value is there, or nothing is. *)
AfterSet(h, n, k, v) ==
  LET h1 == Orphaned([h EXCEPT ![n].items = ItemsWith(h[n], k, v)], At(h, n, k))
  IN  IF ~MayHold(h, n, v) \/ Equal(At(h, n, k), v) THEN h
      ELSE IF v.type = "object" THEN [h1 EXCEPT ![v.val].parent = n] ELSE h1

AfterErase(h, n, k) ==
  IF k \notin DOMAIN h[n].items \/ (h[n].type = "Map" /\ At(h, n, k) = Empty) THEN h
  ELSE Orphaned([h EXCEPT ![n].items = ItemsWithout(h[n], k)], At(h, n, k))

(* The lock of n can be had exclusively. *)
Unread(n) == \A t \in Threads : <<t, n>> \notin reading

-----------------------------------------------------------------------------
Goto(t, r) == run' = [run EXCEPT ![t] = r]

Changes(t, h) ==
  /\ heap' = h
  /\ disturbed' = IF h = heap THEN disturbed ELSE disturbed \cup {u \in Threads \ {t} : Busy(u)}
  /\ UNCHANGED <<begun, before>>

Level(c) ==
  IF c.op = "CopyTo"
  THEN [target |-> c.target, source |-> c.source, override |-> c.override,
        asRefs |-> c.asRefs, depth |-> c.depth]
  ELSE [NoLevel EXCEPT !.target = c.target, !.source = c.source]

Begin(t, c) ==
  /\ ~Busy(t) /\ c \notin begun[t] /\ Cardinality(begun[t]) < MaxCalls
  /\ begun' = [begun EXCEPT ![t] = @ \cup {c}]
  /\ before' = [before EXCEPT ![t] = IF Merges(c) THEN heap ELSE <<>>]
  /\ disturbed' = disturbed \ {t}
  /\ Goto(t, IF Merges(c) THEN [Idle EXCEPT !.pc = "next", !.call = c, !.todo = <<Level(c)>>]
             ELSE [Idle EXCEPT !.pc = "write", !.call = c])
  /\ UNCHANGED <<heap, reading>>

(* The next level, or the end of the call.  A node is not merged into      *)
(* itself.                                                                 *)
Enter(t) ==
  LET r == run[t]
      level == Head(r.todo)
  IN  /\ r.pc = "next" /\ r.todo # <<>>
      /\ \/ /\ level.source = level.target
            /\ Goto(t, [r EXCEPT !.todo = Tail(@)])
            /\ UNCHANGED reading
         \/ /\ level.source # level.target
            /\ reading' = reading \cup {<<t, level.source>>}
            /\ Goto(t, [r EXCEPT !.pc = "look", !.todo = Tail(@), !.level = level,
                                 !.keys = Listed(heap, level.source)])
      /\ Changes(t, heap)

Return(t) ==
  /\ run[t].pc = "next" /\ run[t].todo = <<>>
  /\ Goto(t, [Idle EXCEPT !.pc = "returned"])
  /\ before' = [before EXCEPT ![t] = <<>>]
  /\ disturbed' = disturbed \ {t}
  /\ UNCHANGED <<heap, reading, begun>>

Key(r) == Head(r.keys)
SourceValue(r) == MakeConst(At(heap, r.level.source, Key(r)))

(* Mutation: a const node in the target is taken for one of its own. *)
OwnNodeOrConst(v) == IsObject(v)

(* QueryPtr: a node the target may change. *)
OwnNode(v) == v.type = "object"

(* _target->At(key), and what the callback of BulkGetAll decides from it.  *)
Look(t) ==
  LET r == run[t]
      v == At(heap, r.level.target, Key(r))
      w == SourceValue(r)
      pair == <<v.val, w.val>>
      both == OwnNode(v) /\ IsObject(w)
      copying == r.call.op = "CopyTo"
      passed == [r EXCEPT !.keys = Tail(@)]
  IN  /\ r.pc = "look" /\ r.keys # <<>>
      /\ Goto(t, IF ~copying /\ w.type = "null" THEN [r EXCEPT !.pc = "erase"]
                 ELSE IF copying /\ v # Empty /\ ~r.level.override THEN passed
                 ELSE IF both /\ copying /\ r.level.depth = 0 THEN passed
                 ELSE IF both THEN [passed EXCEPT !.next = Append(@, pair)]
                 ELSE IF copying /\ IsObject(w) /\ ~r.level.asRefs
                 THEN [passed EXCEPT !.clones = Append(@, <<Key(r), w>>)]
                 ELSE [r EXCEPT !.pc = "put"])
      /\ Changes(t, heap)
      /\ UNCHANGED reading

Put(t) ==
  LET r == run[t]
  IN  /\ r.pc = "put" /\ Unread(r.level.target)
      /\ Changes(t, AfterSet(heap, r.level.target, Key(r), SourceValue(r)))
      /\ Goto(t, [r EXCEPT !.pc = "look", !.keys = Tail(@)])
      /\ UNCHANGED reading

EraseNull(t) ==
  LET r == run[t]
  IN  /\ r.pc = "erase" /\ Unread(r.level.target)
      /\ Changes(t, AfterErase(heap, r.level.target, Key(r)))
      /\ Goto(t, [r EXCEPT !.pc = "look", !.keys = Tail(@)])
      /\ UNCHANGED reading

(* Mutation: the source stays locked. *)
LeaveHeld(t) ==
  /\ run[t].pc = "look" /\ run[t].keys = <<>>
  /\ Goto(t, [run[t] EXCEPT !.pc = "clone"])
  /\ Changes(t, heap)
  /\ UNCHANGED reading

(* The source is released. *)
Leave(t) ==
  LET r == run[t]
  IN  /\ r.pc = "look" /\ r.keys = <<>>
      /\ reading' = reading \ {<<t, r.level.source>>}
      /\ Goto(t, [r EXCEPT !.pc = "clone"])
      /\ Changes(t, heap)

MakeClone(t) ==
  LET r == run[t]
      made == Clone(heap, Head(r.clones)[2], TRUE)
  IN  /\ r.pc = "clone" /\ r.clones # <<>>
      /\ Changes(t, made.heap)
      /\ Goto(t, [r EXCEPT !.pc = "place", !.seen = Ref(made.node)])
      /\ UNCHANGED reading

PlaceClone(t) ==
  LET r == run[t]
  IN  /\ r.pc = "place" /\ Unread(r.level.target)
      /\ Changes(t, AfterSet(heap, r.level.target, Head(r.clones)[1], r.seen))
      /\ Goto(t, [r EXCEPT !.pc = "clone", !.clones = Tail(@), !.seen = Empty])
      /\ UNCHANGED reading

(* CopyTo passes depth - 1 on as _override, and nothing as _nodes_as_refs  *)
(* and _depth, which take their defaults.                                  *)
NestedLevel(r, pair) ==
  [target |-> pair[1], source |-> pair[2],
   override |-> r.call.op = "PatchApply" \/ r.level.depth # 1,
   asRefs |-> FALSE,
   depth |-> IF r.call.op = "PatchApply" THEN 0 ELSE MaxDepth]

(* Mutation: the nested nodes are left out. *)
NestNowhere(t) ==
  LET r == run[t]
  IN  /\ r.pc = "clone" /\ r.clones = <<>>
      /\ Goto(t, [r EXCEPT !.pc = "next", !.next = <<>>])
      /\ Changes(t, heap)
      /\ UNCHANGED reading

Nest(t) ==
  LET r == run[t]
      nested == [i \in DOMAIN r.next |-> NestedLevel(r, r.next[i])]
  IN  /\ r.pc = "clone" /\ r.clones = <<>>
      /\ Goto(t, [r EXCEPT !.pc = "next", !.next = <<>>, !.todo = nested \o @])
      /\ Changes(t, heap)
      /\ UNCHANGED reading

(* Another caller sets or erases a value. *)
Write(t) ==
  LET c == run[t].call
  IN  /\ run[t].pc = "write" /\ Unread(c.target)
      /\ Changes(t, IF c.op = "Set" THEN AfterSet(heap, c.target, c.key, c.val)
                    ELSE AfterErase(heap, c.target, c.key))
      /\ Goto(t, [Idle EXCEPT !.pc = "returned"])
      /\ UNCHANGED reading

Step(t) ==
  \/ Enter(t) \/ Return(t) \/ Look(t) \/ Put(t) \/ EraseNull(t) \/ Leave(t)
  \/ MakeClone(t) \/ PlaceClone(t) \/ Nest(t) \/ Write(t)

Next == \E t \in Threads : Step(t) \/ \E c \in CallsOf[t] : Begin(t, c)

(* A thread within a call goes on when it can. *)
Spec == Init /\ [][Next]_vars /\ \A t \in Threads : WF_vars(Step(t))

-----------------------------------------------------------------------------
(* What a merge comes to when nobody interferes, in documents of maps: in  *)
(* each node the source's items beside the target's, where both have nodes *)
(* those merged.  A node that is the target, or above it, is not taken.    *)
RECURSIVE Merged(_, _, _, _, _)
Merged(h, target, source, override, depth) ==
  LET Comes(k) ==
        /\ k \in ListedSet(h, source) /\ MayHold(h, target, At(h, source, k))
        /\ override \/ At(h, target, k) = Empty
      Taken(k) ==
        LET v == At(h, target, k)
            w == At(h, source, k)
        IN  IF ~Comes(k) THEN Content(h, v)
            ELSE IF v.type # "object" \/ ~IsObject(w) THEN Content(h, w)
            ELSE IF depth = 0 THEN Content(h, v)
            ELSE Merged(h, v.val, w.val, override, depth - 1)
  IN  [leaf |-> XValue(h[target].type, 0),
       kids |-> [k \in ListedSet(h, target) \cup {j \in ListedSet(h, source) : Comes(j)} |->
                  Taken(k)]]

Wanted(h, c) ==
  IF c.op = "PatchApply" THEN Merged(h, c.target, c.source, TRUE, MaxDepth)
  ELSE Merged(h, c.target, c.source, c.override, c.depth)

(* Thread t returns from a merge during which it was left alone. *)
ReturnsUndisturbed(t) ==
  Merges(run[t].call) /\ run'[t].pc = "returned" /\ t \notin disturbed

OfMaps(h) == \A n \in DOMAIN h : h[n].type = "Map"

(* A patch, and a copy to the whole depth or to none, that nobody disturbs *)
(* leaves the target with what it had and the source's items over it, or   *)
(* under it, at every level: although items are looked at, set and cloned  *)
(* one by one, the nested nodes last, and the source may hold nodes of the *)
(* target.                                                                 *)
MergedWhenAlone ==
  [][\A t \in Threads :
       LET c == run[t].call
       IN  /\ ReturnsUndisturbed(t) /\ OfMaps(before[t])
           /\ c.op = "PatchApply" \/ c.depth \in {0, MaxDepth}
           => Content(heap, Ref(c.target)) = Wanted(before[t], c)]_vars

(* The nodes a call may change: those the target owns, and theirs. *)
RECURSIVE Owned(_, _)
Owned(h, n) ==
  {n} \cup UNION {Owned(h, h[n].items[k].val) :
                    k \in {j \in DOMAIN h[n].items : h[n].items[j].type = "object"}}

(* A merge that nobody disturbs changes no node but those the target owns: *)
(* not the source, nor a document that an earlier patch or copy has left   *)
(* const references to in the target.                                      *)
SourcesStay ==
  [][\A t \in Threads : ReturnsUndisturbed(t) =>
       \A n \in DOMAIN before[t] \ Owned(before[t], run[t].call.target) :
          heap[n] = before[t][n]]_vars

(* Two threads hold the source each that the other is about to change. *)
Writes(t) ==
  CASE run[t].pc \in {"put", "erase", "place"} -> {run[t].level.target}
    [] run[t].pc = "write" -> {run[t].call.target}
    [] OTHER -> {}

Crossed ==
  \E t, u \in Threads : t # u /\ \E n \in Writes(t), m \in Writes(u) : {<<u, n>>, <<t, m>>} \subseteq reading

(* A call comes to its end, unless two merges that go opposite ways hold   *)
(* each other up: a source is not kept longer than its level, and however  *)
(* deep the levels go, they end.                                           *)
EveryCallReturns == \A t \in Threads : Busy(t) ~> (~Busy(t) \/ Crossed)

(* The documentation of CopyTo: "_override If true, overrides existing     *)
(* nodes in the destination node with the same key", "_depth The depth of  *)
(* the recursion".                                                         *)
CopyOverrides ==
  [][\A t \in Threads :
       LET c == run[t].call
       IN  ReturnsUndisturbed(t) /\ c.op = "CopyTo" /\ OfMaps(before[t]) /\ c.override =>
             Content(heap, Ref(c.target)) = Wanted(before[t], c)]_vars
=============================================================================
