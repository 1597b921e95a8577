----------------------------- MODULE ArrayNode -----------------------------
(***************************************************************************)
(* Array nodes and the nodes they hold: XNode over XContainerArray, with   *)
(* the parent validator that keeps a node from being in one array twice.   *)
(*                                                                         *)
(* The held nodes (Kids) are map nodes without children of their own, so   *)
(* that no cycle of parents is in question.  Each call is one step: what   *)
(* may happen between its critical sections is the subject of NodeTree.    *)
(* Assertions are compiled out.                                            *)
(***************************************************************************)
EXTENDS Integers, SequencesExt

CONSTANTS
  Arrays,
  Kids,
  Scalars,
  Empty,       \* XValueRT(): what the array is padded with
  NoNode,      \* nullptr
  NoKey,       \* no starting key
  ByAddress,   \* the kids in the order of std::map<INode::SPtr, ...>
  MaxIncrease, \* max_size_increase
  MaxLen,      \* bound: how long an array may get
  Watched,     \* the arrays whose change callback may refuse
  Careful,     \* whether every caller keeps to IsCareful
  Made         \* the calls that are made

kIdxEnd == -1                        \* (size_t)-1 and -2 in the code
kIdxLast == -2

Content == Kids \cup Scalars
Items == Content \cup {Empty}

ASSUME ArrayAssumption ==
  /\ Kids \cap Scalars = {} /\ Empty \notin Content
  /\ NoNode \notin Arrays
  /\ ByAddress \in Seq(Kids) /\ ToSet(ByAddress) = Kids
  /\ \A i, j \in DOMAIN ByAddress : ByAddress[i] = ByAddress[j] => i = j
  /\ MaxIncrease \in Nat /\ MaxLen \in Nat
  /\ Watched \subseteq Arrays
  /\ Careful \in BOOLEAN

Indexes == Nat \cup {kIdxEnd, kIdxLast}

NoNodeTwice(vs) == \A i, j \in DOMAIN vs : vs[i] = vs[j] /\ i # j => vs[i] \notin Kids

(* The calls of INode that are modelled, with their arguments. *)
Calls ==
       [op : {"Set", "Insert"}, on : Arrays, key : Indexes, val : Content]
  \cup [op : {"CompareExchange"}, on : Arrays, key : Indexes, val : Content, expected : Items]
  \cup [op : {"Erase"}, on : Arrays, key : Indexes]
  \cup [op : {"BulkErase"}, on : Arrays, keys : Seq(Indexes)]
  \cup [op : {"Clear"}, on : Arrays]
  \cup [op : {"KeyChange"}, on : Arrays, from : Indexes, to : Indexes]
  \cup [op : {"ParentSet"}, child : Kids, into : Arrays \cup {NoNode}]
  \cup {c \in [op : {"BulkSet", "BulkInsert"}, on : Arrays,
               pairs : Seq([key : Indexes, val : Content])] :
           NoNodeTwice([i \in DOMAIN c.pairs |-> c.pairs[i].val])}
  \cup {c \in [op : {"BulkInsertAt"}, on : Arrays, key : Indexes, vals : Seq(Content)] :
           NoNodeTwice(c.vals)}
  \cup [op : {"ForEach"}, on : Arrays, from : Indexes \cup {NoKey},
        erase : SUBSET Content, assign : SUBSET Content, to : Scalars]

ASSUME CallsAssumption == Made \subseteq Calls

VARIABLES
  items,       \* values_deq_ of each array
  parent       \* parent_wp_ of each kid

vars == <<items, parent>>

(* The answers of a change callback: it refuses nothing, or to let one     *)
(* value in; Empty stands for a removal.                                   *)
Refusals(a) == {{}} \cup IF a \in Watched THEN {{v} : v \in Items} ELSE {}

Init ==
  /\ items = [a \in Arrays |-> <<>>]
  /\ parent = [c \in Kids |-> NoNode]

(* op on each member of q in turn: a loop, as a function of its rounds. *)
Through(op(_, _), start, q) ==
  LET after[n \in 0..Len(q)] == IF n = 0 THEN start ELSE op(after[n - 1], q[n])
  IN  after[Len(q)]

-----------------------------------------------------------------------------
(* XContainerArray, on the sequence q of its values.                       *)

Index(q, k) == IF k # kIdxLast THEN k ELSE IF Len(q) > 1 THEN Len(q) - 1 ELSE 0

(* DeqFind_: the place of key k, 0 for the end of the deque. *)
Find(q, k) == IF Index(q, k) \in 0..(Len(q) - 1) THEN Index(q, k) + 1 ELSE 0

Grown(q, k) ==
  IF k # kIdxEnd /\ Index(q, k) - Len(q) \in 0..(MaxIncrease - 1)
  THEN q \o [i \in 1..(Index(q, k) - Len(q) + 1) |-> Empty]
  ELSE q

(* Set: the deque has grown even if the value is then not stored. *)
SetAt(q, k, v, refused) ==
  LET g == Grown(q, k)
      p == Find(g, k)
  IN  IF p = 0 \/ v \in refused \/ (p # 0 /\ g[p] = v)
      THEN [done |-> FALSE, q |-> g, old |-> Empty]
      ELSE [done |-> TRUE, q |-> ReplaceAt(g, p, v), old |-> g[p]]

(* Emplace: before the value at k, or at the end when there is none. *)
EmplaceAt(q, k, v) ==
  InsertAt(q, IF Find(q, k) = 0 THEN Len(q) + 1 ELSE Find(q, k), v)

EraseAt(q, k) == IF Find(q, k) = 0 THEN q ELSE RemoveAt(q, Find(q, k))

Has(q, v) == v \in ToSet(q)

(* Mutation: a node set at a second place stays at the first. *)
RemoveNoDuplicates(q, c, keep) == q

(* XParentValidatorArray::RemoveDuplicates takes out the first other place *)
(* of the node; `keep` is the key as it was given.                         *)
RemoveDuplicates(q, c, keep) ==
  LET others == {i \in DOMAIN q : i - 1 # keep /\ q[i] = c}
  IN  IF others = {} THEN q ELSE RemoveAt(q, Min(others))

-----------------------------------------------------------------------------
(* XNode's own steps, on a state s of items and parents.                   *)

Holding(a, q) == [items |-> [items EXCEPT ![a] = q], parent |-> parent]

Orphan(s, v) == IF v \in Kids THEN [s EXCEPT !.parent[v] = NoNode] ELSE s

(* Mutation: the former parent takes out its first value, whatever it is. *)
LeaveFirst(s, v) ==
  IF v \notin Kids \/ s.parent[v] = NoNode THEN s
  ELSE [items  |-> [s.items EXCEPT ![s.parent[v]] = SubSeq(@, 2, Len(@))],
        parent |-> [s.parent EXCEPT ![v] = NoNode]]

(* ParentDetach: the former parent takes the node out, wherever it finds   *)
(* it first; the node's name is no key of an array.                        *)
Leave(s, v) ==
  IF v \notin Kids \/ s.parent[v] = NoNode THEN s
  ELSE [items  |-> [s.items EXCEPT ![s.parent[v]] = RemoveFirst(@, v)],
        parent |-> [s.parent EXCEPT ![v] = NoNode]]

(* SetAsChild_: nothing to do for the parent it has; the former one is     *)
(* left as by ParentDetach.                                                *)
Adopt(s, a, v) ==
  IF v \notin Kids \/ s.parent[v] = a THEN s
  ELSE [Leave(s, v) EXCEPT !.parent[v] = a]

LeaveAll(s, vs) == Through(Leave, s, vs)
AdoptAll(s, a, vs) == Through(LAMBDA t, v : Adopt(t, a, v), s, vs)

(* op on the nodes of vs, in the order of a std::map of nodes. *)
InAddressOrder(op(_, _), s, vs) ==
  Through(LAMBDA t, v : IF v \in vs THEN op(t, v) ELSE t, s, ByAddress)

AdoptEach(s, a, vs) == InAddressOrder(LAMBDA t, v : Adopt(t, a, v), s, vs)

(* Each is detached from where it was, then gets its parent. *)
MoveEach(s, a, vs) == InAddressOrder(LAMBDA t, v : Adopt(Leave(t, v), a, v), s, vs)

Become(s) ==
  /\ \A a \in Arrays : Len(s.items[a]) <= MaxLen
  /\ items' = s.items
  /\ parent' = s.parent

Nothing == UNCHANGED vars
-----------------------------------------------------------------------------
Set(c, refused) ==
  LET r == SetAt(items[c.on], c.key, c.val, refused)
      q == IF c.val \in Kids THEN RemoveDuplicates(r.q, c.val, c.key) ELSE r.q
  IN  /\ c.op = "Set"
      /\ \/ ~r.done /\ Become(Holding(c.on, r.q))
         \/ r.done /\ Become(Adopt(Orphan(Holding(c.on, q), r.old), c.on, c.val))

Insert(c, refused) ==
  LET there == c.val \in Kids /\ Has(items[c.on], c.val)
  IN  /\ c.op = "Insert"
      /\ \/ (there \/ c.val \in refused) /\ Nothing
         \/ /\ ~there /\ c.val \notin refused
            /\ Become(Adopt(Holding(c.on, EmplaceAt(items[c.on], c.key, c.val)), c.on, c.val))

(* An index beyond the end counts as empty; whether Set then stored the    *)
(* value is not looked at.  The replaced node keeps its parent.            *)
CompareExchange(c, refused) ==
  LET q == items[c.on]
      p == Find(q, c.key)
      exchanged == IF p # 0 THEN ReplaceAt(q, p, c.val)
                   ELSE SetAt(q, c.key, c.val, refused).q
      expected == c.expected = IF p # 0 THEN q[p] ELSE Empty
  IN  /\ c.op = "CompareExchange"
      /\ \/ (~expected \/ (p # 0 /\ c.val \in refused)) /\ Nothing
         \/ /\ expected /\ (p = 0 \/ c.val \notin refused)
            /\ Become(Adopt(Holding(c.on, exchanged), c.on, c.val))

Erase(c, refused) ==
  LET q == items[c.on]
      p == Find(q, c.key)
  IN  /\ c.op = "Erase"
      /\ \/ (p = 0 \/ Empty \in refused) /\ Nothing
         \/ p # 0 /\ Empty \notin refused /\ Become(Leave(Holding(c.on, RemoveAt(q, p)), q[p]))

(* The keys are looked up one after the other while the values move up. *)
EraseOne(s, k) ==
  [q |-> EraseAt(s.q, k),
   out |-> IF Find(s.q, k) = 0 THEN s.out ELSE Append(s.out, s.q[Find(s.q, k)])]
EraseAll(q, keys) == Through(EraseOne, [q |-> q, out |-> <<>>], keys)

BulkErase(c) ==
  LET r == EraseAll(items[c.on], c.keys)
  IN  c.op = "BulkErase" /\ Become(LeaveAll(Holding(c.on, r.q), r.out))

Clear(c) ==
  c.op = "Clear" /\ Become(LeaveAll(Holding(c.on, <<>>), items[c.on]))

(* Mutation: the callback is asked about the new index too. *)
MovedIfApproved(q, from, to, refused) ==
  LET p == Find(q, from)
  IN  IF Find(q, to) # 0 \/ p = 0 \/ Empty \in refused THEN q
      ELSE SetAt(RemoveAt(q, p), to, q[p], refused).q

(* Only the removal is asked about.  The value is lost when the new index  *)
(* is the end, or too far beyond it.                                       *)
Moved(q, from, to, refused) ==
  LET p == Find(q, from)
  IN  IF Find(q, to) # 0 \/ p = 0 \/ Empty \in refused THEN q
      ELSE SetAt(RemoveAt(q, p), to, q[p], {}).q

KeyChange(c, refused) ==
  /\ c.op = "KeyChange"
  /\ Become(Holding(c.on, Moved(items[c.on], c.from, c.to, refused)))

(* The new parent's refusal to take the child is not looked at. *)
ParentSet(c, refused) ==
  LET s == Adopt([items |-> items, parent |-> parent], c.into, c.child)
  IN  /\ c.op = "ParentSet"
      /\ \/ parent[c.child] = c.into /\ Nothing
         \/ /\ c.into = NoNode /\ parent[c.child] # NoNode
            /\ Become(Leave([items |-> items, parent |-> parent], c.child))
         \/ /\ parent[c.child] # c.into /\ c.into # NoNode
            /\ IF Has(s.items[c.into], c.child) \/ c.child \in refused THEN Become(s)
               ELSE Become([s EXCEPT !.items[c.into] = Append(@, c.child)])

-----------------------------------------------------------------------------
(* The bulk calls.  A bulk call names no node twice.                       *)

(* The values are set in turn; `old` are those they replaced, `put` the    *)
(* nodes that were set, with their keys.                                   *)
SetOne(s, p, refused) ==
  LET r == SetAt(s.q, p.key, p.val, refused)
  IN  IF ~r.done THEN [s EXCEPT !.q = r.q]
      ELSE [q |-> r.q, old |-> Append(s.old, r.old),
            put |-> IF p.val \in Kids THEN s.put \cup {p} ELSE s.put]
SetAll(q, pairs, refused) ==
  Through(LAMBDA s, p : SetOne(s, p, refused), [q |-> q, old |-> <<>>, put |-> {}], pairs)

(* Then the duplicates of the nodes go, by the keys under which they were  *)
(* set.                                                                    *)
TidyAll(q, put) ==
  InAddressOrder(LAMBDA r, v : RemoveDuplicates(r, v, (CHOOSE p \in put : p.val = v).key),
                 q, {p.val : p \in put})

(* The replaced nodes are detached, and those that were set get their      *)
(* parent.                                                                 *)
BulkSet(c, refused) ==
  LET r == SetAll(items[c.on], c.pairs, refused)
      left == LeaveAll(Holding(c.on, TidyAll(r.q, r.put)), r.old)
  IN  /\ c.op = "BulkSet"
      /\ Become(AdoptEach(left, c.on, {p.val : p \in r.put}))

InsertOne(s, p, refused) ==
  IF (p.val \in Kids /\ Has(s.q, p.val)) \/ p.val \in refused THEN s
  ELSE [q |-> EmplaceAt(s.q, p.key, p.val), put |-> s.put \cup ({p.val} \cap Kids)]
InsertAll(q, pairs, refused) ==
  Through(LAMBDA s, p : InsertOne(s, p, refused), [q |-> q, put |-> {}], pairs)

BulkInsert(c, refused) ==
  LET r == InsertAll(items[c.on], c.pairs, refused)
  IN  c.op = "BulkInsert" /\ Become(MoveEach(Holding(c.on, r.q), c.on, r.put))

(* Values one after the other from position k on. *)
InsertNext(s, v, refused) ==
  IF (v \in Kids /\ Has(s.q, v)) \/ v \in refused THEN s
  ELSE [q |-> EmplaceAt(s.q, s.at, v),
        at |-> IF s.at \in {kIdxEnd, kIdxLast} THEN s.at ELSE s.at + 1,
        put |-> Append(s.put, v)]
InsertAllAt(q, k, vals, refused) ==
  Through(LAMBDA s, v : InsertNext(s, v, refused), [q |-> q, at |-> k, put |-> <<>>], vals)

BulkInsertAt(c, refused) ==
  LET r == InsertAllAt(items[c.on], c.key, c.vals, refused)
  IN  c.op = "BulkInsertAt" /\ Become(AdoptAll(Holding(c.on, r.q), c.on, r.put))

(* What ForEach visits, from its starting key on: the place of the first,  *)
(* 0 if there is none.                                                     *)
First(q, from) ==
  IF from # NoKey THEN Find(q, from) ELSE IF Len(q) > 0 THEN 1 ELSE 0

(* The callback erases the values in c.erase and overwrites those in       *)
(* c.assign with the scalar c.to.                                          *)
TreatOne(c, q, v, refused) ==
  IF v \in c.erase /\ Empty \notin refused THEN q
  ELSE Append(q, IF v \in c.assign /\ c.to \notin refused THEN c.to ELSE v)
Treated(c, before, visited, refused) ==
  Through(LAMBDA q, v : TreatOne(c, q, v, refused), before, visited)

(* The nodes among them are detached, also those whose change was refused. *)
LeaveTreated(c, s, visited) ==
  Through(LAMBDA t, v : IF v \in c.erase \cup c.assign THEN Leave(t, v) ELSE t, s, visited)

ForEach(c, refused) ==
  LET q == items[c.on]
      first == First(q, c.from)
      visited == SubSeq(q, first, Len(q))
      treated == Treated(c, SubSeq(q, 1, first - 1), visited, refused)
  IN  /\ c.op = "ForEach"
      /\ \/ first = 0 /\ Nothing
         \/ first # 0 /\ Become(LeaveTreated(c, Holding(c.on, treated), visited))

-----------------------------------------------------------------------------
AskedOn(c) == IF c.op = "ParentSet" THEN c.into ELSE c.on
CanMoveTo(q, k) == k # kIdxEnd /\ k < Len(q) - 1 + MaxIncrease
HasAt(q, k, v) == Find(q, k) # 0 /\ q[Find(q, k)] = v

(* The calls that keep arrays and parents in agreement.  What each         *)
(* condition excludes, the code gets wrong.                                *)
IsCareful(c) ==
  LET q == items[AskedOn(c)] IN
  CASE c.op = "Set" -> c.val \in Kids => c.key # kIdxLast
    [] c.op = "CompareExchange" ->
         /\ c.expected \notin Kids
         /\ c.val \in Kids =>
              /\ ~Has(q, c.val)
              /\ Find(Grown(q, c.key), c.key) # 0
              /\ c.on \in Watched => Find(q, c.key) # 0
    [] c.op = "KeyChange" -> CanMoveTo(q, c.to)
    [] c.op = "ParentSet" -> c.into \notin Watched
    [] c.op = "BulkSet" ->
         \A i \in DOMAIN c.pairs :
           c.pairs[i].val \in Kids =>
             /\ c.pairs[i].key # kIdxLast
             /\ \A j \in DOMAIN c.pairs \ {i} :
                  /\ c.pairs[j].key \notin {c.pairs[i].key, kIdxLast}
                  /\ Has(q, c.pairs[i].val) =>
                       c.pairs[j].val \notin Kids /\ ~HasAt(q, c.pairs[j].key, c.pairs[i].val)
    [] c.op = "ForEach" -> c.on \in Watched => (c.erase \cup c.assign) \cap Kids = {}
    [] OTHER -> TRUE

Call(c, refused) ==
  \/ Set(c, refused) \/ Insert(c, refused) \/ CompareExchange(c, refused)
  \/ Erase(c, refused) \/ BulkErase(c) \/ Clear(c)
  \/ KeyChange(c, refused)
  \/ ParentSet(c, refused)
  \/ BulkSet(c, refused) \/ BulkInsert(c, refused) \/ BulkInsertAt(c, refused)
  \/ ForEach(c, refused)

Next ==
  \E c \in Made : \E refused \in Refusals(AskedOn(c)) :
    (Careful => IsCareful(c)) /\ Call(c, refused)

Spec == Init /\ [][Next]_vars

-----------------------------------------------------------------------------
TypeOK ==
  /\ items \in [Arrays -> Seq(Items)]
  /\ parent \in [Kids -> Arrays \cup {NoNode}]

(* A node is held where its parent says, once, and nowhere else, after     *)
(* every call: what ParentsCheck looks for, and that no array holds a node *)
(* twice.  Set, BulkSet, the validator and the detaching of replaced nodes *)
(* have to agree for it, over indexes that move.                           *)
Places(c) == {p \in Arrays \X (1..MaxLen) : p[2] <= Len(items[p[1]]) /\ items[p[1]][p[2]] = c}
HeldOnceByParent ==
  \A c \in Kids :
    IF parent[c] = NoNode THEN Places(c) = {}
    ELSE Cardinality(Places(c)) = 1 /\ \A p \in Places(c) : p[1] = parent[c]

(* r is q without the members in gone: the places of q that are kept.      *)
IsWithout(r, q, gone) ==
  \E kept \in [1..Len(r) -> 1..Len(q)] :
    /\ \A i, j \in 1..Len(r) : i < j => kept[i] < kept[j]
    /\ \A i \in 1..Len(r) : r[i] = q[kept[i]]
    /\ \A n \in 1..Len(q) : (\E i \in 1..Len(r) : kept[i] = n) <=> q[n] \notin gone

(* A call changes one array; from the others only nodes that got another   *)
(* parent, or none, are missing, and the rest keeps its order.             *)
OthersOnlyLoseNodes ==
  [][\E a \in Arrays : \A b \in Arrays \ {a} :
       IsWithout(items'[b], items[b], {c \in Kids : parent'[c] # b})]_vars

(* To move a value to a free index within reach loses none and doubles     *)
(* none, whatever the callback answers: KeyChange asks only before it      *)
(* takes the value out, never before it puts it back.                      *)
Times(q, v) == Cardinality({i \in DOMAIN q : q[i] = v})
KeyChangeKeepsValues ==
  \A a \in Arrays : \A from, to \in 0..MaxLen : \A refused \in Refusals(a) :
    CanMoveTo(items[a], to) =>
      \A v \in Content :
        Times(Moved(items[a], from, to, refused), v) = Times(items[a], v)
=============================================================================
