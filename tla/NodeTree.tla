------------------------------ MODULE NodeTree ------------------------------
(***************************************************************************)
(* The tree of map nodes that several threads change through XNode.        *)
(*                                                                         *)
(* A node keeps its entries under one lock (container_rw_) and its parent  *)
(* and name under another (parent_n_name_rw_).  A call that attaches or    *)
(* detaches a child takes several of these critical sections one after the *)
(* other, on two or three nodes, and holds nothing between them.  Here     *)
(* each critical section is one step; what a thread carries from one to    *)
(* the next are the local variables of its call, run[t].                   *)
(*                                                                         *)
(* The program keeps a reference to every node, so a weak parent pointer   *)
(* does not expire.  Assertions are compiled out.                          *)
(***************************************************************************)
EXTENDS FiniteSets

CONSTANTS
  Nodes,       \* map nodes
  Names,       \* the keys of their entries, which are the names of children
  Scalars,     \* values that are not nodes
  Threads,
  CallsOf,     \* the calls each thread may make
  Careful,     \* whether every caller keeps to IsCareful
  Watched,     \* the nodes whose change callback may refuse a change
  BirthName,   \* the name each node was created with
  NoNode,      \* nullptr
  NoName,      \* the empty name
  Keep,        \* no new name was given
  NoEntry,     \* no entry under this key
  Erased       \* the entry of an erased key

ASSUME ValuesAssumption ==
  /\ Nodes \cap Scalars = {}
  /\ {NoNode, NoEntry, Erased} \cap (Nodes \cup Scalars) = {}
  /\ NoEntry # Erased
  /\ {NoName, Keep} \cap Names = {}
  /\ NoName # Keep
  /\ BirthName \in [Nodes -> Names \cup {NoName}]
  /\ Watched \subseteq Nodes
  /\ Careful \in BOOLEAN

Values == Nodes \cup Scalars

(* The calls of INode that are modelled, with their arguments. *)
Calls ==
       [op : {"Set", "Insert"}, self : Nodes, key : Names, val : Values]
  \cup [op : {"CompareExchange"}, self : Nodes, key : Names, val : Values,
        expected : Values \cup {NoEntry}]
  \cup [op : {"Erase"}, self : Nodes, key : Names]
  \cup [op : {"BulkErase"}, self : Nodes, keys : SUBSET Names]
  \cup [op : {"Clear"}, self : Nodes]
  \cup [op : {"KeyChange"}, self : Nodes, key : Names, to : Names \cup {NoName}]
  \cup [op : {"ParentSet"}, self : Nodes, into : Nodes \cup {NoNode},
        name : Names \cup {NoName, Keep}]
  \cup [op : {"NameSet"}, self : Nodes, to : Names \cup {NoName}, update : BOOLEAN]

ASSUME CallsAssumption == CallsOf \in [Threads -> SUBSET Calls]

(* No caller renames an attached child to the empty name. *)
NamesGiven ==
  \A t \in Threads : \A c \in CallsOf[t] :
    c.op = "KeyChange" \/ (c.op = "NameSet" /\ c.update) => c.to # NoName

VARIABLES
  entries,     \* the container of each node, erased entries included
  parent,      \* parent_wp_
  name,        \* name_p_
  run          \* where each thread is, and what it carries along

vars == <<entries, parent, name, run>>

NoCall == [op |-> "none"]

(* ok is what the call returns, so far: an idle thread keeps that of its   *)
(* last call.                                                              *)
Idle == [pc |-> "idle", call |-> NoCall, at |-> NoNode, child |-> NoNode,
         into |-> NoNode, name |-> Keep, prev |-> NoNode, pending |-> {}, ok |-> FALSE]

HasValue(n, k) == entries[n][k] \in Values
Held(n) == {k \in Names : entries[n][k] \in Nodes}

(* The node a value is, if any: XValue::QueryPtr<INode>. *)
NodeOf(v) == IF v \in Nodes THEN v ELSE NoNode

Answers(n) == IF n \in Watched THEN BOOLEAN ELSE {TRUE}

Init ==
  /\ entries = [n \in Nodes |-> [k \in Names |-> NoEntry]]
  /\ parent = [n \in Nodes |-> NoNode]
  /\ name = BirthName
  /\ run = [t \in Threads |-> Idle]

-----------------------------------------------------------------------------
(* The calls a careful program makes.  Each condition keeps clear of one   *)
(* of the ways in which a call leaves parents and entries disagreeing.     *)

(* Attaching c under key k is safe when c has no parent, or when its old   *)
(* parent is another node that has no other value under the new name.      *)
FreeToMove(c, n, k) ==
  parent[c] # NoNode =>
    parent[c] # n /\ entries[parent[c]][k] \in {NoEntry, Erased, c}

IsCareful(c) ==
  CASE c.op \in {"Set", "Insert"} ->
         c.val \in Nodes => entries[c.self][c.key] = c.val \/ FreeToMove(c.val, c.self, c.key)
    [] c.op = "CompareExchange" ->
         /\ entries[c.self][c.key] \notin Nodes
         /\ c.val \in Nodes =>
              /\ c.val # c.self /\ parent[c.val] = NoNode
              /\ \A k \in Names : ~HasValue(c.val, k)
              /\ c.self \notin Watched
    [] c.op = "ParentSet" /\ c.into = NoNode -> c.name = Keep
    [] c.op = "ParentSet" /\ c.into # NoNode ->
         LET k == IF c.name = Keep THEN name[c.self] ELSE c.name
         IN  k # NoName =>
               /\ c.into \notin Watched
               /\ FreeToMove(c.self, c.into, k)
               /\ entries[c.into][k] \notin Nodes
    [] c.op = "KeyChange" -> c.to # NoName
    [] c.op = "NameSet" -> c.update => c.to # NoName
    [] OTHER -> TRUE

-----------------------------------------------------------------------------
(* Where a call goes next, from the local variables r of its thread.       *)

Returned(ok) == [Idle EXCEPT !.ok = ok]

(* Mutation: the child is entered and never told its parent. *)
SetAsChildSkipped(r) == Returned(r.ok)

(* Set, Insert and CompareExchange end with SetAsChild_. *)
SetAsChild(r) ==
  IF r.child = NoNode THEN Returned(r.ok)
  ELSE [r EXCEPT !.pc = "checkParent", !.at = r.into]

(* Erase, BulkErase and Clear end with ParentDetach of what was removed. *)
DetachRemoved(r) ==
  IF r.pending = {} THEN Returned(r.ok) ELSE [r EXCEPT !.pc = "detach"]

(* Mutation: ParentSet ends where SetAsChild_ does. *)
AddToParentSkipped(r) == DetachRemoved([r EXCEPT !.prev = NoNode])

(* ParentSet goes on to enter the child in the container of its parent. *)
AddToParent(r) ==
  IF r.call.op = "ParentSet" /\ r.into # NoNode THEN [r EXCEPT !.pc = "nameGet"]
  ELSE DetachRemoved([r EXCEPT !.prev = NoNode])

-----------------------------------------------------------------------------
Started(c) ==
  LET r == [Idle EXCEPT !.call = c]
  IN  IF c.op \in {"Set", "Insert", "CompareExchange"}
      THEN [r EXCEPT !.pc = IF c.op # "CompareExchange" /\ c.val \in Nodes
                            THEN "checkChild" ELSE "container",
                     !.at = c.self, !.child = NodeOf(c.val), !.into = c.self, !.name = c.key]
      ELSE IF c.op = "ParentSet"
      THEN [r EXCEPT !.pc = IF c.into = NoNode THEN "link" ELSE "checkParent",
                     !.at = c.into, !.child = c.self, !.into = c.into, !.name = c.name]
      ELSE [r EXCEPT !.pc = IF c.op = "NameSet" THEN "name" ELSE "container"]

Begin(t, c) ==
  /\ run[t].pc = "idle"
  /\ Careful => IsCareful(c)
  /\ run' = [run EXCEPT ![t] = Started(c)]
  /\ UNCHANGED <<entries, parent, name>>

(* Mutation: the child is looked for above the new parent only. *)
ClimbAboveStart(r, onTop) ==
  LET up == parent[r.at]
  IN  IF up = r.child \/ up = r.into THEN Returned(r.ok)
      ELSE IF up = NoNode THEN [r EXCEPT !.pc = onTop, !.at = NoNode]
      ELSE [r EXCEPT !.at = up]

(* One round of the loops of IsValidChild_ and IsValidParent_, which climb *)
(* from the new parent in search of the child, and give up on a cycle      *)
(* through the node they started from.                                     *)
Climb(r, onTop) ==
  LET up == parent[r.at]
  IN  IF r.at = r.child \/ up = r.into THEN Returned(r.ok)
      ELSE IF up = NoNode THEN [r EXCEPT !.pc = onTop, !.at = NoNode]
      ELSE [r EXCEPT !.at = up]

IsValidChild(t) ==
  /\ run[t].pc = "checkChild"
  /\ run' = [run EXCEPT ![t] = Climb(run[t], "container")]
  /\ UNCHANGED <<entries, parent, name>>

(* Mutation: a new parent is never looked at. *)
IsValidParentSkipped(t) ==
  /\ run[t].pc = "checkParent"
  /\ run' = [run EXCEPT ![t] = [@ EXCEPT !.pc = "link", !.at = NoNode]]
  /\ UNCHANGED <<entries, parent, name>>

IsValidParent(t) ==
  /\ run[t].pc = "checkParent"
  /\ run' = [run EXCEPT ![t] = Climb(run[t], "link")]
  /\ UNCHANGED <<entries, parent, name>>

-----------------------------------------------------------------------------
(* PrivateParentSet after IsValidParent_: name and parent change together. *)

NewName(r) == IF r.name = Keep THEN name[r.child] ELSE r.name

(* Mutation: a nameless child may be put into a map node. *)
MayLinkNameless(r) == parent[r.child] # r.into

MayLink(r) ==
  /\ parent[r.child] # r.into
  /\ r.into # NoNode => NewName(r) # NoName

(* Mutation: the child is left in the container of its previous parent. *)
LeaveParentKeepsEntry(r) == AddToParent([r EXCEPT !.ok = TRUE])

LeaveParent(r) ==
  IF parent[r.child] = NoNode THEN AddToParent([r EXCEPT !.ok = TRUE])
  ELSE [r EXCEPT !.pc = "eraseOld", !.prev = parent[r.child], !.ok = TRUE]

(* SetAsChild_ ignores a failure, ParentSet returns it. *)
PrivateParentSet(t, r) ==
  /\ \/ /\ MayLink(r)
        /\ parent' = [parent EXCEPT ![r.child] = r.into]
        /\ name' = [name EXCEPT ![r.child] = NewName(r)]
        /\ run' = [run EXCEPT ![t] = LeaveParent(r)]
     \/ /\ ~MayLink(r)
        /\ run' = [run EXCEPT ![t] = DetachRemoved(r)]
        /\ UNCHANGED <<parent, name>>
  /\ UNCHANGED entries

Link(t) ==
  /\ run[t].pc = "link"
  /\ PrivateParentSet(t, run[t])

(* ParentDetach of one of the removed nodes, in any order. *)
Detach(t) ==
  /\ run[t].pc = "detach"
  /\ \E p \in run[t].pending :
       PrivateParentSet(t, [run[t] EXCEPT !.child = p[2], !.into = NoNode, !.name = Keep,
                                          !.pending = @ \ {p}])

(* Mutation: the entry is chosen by the child's name only. *)
OldEntriesNamed(r) == {name[r.child]} \cap {k \in Names : HasValue(r.prev, k)}

(* Mutation: the search takes the first node it meets for the child. *)
OldEntriesAnyNode(r) ==
  LET named == {name[r.child]} \cap {k \in Names : HasValue(r.prev, k)}
  IN  IF named # {} THEN named ELSE Held(r.prev)

(* The entry under the child's present name, if it has any value; else one *)
(* that holds the child.                                                   *)
OldEntries(r) ==
  LET named == {name[r.child]} \cap {k \in Names : HasValue(r.prev, k)}
  IN  IF named # {} THEN named ELSE {k \in Names : entries[r.prev][k] = r.child}

(* PrivateErase on the previous parent, without asking the callback. *)
PrivateErase(t) ==
  LET r == run[t]
  IN  /\ r.pc = "eraseOld"
      /\ \/ OldEntries(r) = {} /\ UNCHANGED entries
         \/ \E k \in OldEntries(r) : entries' = [entries EXCEPT ![r.prev][k] = Erased]
      /\ run' = [run EXCEPT ![t] = AddToParent(r)]
      /\ UNCHANGED <<parent, name>>

(* ParentSet reads the name again ... *)
NameGet(t) ==
  /\ run[t].pc = "nameGet"
  /\ run' = [run EXCEPT ![t] = [@ EXCEPT !.name = name[run[t].child], !.pc = "place"]]
  /\ UNCHANGED <<entries, parent, name>>

(* ... and enters the child under it: PrivateSet.  It returns true even if *)
(* the callback refused, and a node that was there keeps its parent.       *)
PrivateSet(t) ==
  LET r == run[t]
  IN  /\ r.pc = "place"
      /\ \/ /\ r.name \in Names
            /\ entries' = [entries EXCEPT ![r.into][r.name] = r.child]
         \/ /\ r.name = NoName \/ FALSE \in Answers(r.into)
            /\ UNCHANGED entries
      /\ run' = [run EXCEPT ![t] = Returned(TRUE)]
      /\ UNCHANGED <<parent, name>>

-----------------------------------------------------------------------------
(* The sections under the lock of a node's container.                      *)

InContainer(t, op) == run[t].pc = "container" /\ run[t].call.op = op

GiveUp(t) ==
  /\ run' = [run EXCEPT ![t] = Returned(FALSE)]
  /\ UNCHANGED <<entries, parent, name>>

(* Mutation: a node that is replaced keeps its parent. *)
ReplacedIsKept(r, old) == SetAsChild([r EXCEPT !.ok = TRUE])

Replaced(r, old) ==
  IF old \in Nodes THEN [r EXCEPT !.pc = "orphan", !.prev = old, !.ok = TRUE]
  ELSE SetAsChild([r EXCEPT !.ok = TRUE])

Set(t) ==
  LET r == run[t]
      c == r.call
      old == entries[c.self][c.key]
  IN  /\ InContainer(t, "Set")
      /\ \/ old = c.val /\ GiveUp(t)
         \/ /\ old # c.val
            /\ \E allowed \in Answers(c.self) :
                 \/ ~allowed /\ GiveUp(t)
                 \/ /\ allowed
                    /\ entries' = [entries EXCEPT ![c.self][c.key] = c.val]
                    /\ run' = [run EXCEPT ![t] = Replaced(r, old)]
                    /\ UNCHANGED <<parent, name>>

(* The node that Set replaced loses its parent, whichever that is by now. *)
Orphan(t) ==
  /\ run[t].pc = "orphan"
  /\ parent' = [parent EXCEPT ![run[t].prev] = NoNode]
  /\ run' = [run EXCEPT ![t] = SetAsChild([@ EXCEPT !.prev = NoNode])]
  /\ UNCHANGED <<entries, name>>

(* Insert fails on any entry, an erased one included. *)
Insert(t) ==
  LET r == run[t]
      c == r.call
  IN  /\ InContainer(t, "Insert")
      /\ \/ entries[c.self][c.key] # NoEntry /\ GiveUp(t)
         \/ /\ entries[c.self][c.key] = NoEntry
            /\ \E allowed \in Answers(c.self) :
                 \/ ~allowed /\ GiveUp(t)
                 \/ /\ allowed
                    /\ entries' = [entries EXCEPT ![c.self][c.key] = c.val]
                    /\ run' = [run EXCEPT ![t] = SetAsChild([r EXCEPT !.ok = TRUE])]
                    /\ UNCHANGED <<parent, name>>

(* An absent or erased key counts as an empty value.  When the callback    *)
(* refuses to fill it, the assertion that it did not is compiled out and   *)
(* the call goes on as if it had been filled.                              *)
CompareExchange(t) ==
  LET r == run[t]
      c == r.call
      old == entries[c.self][c.key]
      done == run' = [run EXCEPT ![t] = SetAsChild([r EXCEPT !.ok = TRUE])]
      written == entries' = [entries EXCEPT ![c.self][c.key] = c.val]
  IN  /\ InContainer(t, "CompareExchange")
      /\ \/ /\ c.expected # IF HasValue(c.self, c.key) THEN old ELSE NoEntry
            /\ GiveUp(t)
         \/ /\ HasValue(c.self, c.key) /\ c.expected = old
            /\ \E allowed \in Answers(c.self) :
                 \/ ~allowed /\ GiveUp(t)
                 \/ allowed /\ written /\ done /\ UNCHANGED <<parent, name>>
         \/ /\ ~HasValue(c.self, c.key) /\ c.expected = NoEntry
            /\ \E allowed \in Answers(c.self) :
                 IF allowed THEN written ELSE UNCHANGED entries
            /\ done
            /\ UNCHANGED <<parent, name>>

(* Erase, BulkErase and Clear take values out of a container; the nodes    *)
(* among them are detached after the lock is released.                     *)
TakeOut(t, keys, left) ==
  LET n == run[t].call.self
  IN  /\ entries' = [entries EXCEPT ![n] = left]
      /\ run' = [run EXCEPT ![t] =
           DetachRemoved([@ EXCEPT !.ok = TRUE,
                                   !.pending = {<<k, entries[n][k]>> : k \in keys \cap Held(n)}])]
      /\ UNCHANGED <<parent, name>>

Tombed(n, keys) ==
  [k \in Names |-> IF k \in keys /\ HasValue(n, k) THEN Erased ELSE entries[n][k]]

Erase(t) ==
  LET c == run[t].call
  IN  /\ InContainer(t, "Erase")
      /\ \/ ~HasValue(c.self, c.key) /\ GiveUp(t)
         \/ /\ HasValue(c.self, c.key)
            /\ \E allowed \in Answers(c.self) :
                 IF allowed THEN TakeOut(t, {c.key}, Tombed(c.self, {c.key})) ELSE GiveUp(t)

BulkErase(t) ==
  /\ InContainer(t, "BulkErase")
  /\ TakeOut(t, run[t].call.keys, Tombed(run[t].call.self, run[t].call.keys))

Clear(t) ==
  /\ InContainer(t, "Clear")
  /\ TakeOut(t, Names, [k \in Names |-> NoEntry])

(* KeyChange asks once, to erase the old key.  A map node does not take    *)
(* the empty key: the assertion that the value was set is compiled out.    *)
(* The node that moved gets its new name after the lock is released.       *)
KeyChange(t) ==
  LET r == run[t]
      c == r.call
      moved == entries[c.self][c.key]
      taken == c.to \in Names /\ entries[c.self][c.to] # NoEntry
  IN  /\ InContainer(t, "KeyChange")
      /\ \/ (taken \/ moved \notin Values) /\ GiveUp(t)
         \/ /\ ~taken /\ moved \in Values
            /\ \E allowed \in Answers(c.self) :
                 \/ ~allowed /\ GiveUp(t)
                 \/ /\ allowed
                    /\ entries' = [entries EXCEPT ![c.self] =
                         [k \in Names |-> IF k = c.key THEN Erased
                                          ELSE IF k = c.to THEN moved
                                          ELSE entries[c.self][k]]]
                    /\ run' = [run EXCEPT ![t] =
                         IF moved \in Nodes
                         THEN [r EXCEPT !.pc = "rename", !.child = moved, !.name = c.to]
                         ELSE Returned(TRUE)]
                    /\ UNCHANGED <<parent, name>>

PrivateNameSet(t) ==
  /\ run[t].pc = "rename"
  /\ name' = [name EXCEPT ![run[t].child] = run[t].name]
  /\ run' = [run EXCEPT ![t] = Returned(TRUE)]
  /\ UNCHANGED <<entries, parent>>

-----------------------------------------------------------------------------
(* NameSet, up to where it releases the child's lock.  A child of a map    *)
(* node is renamed by the KeyChange of its parent, which comes later.      *)
NameSet(t) ==
  LET c == run[t].call
      free == name[c.self] = NoName \/ parent[c.self] = NoNode
  IN  /\ run[t].pc = "name"
      /\ \/ /\ c.to = name[c.self] \/ free
            /\ name' = [name EXCEPT ![c.self] = c.to]
            /\ run' = [run EXCEPT ![t] = Returned(TRUE)]
         \/ /\ c.to # name[c.self] /\ ~free
            /\ run' = [run EXCEPT ![t] =
                 IF c.update
                 THEN [@ EXCEPT !.pc = "container",
                                !.call = [op |-> "KeyChange", self |-> parent[c.self],
                                          key |-> name[c.self], to |-> c.to]]
                 ELSE Returned(FALSE)]
            /\ UNCHANGED name
      /\ UNCHANGED <<entries, parent>>

-----------------------------------------------------------------------------
Section(t) ==
  \/ Set(t) \/ Insert(t) \/ CompareExchange(t)
  \/ Erase(t) \/ BulkErase(t) \/ Clear(t)
  \/ KeyChange(t)

Step(t) ==
  \/ IsValidChild(t) \/ IsValidParent(t)
  \/ Section(t)
  \/ Orphan(t)
  \/ Link(t) \/ Detach(t) \/ PrivateErase(t)
  \/ NameGet(t) \/ PrivateSet(t)
  \/ PrivateNameSet(t)
  \/ NameSet(t)

Next == \E t \in Threads : (\E c \in CallsOf[t] : Begin(t, c)) \/ Step(t)

Spec == Init /\ [][Next]_vars

(* Every critical section is finite and a thread that has begun a call is  *)
(* scheduled until it returns; nobody has to call anything.                *)
FairSpec == Spec /\ \A t \in Threads : WF_vars(Step(t))

-----------------------------------------------------------------------------
Points ==
  {"idle", "checkChild", "checkParent", "container", "orphan", "link", "detach",
   "eraseOld", "nameGet", "place", "rename", "name"}

Locals ==
  [pc : Points, call : Calls \cup {NoCall},
   at : Nodes \cup {NoNode}, child : Nodes \cup {NoNode},
   into : Nodes \cup {NoNode}, name : Names \cup {NoName, Keep},
   prev : Nodes \cup {NoNode}, pending : SUBSET (Names \X Nodes), ok : BOOLEAN]

TypeOK ==
  /\ entries \in [Nodes -> [Names -> Values \cup {NoEntry, Erased}]]
  /\ parent \in [Nodes -> Nodes \cup {NoNode}]
  /\ name \in [Nodes -> Names \cup {NoName}]
  /\ run \in [Threads -> Locals]

(* A child of a map node has a name at every moment, whatever the threads  *)
(* do: PrivateErase and NameSet look its entry up by that name.            *)
NamedChild == \A n \in Nodes : parent[n] # NoNode => name[n] # NoName

(* No node is its own ancestor, at any moment.  The climbing loops and     *)
(* every recursion over the tree end because of it.                        *)
Acyclic ==
  \A loop \in SUBSET Nodes : loop # {} => \E n \in loop : parent[n] \notin loop

(* What a thread carries along, at each point where it uses it. *)
Carries(r) ==
  /\ r.pc \in {"checkChild", "checkParent"} => NoNode \notin {r.at, r.child, r.into}
  /\ r.pc \in {"link", "eraseOld", "nameGet", "place", "rename"} => r.child # NoNode
  /\ r.pc = "container" /\ r.call.op \in {"Set", "Insert", "CompareExchange"}
       => r.into # NoNode
  /\ r.pc \in {"eraseOld", "orphan"} => r.prev # NoNode
  /\ r.pc \in {"orphan", "nameGet", "place"} => r.into # NoNode
  /\ r.pc = "place" => r.name # Keep
  /\ r.pc = "rename" => r.name \in Names

(* The call it is in; none is to rename an attached child to nothing. *)
InCall(r) ==
  /\ r.pc # "idle" => r.call \in Calls
  /\ r.pc = "name" => r.call.op = "NameSet"
  /\ r.call.op = "KeyChange" => r.call.to # NoName
  /\ r.call.op = "NameSet" => (r.call.update => r.call.to # NoName)

(* NamedChild made inductive. *)
NamedInv ==
  TypeOK /\ NamedChild /\ \A t \in Threads : Carries(run[t]) /\ InCall(run[t])

AllIdle == \A t \in Threads : run[t].pc = "idle"

(* What ParentsCheck tests, between calls: an entry that holds a node is   *)
(* that node's place, under its name ...                                   *)
HeldIsChild ==
  AllIdle => \A n \in Nodes : \A k \in Held(n) :
    parent[entries[n][k]] = n /\ name[entries[n][k]] = k

(* ... and a node that has a parent is held by it. *)
ChildIsHeld ==
  AllIdle => \A n \in Nodes :
    parent[n] # NoNode => \E k \in Names : entries[parent[n]][k] = n

(* Taking a child out of its old parent removes no other value from it. *)
NoCollateralErase ==
  [][\A t \in Threads : run[t].pc = "eraseOld" /\ run'[t] # run[t] =>
       \A k \in Names : \/ entries'[run[t].prev][k] = entries[run[t].prev][k]
                        \/ entries[run[t].prev][k] = run[t].child]_vars

(* When a call that attaches a child returns true, the child has the new   *)
(* parent and the parent has the child.                                    *)
SuccessAttaches ==
  [][\A t \in Threads :
       LET r == run[t]
           attached == r.child # NoNode /\ r.into # NoNode
       IN  r.pc # "idle" /\ run'[t].pc = "idle" /\ run'[t].ok /\ attached =>
             /\ parent'[r.child] = r.into
             /\ \E k \in Names : entries'[r.into][k] = r.child]_vars

(* Every call returns, however deep the tree its climb goes through and    *)
(* whatever is moved meanwhile, unless other calls go on for ever changing *)
(* parents beside it: a climb looks at one parent at a time, and a tree    *)
(* that is turned over ahead of it again and again can keep it going.      *)
EveryCallReturns ==
  \A t \in Threads :
    \/ (run[t].pc # "idle" ~> run[t].pc = "idle")
    \/ []<><<parent' # parent /\ run'[t] = run[t]>>_vars
=============================================================================
