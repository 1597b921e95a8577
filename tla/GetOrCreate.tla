---------------------------- MODULE GetOrCreate ----------------------------
(***************************************************************************)
(* Reaching a node by key or by path, creating what is missing.            *)
(*                                                                         *)
(* NodeGetByKey reads a value, makes a node when there is none, and puts   *)
(* it in with CompareExchange; when another thread was faster it looks     *)
(* again.  NodeGet does so for each key of a path, and Set, Insert, At,    *)
(* Erase and EmplaceToArray by path do their work on the node they reach.  *)
(* Each critical section of a container, or of a node's parent and name,   *)
(* is one step; run[t] is what thread t carries from one to the next.      *)
(*                                                                         *)
(* Keys are strings.  Values that are set are not nodes, so every node of  *)
(* the tree was created on the way to it, and no ancestor is ever put      *)
(* under its descendant: the walks over ancestors of NodeTree always       *)
(* succeed here and are left out.                                          *)
(***************************************************************************)
EXTENDS FiniteSets, SequencesExt

CONSTANTS
  Nodes,       \* Root and the nodes that may be created
  Root,        \* the map node every call starts from
  Keys,
  Scalars,     \* values that are neither nodes nor empty
  Threads,
  CallsOf,     \* the calls each thread may make, each of them once
  MaxCalls,    \* the number of calls a thread makes
  Present,     \* the values Root has at first
  Refusable,   \* the places <<node, key>> whose change a callback may refuse
  Kept,        \* keys whose nodes no caller overwrites
  KindAt,      \* the type callers want of the nodes under each kept key
  NoNode,      \* nullptr
  NoName,      \* the empty name
  NoEntry,     \* no entry under this key, and the empty value
  Erased,      \* the entry of an erased key
  Blank        \* null or an empty string: there, yet IsEmpty

Values == Nodes \cup Scalars \cup {Blank}

Calls ==
       [op : {"NodeGet"}, path : Seq(Keys), type : {"Map", "Array", "Any"}, convert : BOOLEAN]
  \cup [op : {"Set", "Insert", "EmplaceToArray"}, path : Seq(Keys), val : Scalars]
  \cup [op : {"At", "Erase"}, path : Seq(Keys)]

ASSUME ValuesAssumption ==
  /\ Root \in Nodes
  /\ Nodes \cap Scalars = {}
  /\ {NoNode, NoEntry, Erased, Blank} \cap (Nodes \cup Scalars) = {}
  /\ NoEntry # Erased /\ NoEntry # Blank /\ Erased # Blank
  /\ NoName \notin Keys
  /\ Present \in [Keys -> Scalars \cup {Blank, NoEntry}]
  /\ Refusable \subseteq Nodes \X Keys

ASSUME CallsAssumption ==
  CallsOf \in [Threads -> SUBSET {c \in Calls : c.path # <<>>}]

(* The type of the nodes on the way: an index would ask for an array, a    *)
(* string asks for a map.  Without a type nothing is asked for.            *)
TypeFor(c) ==
  CASE c.op = "NodeGet" -> c.type
    [] c.op \in {"Set", "Insert", "EmplaceToArray"} -> "Map"
    [] c.op \in {"At", "Erase"} -> "Any"

(* Callers agree on the nodes under kept keys: none sets, inserts, erases  *)
(* or replaces anything there, and all want a node of the same type.       *)
Agrees(c) ==
  LET last == Len(c.path)
      wants(i, type) == c.path[i] \in Kept => KindAt[c.path[i]] = type
  IN  /\ \A i \in 1 .. last - 1 : wants(i, "Map")
      /\ c.op \in {"Set", "Insert", "Erase"} => c.path[last] \notin Kept
      /\ c.op = "NodeGet" => wants(last, IF c.type = "Any" THEN "Map" ELSE c.type)
      /\ c.op = "EmplaceToArray" =>
           /\ wants(last, "Array")
           /\ last > 1 => c.path[last] \notin Kept

ASSUME KeptAssumption ==
  /\ Kept \subseteq Keys
  /\ KindAt \in [Kept -> {"Map", "Array"}]
  /\ \A t \in Threads : \A c \in CallsOf[t] : Agrees(c)
  /\ \A p \in Refusable : p[2] \notin Kept

VARIABLES
  kind,        \* Type() of each node
  born,        \* the nodes created so far
  entry,       \* the containers of the map nodes
  list,        \* the containers of the array nodes
  parent,      \* parent_wp_
  name,        \* name_p_
  run,         \* where each thread is, and what it carries along
  begun,       \* the calls each thread has made
  succeeded,   \* those that have returned success
  handed       \* the nodes NodeGetByKey has returned, by node and kept key

nodeVars == <<entry, list, parent, name>>
callVars == <<begun, succeeded, handed>>
vars == <<kind, born, nodeVars, run, callVars>>

NoCall == [op |-> "none"]

Idle == [pc |-> "idle", call |-> NoCall, node |-> NoNode, rest |-> <<>>, fresh |-> NoNode,
         seen |-> NoEntry, old |-> NoEntry, child |-> NoNode, prev |-> NoNode,
         array |-> FALSE, then |-> "idle"]

Init ==
  /\ kind = [n \in Nodes |-> "Map"]
  /\ born = {Root}
  /\ entry = [n \in Nodes |-> [k \in Keys |-> IF n = Root THEN Present[k] ELSE NoEntry]]
  /\ list = [n \in Nodes |-> <<>>]
  /\ parent = [n \in Nodes |-> NoNode]
  /\ name = [n \in Nodes |-> NoName]
  /\ run = [t \in Threads |-> Idle]
  /\ begun = [t \in Threads |-> {}]
  /\ succeeded = [t \in Threads |-> {}]
  /\ handed = [n \in Nodes |-> [k \in Kept |-> {}]]

-----------------------------------------------------------------------------
(* Reading. *)

IsEmpty(v) == v \in {NoEntry, Blank}

(* XNode::At with a string key: an array has nothing under it. *)
At(n, k) == IF kind[n] = "Map" /\ entry[n][k] # Erased THEN entry[n][k] ELSE NoEntry

Key(r) == Head(r.rest)

(* The type NodeGet passes to NodeGetByKey for the key it is at.           *)
Want(r) ==
  IF r.array THEN "Array"
  ELSE IF Len(r.rest) > 1 /\ TypeFor(r.call) # "Any" THEN "Map"
  ELSE IF Len(r.rest) > 1 THEN "Any"
  ELSE TypeFor(r.call)

Converts(r) ==
  \/ r.array
  \/ r.call.op = "NodeGet" /\ Len(r.rest) = 1 /\ r.call.convert

Fits(v, type) == v \in Nodes /\ type \in {"Any", kind[v]}

Allowed(n, k) == IF <<n, k>> \in Refusable THEN BOOLEAN ELSE {TRUE}

-----------------------------------------------------------------------------
(* Where a call goes next, from the local variables r of its thread.       *)

Goto(t, r) == run' = [run EXCEPT ![t] = r]

Returned == Idle

Succeed(t) ==
  /\ Goto(t, Returned)
  /\ succeeded' = [succeeded EXCEPT ![t] = @ \cup {run[t].call}]
  /\ UNCHANGED <<begun, handed>>

Fail(t) ==
  /\ Goto(t, Returned)
  /\ UNCHANGED callVars

Continue(t, r) ==
  /\ Goto(t, r)
  /\ UNCHANGED callVars

(* What is left to do at node n once the path has been walked. *)
AtEnd(r, n) ==
  [r EXCEPT !.node = n, !.fresh = NoNode, !.seen = NoEntry,
            !.rest = <<Last(r.call.path)>>,
            !.pc = IF r.call.op = "EmplaceToArray" THEN "existed" ELSE "apply"]

Walking(r, n, keys) ==
  [r EXCEPT !.node = n, !.fresh = NoNode, !.seen = NoEntry, !.rest = keys, !.pc = "look"]

(* The keys NodeGet walks: all but the last, which the call itself uses.   *)
Started(c) ==
  LET r == [Idle EXCEPT !.call = c]
      way == IF c.op = "NodeGet" THEN c.path ELSE Front(c.path)
  IN  IF way = <<>> THEN AtEnd(r, Root) ELSE Walking(r, Root, way)

(* NodeGetByKey returns n for the key r is at. *)
Handed(r, n) ==
  IF Key(r) \in Kept THEN [handed EXCEPT ![r.node][Key(r)] = @ \cup {n}] ELSE handed

(* Mutation: what was there before the array is forgotten. *)
WithoutOld(r, n) == [r EXCEPT !.node = n, !.fresh = NoNode, !.seen = NoEntry, !.pc = "append"]

(* EmplaceToArray has its array n, and puts the old value in first, unless *)
(* there was none or it was that array.                                    *)
WithArray(r, n) ==
  [r EXCEPT !.node = n, !.fresh = NoNode, !.seen = NoEntry,
            !.pc = IF r.old \in {NoEntry, n} THEN "append" ELSE "keepOld"]

Arrive(t, r, n) ==
  /\ handed' = Handed(r, n)
  /\ IF r.array THEN Goto(t, WithArray(r, n)) /\ UNCHANGED <<begun, succeeded>>
     ELSE IF Len(r.rest) > 1
     THEN Goto(t, Walking(r, n, Tail(r.rest))) /\ UNCHANGED <<begun, succeeded>>
     ELSE IF r.call.op # "NodeGet"
     THEN Goto(t, AtEnd(r, n)) /\ UNCHANGED <<begun, succeeded>>
     ELSE /\ Goto(t, Returned)
          /\ succeeded' = [succeeded EXCEPT ![t] = @ \cup {r.call}]
          /\ UNCHANGED begun

Begin(t, c) ==
  /\ run[t].pc = "idle"
  /\ c \notin begun[t] /\ Cardinality(begun[t]) < MaxCalls
  /\ begun' = [begun EXCEPT ![t] = @ \cup {c}]
  /\ Goto(t, Started(c))
  /\ UNCHANGED <<kind, born, nodeVars, succeeded, handed>>

-----------------------------------------------------------------------------
(* NodeGetByKey. *)

Look(t) ==
  LET r == run[t]
  IN  /\ r.pc = "look"
      /\ Continue(t, [r EXCEPT !.seen = At(r.node, Key(r)), !.pc = "test"])
      /\ UNCHANGED <<kind, born, nodeVars>>

Found(t) ==
  LET r == run[t]
  IN  /\ r.pc = "test" /\ Fits(r.seen, Want(r))
      /\ Arrive(t, r, r.seen)
      /\ UNCHANGED <<kind, born, nodeVars>>

InTheWay(r) == ~IsEmpty(r.seen) /\ ~Converts(r)

GiveUp(t) ==
  LET r == run[t]
  IN  /\ r.pc = "test" /\ ~Fits(r.seen, Want(r)) /\ InTheWay(r)
      /\ Fail(t)
      /\ UNCHANGED <<kind, born, nodeVars>>

(* The node to put in is created once, and kept for the next attempts. *)
Create(t) ==
  LET r == run[t]
  IN  /\ r.pc = "test" /\ ~Fits(r.seen, Want(r)) /\ ~InTheWay(r)
      /\ \/ /\ r.fresh # NoNode
            /\ Continue(t, [r EXCEPT !.pc = "exchange"])
            /\ UNCHANGED <<kind, born>>
         \/ /\ r.fresh = NoNode /\ born # Nodes
            /\ LET n == CHOOSE m \in Nodes : m \notin born
               IN  /\ born' = born \cup {n}
                   /\ kind' = [kind EXCEPT ![n] = IF Want(r) = "Array" THEN "Array" ELSE "Map"]
                   /\ Continue(t, [r EXCEPT !.fresh = n, !.pc = "exchange"])
      /\ UNCHANGED nodeVars

(* SetAsChild_ of the node that was put in. *)
Attaching(r) == [r EXCEPT !.pc = "link", !.child = r.fresh, !.then = "arrive"]

(* Mutation: the value is not looked at again before it is replaced. *)
ExchangesBlindly(r) == TRUE

(* The value is still the one that was seen, or it has gone and the one    *)
(* that was seen is as good as none.                                       *)
Exchanges(r) ==
  LET v == At(r.node, Key(r))
  IN  v = r.seen \/ (v = NoEntry /\ IsEmpty(r.seen))

ExchangeStores(t) ==
  LET r == run[t]
  IN  /\ r.pc = "exchange" /\ Exchanges(r)
      /\ kind[r.node] = "Map" /\ TRUE \in Allowed(r.node, Key(r))
      /\ entry' = [entry EXCEPT ![r.node][Key(r)] = r.fresh]
      /\ Continue(t, Attaching(r))
      /\ UNCHANGED <<kind, born, list, parent, name>>

(* Mutation: the loop goes on with the value it saw first. *)
LookAgainStale(r) == [r EXCEPT !.pc = "test"]

(* Mutation: the loser goes on with the node it could not put in. *)
LookAtOwn(r) == [r EXCEPT !.seen = r.fresh, !.pc = "test"]

LookAgain(r) == [r EXCEPT !.seen = At(r.node, Key(r)), !.pc = "test"]

ExchangeFails(t) ==
  LET r == run[t]
  IN  /\ r.pc = "exchange" /\ ~Exchanges(r)
      /\ Continue(t, LookAgain(r))
      /\ UNCHANGED <<kind, born, nodeVars>>

(* A callback that refuses to have a value replaced: the loop goes on.     *)
ExchangeRefused(t) ==
  LET r == run[t]
  IN  /\ r.pc = "exchange" /\ At(r.node, Key(r)) = r.seen /\ r.seen # NoEntry
      /\ FALSE \in Allowed(r.node, Key(r))
      /\ Continue(t, LookAgain(r))
      /\ UNCHANGED <<kind, born, nodeVars>>

(* Nothing is there and nothing can be put there, because the callback     *)
(* refuses or because the node is an array: the call succeeds all the same *)
(* and the node, which is nowhere, becomes a child.                        *)
ExchangeUnstored(t) ==
  LET r == run[t]
  IN  /\ r.pc = "exchange" /\ Exchanges(r) /\ At(r.node, Key(r)) = NoEntry
      /\ kind[r.node] = "Array" \/ FALSE \in Allowed(r.node, Key(r))
      /\ Continue(t, Attaching(r))
      /\ UNCHANGED <<kind, born, nodeVars>>

-----------------------------------------------------------------------------
(* Parents and names. *)

(* What follows once a child has changed its parent. *)
Linked(t, r) ==
  CASE r.then = "arrive" -> Arrive(t, r, r.fresh)
    [] r.then = "append" -> Continue(t, [r EXCEPT !.pc = "append"])
    [] r.then = "return" -> Succeed(t)

(* Mutation: a child under a key keeps the name it had. *)
OwnName(r) == name[r.child]

(* A child that is stored under a key takes the key for its name, one that *)
(* goes into an array or loses its parent keeps its own.                   *)
NewName(r) == IF r.then = "arrive" THEN Key(r) ELSE name[r.child]

(* SetAsChild_ for the node of r, or ParentDetach when it is erased: new   *)
(* parent and name together.                                               *)
Link(t) ==
  LET r == run[t]
      into == IF r.then = "return" THEN NoNode ELSE r.node
      was == parent[r.child]
  IN  /\ r.pc = "link"
      /\ \/ /\ was = into
            /\ Linked(t, r)
            /\ UNCHANGED <<parent, name>>
         \/ /\ was # into
            /\ parent' = [parent EXCEPT ![r.child] = into]
            /\ name' = [name EXCEPT ![r.child] = NewName(r)]
            /\ IF was = NoNode THEN Linked(t, r)
               ELSE Continue(t, [r EXCEPT !.pc = "leave", !.prev = was])
      /\ UNCHANGED <<kind, born, entry, list>>

(* PrivateErase on the parent a child has left: what is there under the    *)
(* name of the child, else the child itself.                               *)
Leave(t) ==
  LET r == run[t]
      p == r.prev
      named == {name[r.child]} \cap {k \in Keys : At(p, k) # NoEntry}
      here == IF named # {} THEN named ELSE {k \in Keys : At(p, k) = r.child}
  IN  /\ r.pc = "leave"
      /\ \/ /\ here = {} /\ UNCHANGED entry
         \/ \E k \in here : entry' = [entry EXCEPT ![p][k] = Erased]
      /\ list' = IF kind[p] = "Array" THEN [list EXCEPT ![p] = RemoveFirst(@, r.child)] ELSE list
      /\ Linked(t, [r EXCEPT !.prev = NoNode])
      /\ UNCHANGED <<kind, born, parent, name>>

-----------------------------------------------------------------------------
(* What the calls do once the path has been walked. *)

ReadValue(t) ==
  /\ run[t].pc = "apply" /\ run[t].call.op = "At"
  /\ Succeed(t)
  /\ UNCHANGED <<kind, born, nodeVars>>

(* XNode::Set; a node that is replaced loses its parent.  The way to it    *)
(* asks for maps, so that Set and Insert never meet an array.              *)
SetValue(t) ==
  LET r == run[t]
      n == r.node
      v == At(n, Key(r))
  IN  /\ r.pc = "apply" /\ r.call.op = "Set"
      /\ \/ /\ v # r.call.val /\ TRUE \in Allowed(n, Key(r))
            /\ entry' = [entry EXCEPT ![n][Key(r)] = r.call.val]
            /\ IF v \in Nodes THEN Continue(t, [r EXCEPT !.pc = "orphan", !.child = v])
               ELSE Succeed(t)
         \/ /\ v = r.call.val \/ FALSE \in Allowed(n, Key(r))
            /\ Fail(t)
            /\ UNCHANGED entry
      /\ UNCHANGED <<kind, born, list, parent, name>>

Orphan(t) ==
  /\ run[t].pc = "orphan"
  /\ parent' = [parent EXCEPT ![run[t].child] = NoNode]
  /\ Succeed(t)
  /\ UNCHANGED <<kind, born, entry, list, name>>

(* XNode::Insert fails on any entry, an erased one included.               *)
InsertValue(t) ==
  LET r == run[t]
      n == r.node
  IN  /\ r.pc = "apply" /\ r.call.op = "Insert"
      /\ \/ /\ entry[n][Key(r)] = NoEntry /\ TRUE \in Allowed(n, Key(r))
            /\ entry' = [entry EXCEPT ![n][Key(r)] = r.call.val]
            /\ Succeed(t)
         \/ /\ entry[n][Key(r)] # NoEntry \/ FALSE \in Allowed(n, Key(r))
            /\ Fail(t)
            /\ UNCHANGED entry
      /\ UNCHANGED <<kind, born, list, parent, name>>

(* XNode::Erase; a node that is erased is then detached.                   *)
EraseValue(t) ==
  LET r == run[t]
      n == r.node
      v == At(n, Key(r))
  IN  /\ r.pc = "apply" /\ r.call.op = "Erase"
      /\ \/ /\ v # NoEntry /\ TRUE \in Allowed(n, Key(r))
            /\ entry' = [entry EXCEPT ![n][Key(r)] = Erased]
            /\ IF v \in Nodes
               THEN Continue(t, [r EXCEPT !.pc = "link", !.child = v, !.then = "return"])
               ELSE Succeed(t)
         \/ /\ v = NoEntry \/ FALSE \in Allowed(n, Key(r))
            /\ Fail(t)
            /\ UNCHANGED entry
      /\ UNCHANGED <<kind, born, list, parent, name>>

-----------------------------------------------------------------------------
(* EmplaceToArray. *)

(* Reads the value under the last key, then asks for an array of that key, *)
(* but of the node it was called with and not of the one it has reached.   *)
ReadExisted(t) ==
  LET r == run[t]
  IN  /\ r.pc = "existed"
      /\ Continue(t, Walking([r EXCEPT !.old = At(r.node, Key(r)), !.array = TRUE],
                             Root, r.rest))
      /\ UNCHANGED <<kind, born, nodeVars>>

(* The old value goes to the end of the array; a node moves there, unless  *)
(* the array has it already.                                               *)
KeepOld(t) ==
  LET r == run[t]
  IN  /\ r.pc = "keepOld"
      /\ \/ /\ r.old \in ToSet(list[r.node]) \cap Nodes
            /\ Continue(t, [r EXCEPT !.pc = "append"])
            /\ UNCHANGED list
         \/ /\ r.old \notin ToSet(list[r.node]) \cap Nodes
            /\ list' = [list EXCEPT ![r.node] = Append(@, r.old)]
            /\ Continue(t, IF r.old \in Nodes
                           THEN [r EXCEPT !.pc = "link", !.child = r.old, !.then = "append"]
                           ELSE [r EXCEPT !.pc = "append"])
      /\ UNCHANGED <<kind, born, entry, parent, name>>

AppendValue(t) ==
  LET r == run[t]
  IN  /\ r.pc = "append"
      /\ list' = [list EXCEPT ![r.node] = Append(@, r.call.val)]
      /\ Succeed(t)
      /\ UNCHANGED <<kind, born, entry, parent, name>>

-----------------------------------------------------------------------------
Step(t) ==
  \/ Look(t) \/ Found(t) \/ GiveUp(t) \/ Create(t)
  \/ ExchangeStores(t) \/ ExchangeFails(t) \/ ExchangeRefused(t) \/ ExchangeUnstored(t)
  \/ Link(t) \/ Leave(t)
  \/ ReadValue(t) \/ SetValue(t) \/ Orphan(t) \/ InsertValue(t) \/ EraseValue(t)
  \/ ReadExisted(t) \/ KeepOld(t) \/ AppendValue(t)

Next == \E t \in Threads : Step(t) \/ \E c \in CallsOf[t] : Begin(t, c)

(* A thread within a call goes on; it need not begin another. *)
Spec == Init /\ [][Next]_vars /\ \A t \in Threads : WF_vars(Step(t))

-----------------------------------------------------------------------------
(* Properties. *)

Stages == {"idle", "look", "test", "exchange", "link", "leave", "apply", "orphan",
           "existed", "keepOld", "append"}

(* Types: what is stored has been created, a call carries nodes of the     *)
(* tree where its stage needs them, and only the kept keys have a history. *)
TypeOK ==
  /\ Root \in born /\ born \subseteq Nodes
  /\ kind \in [Nodes -> {"Map", "Array"}]
  /\ entry \in [Nodes -> [Keys -> born \cup Scalars \cup {Blank, NoEntry, Erased}]]
  /\ list \in [Nodes -> Seq(born \cup Scalars \cup {Blank})]
  /\ parent \in [Nodes -> born \cup {NoNode}]
  /\ name \in [Nodes -> Keys \cup {NoName}]
  /\ begun \in [Threads -> SUBSET Calls] /\ succeeded \in [Threads -> SUBSET Calls]
  /\ handed \in [Nodes -> [Kept -> SUBSET born]]
  /\ \A t \in Threads : LET r == run[t] IN
       /\ r.pc \in Stages
       /\ r.pc # "idle" => r.call \in CallsOf[t] /\ r.node \in born /\ r.rest \in Seq(Keys) \ {<<>>}
       /\ r.pc = "exchange" => r.fresh \in born
       /\ r.pc \in {"link", "leave", "orphan"} => r.child \in born
       /\ r.pc = "leave" => r.prev \in born

(* All callers who ask for the node under a kept key get the same node,    *)
(* and it is the one that stays there: when several threads find it        *)
(* missing at once, one puts its node in and the others get that one       *)
(* (NodeGetByKey, CompareExchange), whatever else is erased or replaced.   *)
HandedStays ==
  \A n \in Nodes, k \in Kept : kind[n] = "Map" => handed[n][k] \subseteq {entry[n][k]}

(* The node under a kept key is a child of the node that holds it, by that *)
(* name, or the thread that put it in is about to make it one: nobody      *)
(* else's clean-up takes it away, nor gives it another parent.             *)
KeptIsAdopted ==
  \A n \in Nodes, k \in Kept : LET c == entry[n][k] IN
    c \in Nodes =>
      \/ parent[c] = n /\ name[c] = k
      \/ \E t \in Threads : run[t].pc = "link" /\ run[t].child = c /\ run[t].node = n

(* The value at a path, by any nodes there are on the way. *)
Onward(v, k) == IF v \in Nodes THEN At(v, k) ELSE NoEntry

ValueAt(path) ==
  LET reached[i \in 0 .. Len(path)] ==
        IF i = 0 THEN Root ELSE Onward(reached[i - 1], path[i])
  IN  reached[Len(path)]

(* No other call touches the last key of c, whose way goes by kept keys.   *)
Alone(c) ==
  /\ \A i \in 1 .. Len(c.path) - 1 : c.path[i] \in Kept
  /\ \A t \in Threads : \A d \in CallsOf[t] \ {c} : Last(c.path) \notin ToSet(d.path)

(* A value set or inserted by path is found at that path from then on,     *)
(* although other threads create the same nodes on the way at the same     *)
(* time: nobody sets it in a node that loses the race for its place.       *)
SetsAreKept ==
  \A t \in Threads : \A c \in succeeded[t] :
    c.op \in {"Set", "Insert"} /\ Alone(c) => ValueAt(c.path) = c.val

Emplacing(key) ==
  {p \in Threads \X UNION {CallsOf[t] : t \in Threads} :
     p[2] \in succeeded[p[1]] /\ p[2].op = "EmplaceToArray" /\ p[2].path = <<key>>}

Times(v, s) == Cardinality({i \in DOMAIN s : s[i] = v})

(* NodeGet never asks for the array under k, which would take the place of *)
(* the value there without keeping it.                                     *)
OnlyEmplaced(k) ==
  \A t \in Threads : \A c \in CallsOf[t] : c.op = "NodeGet" => k \notin ToSet(c.path)

(* EmplaceToArray by several threads: each value that was emplaced is in   *)
(* the array as often as it was emplaced, and once they have all returned  *)
(* the value that was there before the array is in it too.                 *)
EmplacedIsKept ==
  \A k \in Kept : Emplacing(k) # {} =>
    LET a == entry[Root][k]
    IN  /\ a \in Nodes
        /\ \A p \in Emplacing(k) : p[2].val # Present[k] =>
             Times(p[2].val, list[a]) = Cardinality({q \in Emplacing(k) : q[2].val = p[2].val})
        /\ OnlyEmplaced(k) /\ Present[k] # NoEntry /\ (\A t \in Threads : run[t].pc = "idle") =>
             Times(Present[k], list[a]) > 0

(* A call that never returns is one whose change a callback refuses again  *)
(* and again: a lost race alone does not make NodeGetByKey repeat for ever. *)
OnlyRefusalsDelay ==
  \A t \in Threads :
    <>[](run[t].pc # "idle") => []<><<ExchangeRefused(t)>>_vars

=============================================================================
