-------------------------- MODULE NodeTree_proofs --------------------------
(***************************************************************************)
(* Theorems about NodeTree for every set of nodes, names, values and       *)
(* threads, and every interleaving of their calls.                         *)
(*                                                                         *)
(* The steps of a call are functions of the thread's local variables:      *)
(* Good says that they have their types and that the thread carries what   *)
(* it will use, and one lemma per function says that its result is Good.   *)
(*                                                                         *)
(* The second part is about one thread: that its climbs keep the parents   *)
(* without a cycle (AcyclicInv), and that careful calls keep entries and   *)
(* parents in agreement (PlacedInv).                                       *)
(***************************************************************************)
EXTENDS NodeTree, TLAPS

Typed(r) == r \in Locals /\ InCall(r)
Good(r) == Typed(r) /\ Carries(r)

LEMMA CallFields ==
  ASSUME NEW c \in Calls
  PROVE  /\ c.self \in Nodes
         /\ c.op \in {"Set", "Insert", "CompareExchange"} => c.key \in Names /\ c.val \in Values
         /\ c.op = "Erase" => c.key \in Names
         /\ c.op = "BulkErase" => c.keys \subseteq Names
         /\ c.op = "KeyChange" => c.key \in Names /\ c.to \in Names \cup {NoName}
         /\ c.op = "ParentSet" => /\ c.into \in Nodes \cup {NoNode}
                                  /\ c.name \in Names \cup {NoName, Keep}
         /\ c.op = "NameSet" => c.to \in Names \cup {NoName} /\ c.update \in BOOLEAN
  BY DEF Calls

LEMMA NoCallIsNoCall == NoCall.op = "none" /\ NoCall \in Calls \cup {NoCall}
  BY DEF NoCall

LEMMA IdleGood ==
  ASSUME NEW ok \in BOOLEAN
  PROVE  Good(Idle) /\ Good(Returned(ok))
  BY NoCallIsNoCall DEF Good, Typed, Locals, Points, Carries, InCall, Idle, Returned

Within == {"checkParent", "container", "orphan", "link", "detach", "eraseOld",
           "nameGet", "place", "rename"}

LEMMA PointsWithin == Within \subseteq Points
  BY DEF Within, Points

(* A thread that moves on within its call. *)
LEMMA MovesOn ==
  ASSUME NEW r, Typed(r), r.pc # "idle", NEW pc \in Within
  PROVE  Typed([r EXCEPT !.pc = pc])
<1> DEFINE x == [r EXCEPT !.pc = pc]
<1>1. x \in Locals
  BY PointsWithin DEF Typed, Locals
<1>2. x.pc = pc /\ x.call = r.call /\ x.into = r.into
  BY DEF Typed, Locals
<1>3. pc # "name"
  BY DEF Within
<1> QED
  BY <1>1, <1>2, <1>3 DEF Typed, InCall

LEMMA MovesTo ==
  ASSUME NEW r, Typed(r), r.pc # "idle", NEW pc \in Within, NEW at \in Nodes \cup {NoNode}
  PROVE  Typed([r EXCEPT !.pc = pc, !.at = at])
<1> DEFINE x == [r EXCEPT !.pc = pc, !.at = at]
<1>1. x \in Locals
  BY PointsWithin DEF Typed, Locals
<1>2. x.pc = pc /\ x.call = r.call /\ x.into = r.into
  BY DEF Typed, Locals
<1>3. pc # "name"
  BY DEF Within
<1> QED
  BY <1>1, <1>2, <1>3 DEF Typed, InCall

LEMMA MovesUp ==
  ASSUME NEW r, Typed(r), NEW at \in Nodes \cup {NoNode}
  PROVE  Typed([r EXCEPT !.at = at])
  BY DEF Typed, Locals, InCall

LEMMA Succeeds ==
  ASSUME NEW r, Typed(r), NEW ok \in BOOLEAN
  PROVE  Typed([r EXCEPT !.ok = ok])
  BY DEF Typed, Locals, InCall

LEMMA Remembers ==
  ASSUME NEW r, Typed(r), NEW prev \in Nodes \cup {NoNode}
  PROVE  Typed([r EXCEPT !.prev = prev])
  BY DEF Typed, Locals, InCall

LEMMA LeavesFor ==
  ASSUME NEW r, Typed(r), r.pc # "idle", NEW pc \in Within,
         NEW prev \in Nodes \cup {NoNode}, NEW ok \in BOOLEAN
  PROVE  Typed([r EXCEPT !.pc = pc, !.prev = prev, !.ok = ok])
<1> DEFINE x == [r EXCEPT !.pc = pc, !.prev = prev, !.ok = ok]
<1>1. x \in Locals
  BY PointsWithin DEF Typed, Locals
<1>2. x.pc = pc /\ x.call = r.call /\ x.into = r.into
  BY DEF Typed, Locals
<1>3. pc # "name"
  BY DEF Within
<1> QED
  BY <1>1, <1>2, <1>3 DEF Typed, InCall

LEMMA StartedGood ==
  ASSUME NEW c \in Calls,
         c.op = "KeyChange" \/ (c.op = "NameSet" /\ c.update) => c.to # NoName
  PROVE  Good(Started(c))
<1> DEFINE r == [Idle EXCEPT !.call = c]
           x == Started(c)
<1>1. CASE c.op \in {"Set", "Insert", "CompareExchange"}
  <2>1. x = [pc |-> IF c.op # "CompareExchange" /\ c.val \in Nodes
                    THEN "checkChild" ELSE "container",
             call |-> c, at |-> c.self, child |-> NodeOf(c.val), into |-> c.self,
             name |-> c.key, prev |-> NoNode, pending |-> {}, ok |-> FALSE]
    BY <1>1 DEF Started, Idle
  <2>2. NodeOf(c.val) \in Nodes \cup {NoNode} /\ (c.val \in Nodes => NodeOf(c.val) \in Nodes)
    BY DEF NodeOf
  <2> QED
    BY <1>1, <2>1, <2>2, CallFields, ValuesAssumption DEF Good, Typed, Locals, Points, Carries, InCall
<1>2. CASE c.op = "ParentSet"
  <2>1. x = [pc |-> IF c.into = NoNode THEN "link" ELSE "checkParent",
             call |-> c, at |-> c.into, child |-> c.self, into |-> c.into,
             name |-> c.name, prev |-> NoNode, pending |-> {}, ok |-> FALSE]
    BY <1>2 DEF Started, Idle
  <2> QED
    BY <1>2, <2>1, CallFields, ValuesAssumption DEF Good, Typed, Locals, Points, Carries, InCall
<1>3. CASE c.op \notin {"Set", "Insert", "CompareExchange", "ParentSet"}
  <2>1. x = [pc |-> IF c.op = "NameSet" THEN "name" ELSE "container",
             call |-> c, at |-> NoNode, child |-> NoNode, into |-> NoNode,
             name |-> Keep, prev |-> NoNode, pending |-> {}, ok |-> FALSE]
    BY <1>3 DEF Started, Idle
  <2> QED
    BY <1>3, <2>1, CallFields, ValuesAssumption DEF Good, Typed, Locals, Points, Carries, InCall
<1> QED
  BY <1>1, <1>2, <1>3

LEMMA SetAsChildGood ==
  ASSUME NEW r, Typed(r), r.into # NoNode, r.pc # "idle"
  PROVE  Good(SetAsChild(r))
<1>1. r.ok \in BOOLEAN /\ r.into \in Nodes
  BY DEF Typed, Locals
<1>2. CASE r.child = NoNode
  BY <1>1, <1>2, IdleGood DEF SetAsChild
<1>3. CASE r.child # NoNode
  <2> DEFINE x == [r EXCEPT !.pc = "checkParent", !.at = r.into]
  <2>1. Typed(x)
    BY <1>1, MovesTo DEF Within
  <2>2. x.pc = "checkParent" /\ x.at = r.into /\ x.into = r.into /\ x.child = r.child
    BY DEF Typed, Locals
  <2> QED
    BY <1>3, <2>1, <2>2 DEF SetAsChild, Good, Carries
<1> QED
  BY <1>2, <1>3

LEMMA DetachRemovedGood ==
  ASSUME NEW r, Typed(r), r.pc # "idle"
  PROVE  Good(DetachRemoved(r))
<1>1. r.ok \in BOOLEAN
  BY DEF Typed, Locals
<1>2. Typed([r EXCEPT !.pc = "detach"]) /\ [r EXCEPT !.pc = "detach"].pc = "detach"
  <2>1. Typed([r EXCEPT !.pc = "detach"])
    BY MovesOn DEF Within
  <2>2. [r EXCEPT !.pc = "detach"].pc = "detach"
    BY DEF Typed, Locals
  <2> QED
    BY <2>1, <2>2
<1> QED
  BY <1>1, <1>2, IdleGood DEF DetachRemoved, Good, Carries

LEMMA AddToParentGood ==
  ASSUME NEW r, Typed(r), r.child # NoNode, r.pc # "idle"
  PROVE  Good(AddToParent(r))
<1>1. CASE r.call.op = "ParentSet" /\ r.into # NoNode
  <2> DEFINE x == [r EXCEPT !.pc = "nameGet"]
  <2>1. Typed(x)
    BY MovesOn DEF Within
  <2>2. x.pc = "nameGet" /\ x.into = r.into /\ x.child = r.child
    BY DEF Typed, Locals
  <2> QED
    BY <1>1, <2>1, <2>2 DEF AddToParent, Good, Carries
<1>2. CASE ~(r.call.op = "ParentSet" /\ r.into # NoNode)
  <2>1. Typed([r EXCEPT !.prev = NoNode])
    BY Remembers
  <2>2. [r EXCEPT !.prev = NoNode].pc # "idle"
    BY DEF Typed, Locals
  <2> QED
    BY <1>2, <2>1, <2>2, DetachRemovedGood DEF AddToParent
<1> QED
  BY <1>1, <1>2

LEMMA ClimbGood ==
  ASSUME NamedInv, NEW r, Good(r), r.pc \in {"checkChild", "checkParent"},
         NEW onTop \in {"container", "link"}
  PROVE  Good(Climb(r, onTop))
<1>1. r.at \in Nodes /\ r.child \in Nodes /\ r.into \in Nodes /\ r.ok \in BOOLEAN
  BY DEF Good, Typed, Locals, Carries
<1>2. parent[r.at] \in Nodes \cup {NoNode}
  BY <1>1 DEF NamedInv, TypeOK
<1>3. CASE r.at = r.child \/ parent[r.at] = r.into
  BY <1>1, <1>3, IdleGood DEF Climb
<1>4. CASE ~(r.at = r.child \/ parent[r.at] = r.into) /\ parent[r.at] = NoNode
  <2> DEFINE x == [r EXCEPT !.pc = onTop, !.at = NoNode]
  <2>1. Typed(x)
    BY MovesTo DEF Good, Within
  <2>2. x.pc = onTop /\ x.child = r.child /\ x.into = r.into
    BY DEF Good, Typed, Locals
  <2>3. Good(x)
    BY <1>1, <2>1, <2>2, ValuesAssumption DEF Good, Carries
  <2> QED
    BY <1>4, <2>3 DEF Climb
<1>5. CASE ~(r.at = r.child \/ parent[r.at] = r.into) /\ parent[r.at] # NoNode
  <2> DEFINE x == [r EXCEPT !.at = parent[r.at]]
  <2>1. Typed(x)
    BY <1>2, MovesUp DEF Good
  <2>2. x.pc = r.pc /\ x.at = parent[r.at] /\ x.child = r.child /\ x.into = r.into
    BY DEF Good, Typed, Locals
  <2>3. Good(x)
    BY <1>1, <1>5, <2>1, <2>2, ValuesAssumption DEF Good, Carries
  <2> QED
    BY <1>5, <2>3 DEF Climb
<1> QED
  BY <1>3, <1>4, <1>5

LEMMA LeaveParentGood ==
  ASSUME NamedInv, NEW r, Typed(r), r.child # NoNode, r.pc # "idle"
  PROVE  Good(LeaveParent(r))
<1>1. parent[r.child] \in Nodes \cup {NoNode}
  BY DEF NamedInv, TypeOK, Typed, Locals
<1>2. CASE parent[r.child] = NoNode
  <2>1. Typed([r EXCEPT !.ok = TRUE])
    BY Succeeds
  <2>2. [r EXCEPT !.ok = TRUE].pc = r.pc /\ [r EXCEPT !.ok = TRUE].child = r.child
    BY DEF Typed, Locals
  <2> QED
    BY <1>2, <2>1, <2>2, AddToParentGood DEF LeaveParent
<1>3. CASE parent[r.child] # NoNode
  <2> DEFINE x == [r EXCEPT !.pc = "eraseOld", !.prev = parent[r.child], !.ok = TRUE]
  <2>1. Typed(x)
    BY <1>1, LeavesFor DEF Within
  <2>2. x.pc = "eraseOld" /\ x.prev = parent[r.child] /\ x.child = r.child
    BY DEF Typed, Locals
  <2> QED
    BY <1>3, <2>1, <2>2 DEF LeaveParent, Good, Carries
<1> QED
  BY <1>2, <1>3

LEMMA ReplacedGood ==
  ASSUME NEW r, Typed(r), r.into # NoNode, r.pc # "idle", NEW old
  PROVE  Good(Replaced(r, old))
<1>1. CASE old \in Nodes
  <2> DEFINE x == [r EXCEPT !.pc = "orphan", !.prev = old, !.ok = TRUE]
  <2>1. Typed(x)
    BY <1>1, LeavesFor DEF Within
  <2>2. x.pc = "orphan" /\ x.prev = old /\ x.into = r.into
    BY DEF Typed, Locals
  <2> QED
    BY <1>1, <2>1, <2>2, ValuesAssumption DEF Replaced, Good, Carries
<1>2. CASE old \notin Nodes
  <2>1. Typed([r EXCEPT !.ok = TRUE])
    BY Succeeds
  <2>2. [r EXCEPT !.ok = TRUE].pc = r.pc /\ [r EXCEPT !.ok = TRUE].into = r.into
    BY DEF Typed, Locals
  <2> QED
    BY <1>2, <2>1, <2>2, SetAsChildGood DEF Replaced
<1> QED
  BY <1>1, <1>2

-----------------------------------------------------------------------------
(* The invariant, step by step.                                            *)

Safe(e, p, n) ==
  /\ e \in [Nodes -> [Names -> Values \cup {NoEntry, Erased}]]
  /\ p \in [Nodes -> Nodes \cup {NoNode}]
  /\ n \in [Nodes -> Names \cup {NoName}]
  /\ \A m \in Nodes : p[m] # NoNode => n[m] # NoName

LEMMA Shape == NamedInv <=>
  /\ Safe(entries, parent, name)
  /\ run \in [Threads -> Locals]
  /\ \A t \in Threads : Carries(run[t]) /\ InCall(run[t])
  BY DEF NamedInv, TypeOK, NamedChild, Safe

(* A step that leaves the nodes safe and its thread good keeps the invariant. *)
LEMMA StepKeeps ==
  ASSUME NamedInv, NEW t \in Threads, NEW x, Good(x), run' = [run EXCEPT ![t] = x],
         Safe(entries', parent', name')
  PROVE  NamedInv'
<1>1. run' \in [Threads -> Locals]
  BY Shape DEF Good, Typed
<1>2. \A u \in Threads : Carries(run'[u]) /\ InCall(run'[u])
  BY Shape DEF Good, Typed
<1>3. TypeOK'
  BY <1>1 DEF TypeOK, Safe
<1>4. NamedChild'
  BY DEF NamedChild, Safe
<1>5. (\A u \in Threads : Carries(run[u]) /\ InCall(run[u]))'
  BY <1>2 DEF Carries, InCall
<1> QED
  BY <1>3, <1>4, <1>5 DEF NamedInv

(* The container of one node is written, and nothing else. *)
LEMMA WriteSafe ==
  ASSUME NamedInv, NEW m \in Nodes, NEW f \in [Names -> Values \cup {NoEntry, Erased}],
         entries' = [entries EXCEPT ![m] = f], UNCHANGED <<parent, name>>
  PROVE  Safe(entries', parent', name')
  BY Shape DEF Safe

LEMMA EntrySafe ==
  ASSUME NamedInv, NEW m \in Nodes, NEW k \in Names, NEW v \in Values \cup {NoEntry, Erased},
         entries' = [entries EXCEPT ![m][k] = v], UNCHANGED <<parent, name>>
  PROVE  Safe(entries', parent', name')
<1>1. [entries[m] EXCEPT ![k] = v] \in [Names -> Values \cup {NoEntry, Erased}]
  BY Shape DEF Safe
<1> QED
  BY <1>1, WriteSafe

LEMMA OldEntriesNames == ASSUME NEW r PROVE OldEntries(r) \subseteq Names
<1> DEFINE named == {name[r.child]} \cap {k \in Names : HasValue(r.prev, k)}
<1>1. CASE named # {}
  BY <1>1 DEF OldEntries
<1>2. CASE named = {}
  BY <1>2 DEF OldEntries
<1> QED
  BY <1>1, <1>2

LEMMA ThreadGood ==
  ASSUME NamedInv, NEW t \in Threads
  PROVE  Good(run[t])
  BY Shape DEF Good, Typed

LEMMA InitSafe == Init => NamedInv
<1> SUFFICES ASSUME Init PROVE NamedInv
  OBVIOUS
<1>1. Safe(entries, parent, name)
  BY ValuesAssumption DEF Init, Safe
<1>2. \A t \in Threads : run[t] = Idle
  BY DEF Init
<1>3. run \in [Threads -> Locals]
  BY IdleGood DEF Init, Good, Typed
<1> QED
  BY <1>1, <1>2, <1>3, IdleGood, Shape DEF Good, Typed

LEMMA BeginKeeps ==
  ASSUME NamesGiven, NamedInv, NEW t \in Threads, NEW c \in CallsOf[t], Begin(t, c)
  PROVE  NamedInv'
<1>1. c \in Calls
  BY CallsAssumption
<1>2. Good(Started(c))
  BY <1>1, StartedGood DEF NamesGiven
<1>3. Safe(entries', parent', name')
  BY Shape DEF Begin
<1> QED
  BY <1>2, <1>3, StepKeeps DEF Begin

LEMMA ClimbKeeps ==
  ASSUME NamedInv, NEW t \in Threads, IsValidChild(t) \/ IsValidParent(t)
  PROVE  NamedInv'
<1>1. Good(run[t])
  BY ThreadGood
<1>2. Safe(entries', parent', name')
  BY Shape DEF IsValidChild, IsValidParent
<1>3. CASE IsValidChild(t)
  <2>1. Good(Climb(run[t], "container"))
    BY <1>1, <1>3, ClimbGood DEF IsValidChild
  <2> QED
    BY <1>2, <1>3, <2>1, StepKeeps DEF IsValidChild
<1>4. CASE IsValidParent(t)
  <2>1. Good(Climb(run[t], "link"))
    BY <1>1, <1>4, ClimbGood DEF IsValidParent
  <2> QED
    BY <1>2, <1>4, <2>1, StepKeeps DEF IsValidParent
<1> QED
  BY <1>3, <1>4

(* The heart of NamedChild: name and parent change in one section, and a   *)
(* nameless child does not get a parent.                                   *)
LEMMA PrivateParentSetKeeps ==
  ASSUME NamedInv, NEW t \in Threads, NEW r, Typed(r), r.child # NoNode, r.pc # "idle",
         PrivateParentSet(t, r)
  PROVE  NamedInv'
<1>1. r.child \in Nodes /\ r.into \in Nodes \cup {NoNode} /\ r.name \in Names \cup {NoName, Keep}
  BY DEF Typed, Locals
<1>2. CASE MayLink(r)
  <2>1. /\ entries' = entries
        /\ parent' = [parent EXCEPT ![r.child] = r.into]
        /\ name' = [name EXCEPT ![r.child] = NewName(r)]
        /\ run' = [run EXCEPT ![t] = LeaveParent(r)]
    BY <1>2 DEF PrivateParentSet
  <2>2. NewName(r) \in Names \cup {NoName}
    BY <1>1, Shape DEF NewName, Safe
  <2>3. r.into # NoNode => NewName(r) # NoName
    BY <1>2 DEF MayLink
  <2>4. Safe(entries', parent', name')
    BY <1>1, <2>1, <2>2, <2>3, Shape DEF Safe
  <2> QED
    BY <2>1, <2>4, LeaveParentGood, StepKeeps
<1>3. CASE ~MayLink(r)
  <2>1. Safe(entries', parent', name') /\ run' = [run EXCEPT ![t] = DetachRemoved(r)]
    BY <1>3, Shape DEF PrivateParentSet
  <2> QED
    BY <2>1, DetachRemovedGood, StepKeeps
<1> QED
  BY <1>2, <1>3

LEMMA LinkKeeps ==
  ASSUME NamedInv, NEW t \in Threads, Link(t) \/ Detach(t)
  PROVE  NamedInv'
<1>1. Good(run[t])
  BY ThreadGood
<1>2. CASE Link(t)
  BY <1>1, <1>2, PrivateParentSetKeeps DEF Link, Good, Carries
<1>3. CASE Detach(t)
  <2>1. PICK p \in run[t].pending :
          PrivateParentSet(t, [run[t] EXCEPT !.child = p[2], !.into = NoNode, !.name = Keep,
                                             !.pending = @ \ {p}])
    BY <1>3 DEF Detach
  <2> DEFINE r == [run[t] EXCEPT !.child = p[2], !.into = NoNode, !.name = Keep,
                                 !.pending = @ \ {p}]
  <2>2. p[2] \in Nodes
    BY <1>1 DEF Good, Typed, Locals
  <2>3. r \in Locals /\ r.child = p[2] /\ r.pc = "detach" /\ r.call = run[t].call
    BY <1>1, <1>3, <2>2 DEF Good, Typed, Locals, Detach
  <2>4. InCall(r)
    BY <1>1, <1>3, <2>3 DEF Good, Typed, InCall, Detach
  <2> QED
    BY <2>1, <2>2, <2>3, <2>4, ValuesAssumption, PrivateParentSetKeeps DEF Typed
<1> QED
  BY <1>2, <1>3

LEMMA PrivateEraseKeeps ==
  ASSUME NamedInv, NEW t \in Threads, PrivateErase(t)
  PROVE  NamedInv'
<1>1. Good(run[t])
  BY ThreadGood
<1>2. Safe(entries', parent', name')
  <2>1. run[t].prev \in Nodes
    BY <1>1 DEF Good, Typed, Locals, Carries, PrivateErase
  <2>2. CASE UNCHANGED entries
    BY <2>2, Shape DEF PrivateErase
  <2>3. ASSUME NEW k \in OldEntries(run[t]),
               entries' = [entries EXCEPT ![run[t].prev][k] = Erased]
        PROVE  Safe(entries', parent', name')
    BY <2>1, <2>3, OldEntriesNames, EntrySafe DEF PrivateErase
  <2> QED
    BY <2>2, <2>3 DEF PrivateErase
<1>3. Good(AddToParent(run[t]))
  BY <1>1, AddToParentGood DEF Good, Carries, PrivateErase
<1> QED
  BY <1>2, <1>3, StepKeeps DEF PrivateErase

LEMMA NameGetKeeps ==
  ASSUME NamedInv, NEW t \in Threads, NameGet(t)
  PROVE  NamedInv'
<1> DEFINE n == name[run[t].child]
           x == [run[t] EXCEPT !.name = n, !.pc = "place"]
<1>1. Good(run[t]) /\ run[t].pc = "nameGet" /\ run' = [run EXCEPT ![t] = x]
  BY ThreadGood DEF NameGet
<1>2. run[t].child \in Nodes /\ run[t].into # NoNode
  BY <1>1 DEF Good, Typed, Locals, Carries
<1>3. n \in Names \cup {NoName}
  BY <1>2, Shape DEF Safe
<1>4. x \in Locals /\ x.call = run[t].call /\ x.pc = "place" /\ x.name = n
      /\ x.child = run[t].child /\ x.into = run[t].into
  BY <1>1, <1>3 DEF Good, Typed, Locals, Points
<1>5. Good(x)
  BY <1>1, <1>2, <1>3, <1>4, ValuesAssumption DEF Good, Typed, InCall, Carries
<1>6. Safe(entries', parent', name')
  BY Shape DEF NameGet
<1> QED
  BY <1>1, <1>5, <1>6, StepKeeps

LEMMA PrivateSetKeeps ==
  ASSUME NamedInv, NEW t \in Threads, PrivateSet(t)
  PROVE  NamedInv'
<1>1. run[t].child \in Values
  BY ThreadGood DEF Good, Typed, Locals, Carries, PrivateSet, Values
<1>2. Safe(entries', parent', name')
  <2>1. run[t].into \in Nodes
    BY ThreadGood DEF Good, Typed, Locals, Carries, PrivateSet
  <2>2. CASE UNCHANGED entries
    BY <2>2, Shape DEF PrivateSet
  <2>3. CASE /\ run[t].name \in Names
             /\ entries' = [entries EXCEPT ![run[t].into][run[t].name] = run[t].child]
    BY <1>1, <2>1, <2>3, EntrySafe DEF PrivateSet
  <2> QED
    BY <2>2, <2>3 DEF PrivateSet
<1>3. Good(Returned(TRUE))
  BY IdleGood
<1> QED
  BY <1>2, <1>3, StepKeeps DEF PrivateSet

-----------------------------------------------------------------------------
(* The sections under a container's lock write no parent and no name.      *)

LEMMA GiveUpKeeps ==
  ASSUME NamedInv, NEW t \in Threads, GiveUp(t)
  PROVE  NamedInv'
<1>1. Safe(entries', parent', name')
  BY Shape DEF GiveUp
<1>2. Good(Returned(FALSE))
  BY IdleGood
<1> QED
  BY <1>1, <1>2, StepKeeps DEF GiveUp

(* What a thread knows in the container section of an attaching call. *)
LEMMA Attaching ==
  ASSUME NamedInv, NEW t \in Threads, run[t].pc = "container",
         run[t].call.op \in {"Set", "Insert", "CompareExchange"}
  PROVE  LET c == run[t].call
             done == [run[t] EXCEPT !.ok = TRUE]
         IN  /\ c.self \in Nodes /\ c.key \in Names /\ c.val \in Values
             /\ Typed(run[t]) /\ run[t].into # NoNode
             /\ Good(SetAsChild(done))
<1>1. Good(run[t])
  BY ThreadGood
<1>2. run[t].call \in Calls /\ run[t].into # NoNode
  BY <1>1 DEF Good, Typed, InCall, Carries
<1>3. Typed([run[t] EXCEPT !.ok = TRUE])
  BY <1>1, Succeeds DEF Good
<1>4. /\ [run[t] EXCEPT !.ok = TRUE].pc = "container"
      /\ [run[t] EXCEPT !.ok = TRUE].into = run[t].into
  BY <1>1 DEF Good, Typed, Locals
<1>5. Good(SetAsChild([run[t] EXCEPT !.ok = TRUE]))
  BY <1>2, <1>3, <1>4, SetAsChildGood
<1> QED
  BY <1>1, <1>2, <1>5, CallFields DEF Good

LEMMA SetKeeps ==
  ASSUME NamedInv, NEW t \in Threads, Set(t)
  PROVE  NamedInv'
<1> DEFINE c == run[t].call
<1>1. run[t].pc = "container" /\ c.op = "Set"
  BY DEF Set, InContainer
<1>2. CASE GiveUp(t)
  BY <1>2, GiveUpKeeps
<1>3. CASE /\ entries' = [entries EXCEPT ![c.self][c.key] = c.val]
           /\ run' = [run EXCEPT ![t] = Replaced(run[t], entries[c.self][c.key])]
           /\ UNCHANGED <<parent, name>>
  <2>1. Safe(entries', parent', name')
    BY <1>1, <1>3, Attaching, EntrySafe
  <2>2. Good(Replaced(run[t], entries[c.self][c.key]))
    BY <1>1, Attaching, ReplacedGood
  <2> QED
    BY <1>3, <2>1, <2>2, StepKeeps
<1> QED
  BY <1>2, <1>3 DEF Set

LEMMA InsertKeeps ==
  ASSUME NamedInv, NEW t \in Threads, Insert(t)
  PROVE  NamedInv'
<1> DEFINE c == run[t].call
           x == SetAsChild([run[t] EXCEPT !.ok = TRUE])
<1>1. run[t].pc = "container" /\ c.op = "Insert"
  BY DEF Insert, InContainer
<1>2. CASE GiveUp(t)
  BY <1>2, GiveUpKeeps
<1>3. CASE /\ entries' = [entries EXCEPT ![c.self][c.key] = c.val]
           /\ run' = [run EXCEPT ![t] = x]
           /\ UNCHANGED <<parent, name>>
  <2>1. Safe(entries', parent', name')
    BY <1>1, <1>3, Attaching, EntrySafe
  <2>2. Good(x)
    BY <1>1, Attaching
  <2> QED
    BY <1>3, <2>1, <2>2, StepKeeps
<1> QED
  BY <1>2, <1>3 DEF Insert

LEMMA CompareExchangeKeeps ==
  ASSUME NamedInv, NEW t \in Threads, CompareExchange(t)
  PROVE  NamedInv'
<1> DEFINE c == run[t].call
           x == SetAsChild([run[t] EXCEPT !.ok = TRUE])
<1>1. run[t].pc = "container" /\ c.op = "CompareExchange"
  BY DEF CompareExchange, InContainer
<1>2. CASE GiveUp(t)
  BY <1>2, GiveUpKeeps
<1>3. CASE /\ \/ entries' = [entries EXCEPT ![c.self][c.key] = c.val]
              \/ UNCHANGED entries
           /\ run' = [run EXCEPT ![t] = x]
           /\ UNCHANGED <<parent, name>>
  <2>1. Safe(entries', parent', name')
    BY <1>1, <1>3, Attaching, EntrySafe, Shape
  <2>2. Good(x)
    BY <1>1, Attaching
  <2> QED
    BY <1>3, <2>1, <2>2, StepKeeps
<1> QED
  BY <1>2, <1>3 DEF CompareExchange

LEMMA OrphanKeeps ==
  ASSUME NamedInv, NEW t \in Threads, Orphan(t)
  PROVE  NamedInv'
<1> DEFINE r == run[t]
           x == [r EXCEPT !.prev = NoNode]
<1>1. Good(r) /\ r.pc = "orphan"
  BY ThreadGood DEF Orphan
<1>2. Typed(x)
  BY <1>1, Remembers DEF Good
<1>3. x.pc = "orphan" /\ x.into = r.into /\ r.into # NoNode /\ r.prev \in Nodes
  BY <1>1 DEF Good, Typed, Locals, Carries
<1>4. Good(SetAsChild(x))
  BY <1>2, <1>3, SetAsChildGood
<1>5. Safe(entries', parent', name')
  BY <1>3, Shape DEF Orphan, Safe
<1>6. run' = [run EXCEPT ![t] = SetAsChild(x)]
  BY DEF Orphan
<1> QED
  BY <1>4, <1>5, <1>6, StepKeeps

LEMMA TakeOutKeeps ==
  ASSUME NamedInv, NEW t \in Threads, run[t].pc = "container", run[t].call.op \in
           {"Erase", "BulkErase", "Clear"},
         NEW keys \in SUBSET Names,
         NEW left \in [Names -> Values \cup {NoEntry, Erased}],
         TakeOut(t, keys, left)
  PROVE  NamedInv'
<1> DEFINE r == run[t]
           n == r.call.self
           removed == {<<k, entries[n][k]>> : k \in keys \cap Held(n)}
           x == [r EXCEPT !.ok = TRUE, !.pending = removed]
<1>1. Good(r) /\ n \in Nodes
  BY ThreadGood, CallFields DEF Good, Typed, InCall
<1>2. removed \in SUBSET (Names \X Nodes)
  BY DEF Held
<1>3. x \in Locals /\ x.pc = "container" /\ x.call = r.call
  BY <1>1, <1>2 DEF Good, Typed, Locals
<1>4. Typed(x)
  BY <1>1, <1>3 DEF Good, Typed, InCall
<1>5. Good(DetachRemoved(x))
  BY <1>3, <1>4, DetachRemovedGood
<1>6. /\ entries' = [entries EXCEPT ![n] = left]
      /\ run' = [run EXCEPT ![t] = DetachRemoved(x)]
      /\ UNCHANGED <<parent, name>>
  BY DEF TakeOut
<1>7. Safe(entries', parent', name')
  BY <1>1, <1>6, WriteSafe
<1> QED
  BY <1>5, <1>6, <1>7, StepKeeps

LEMMA RemovalKeeps ==
  ASSUME NamedInv, NEW t \in Threads, Erase(t) \/ BulkErase(t) \/ Clear(t)
  PROVE  NamedInv'
<1> DEFINE c == run[t].call
<1>1. run[t].pc = "container" /\ c.op \in {"Erase", "BulkErase", "Clear"}
  BY DEF Erase, BulkErase, Clear, InContainer
<1>2. c \in Calls
  BY <1>1, ThreadGood DEF Good, Typed, InCall
<1>3. \A keys : Tombed(c.self, keys) \in [Names -> Values \cup {NoEntry, Erased}]
  BY <1>2, CallFields, Shape DEF Tombed, Safe
<1>4. CASE Erase(t)
  <2>1. CASE GiveUp(t)
    BY <2>1, GiveUpKeeps
  <2>2. CASE TakeOut(t, {c.key}, Tombed(c.self, {c.key}))
    <3>1. {c.key} \in SUBSET Names
      BY <1>2, <1>4, CallFields DEF Erase, InContainer
    <3> QED
      BY <1>1, <1>3, <2>2, <3>1, TakeOutKeeps
  <2> QED
    BY <1>4, <2>1, <2>2 DEF Erase
<1>5. CASE BulkErase(t)
  <2>1. c.keys \in SUBSET Names /\ TakeOut(t, c.keys, Tombed(c.self, c.keys))
    BY <1>2, <1>5, CallFields DEF BulkErase, InContainer
  <2> QED
    BY <1>1, <1>3, <2>1, TakeOutKeeps
<1>6. CASE Clear(t)
  <2>1. /\ TakeOut(t, Names, [k \in Names |-> NoEntry])
        /\ [k \in Names |-> NoEntry] \in [Names -> Values \cup {NoEntry, Erased}]
    BY <1>6 DEF Clear
  <2> QED
    BY <1>1, <2>1, TakeOutKeeps
<1> QED
  BY <1>4, <1>5, <1>6

LEMMA KeyChangeKeeps ==
  ASSUME NamedInv, NEW t \in Threads, KeyChange(t)
  PROVE  NamedInv'
<1> DEFINE r == run[t]
           c == r.call
           moved == entries[c.self][c.key]
           row == [k \in Names |-> IF k = c.key THEN Erased
                                   ELSE IF k = c.to THEN moved
                                   ELSE entries[c.self][k]]
           x == [r EXCEPT !.pc = "rename", !.child = moved, !.name = c.to]
<1>1. /\ r.pc = "container" /\ c.op = "KeyChange" /\ Good(r)
  BY ThreadGood DEF KeyChange, InContainer
<1>2. c \in Calls /\ c.to \in Names /\ c.self \in Nodes /\ c.key \in Names
  BY <1>1, CallFields DEF Good, Typed, InCall
<1>3. CASE GiveUp(t)
  BY <1>3, GiveUpKeeps
<1>4. CASE /\ entries' = [entries EXCEPT ![c.self] = row]
           /\ run' = [run EXCEPT ![t] = IF moved \in Nodes THEN x ELSE Returned(TRUE)]
           /\ UNCHANGED <<parent, name>>
  <2>1. row \in [Names -> Values \cup {NoEntry, Erased}]
    BY <1>2, Shape DEF Safe
  <2>2. Safe(entries', parent', name')
    BY <1>2, <1>4, <2>1, WriteSafe
  <2>3. CASE moved \in Nodes
    <3>1. /\ x \in Locals /\ x.pc = "rename" /\ x.call = c
          /\ x.child = moved /\ x.name = c.to
      BY <1>1, <1>2, <2>3 DEF Good, Typed, Locals, Points
    <3>2. Good(x)
      BY <1>1, <1>2, <2>3, <3>1, ValuesAssumption DEF Good, Typed, InCall, Carries
    <3> QED
      BY <1>4, <2>2, <2>3, <3>2, StepKeeps
  <2>4. CASE moved \notin Nodes
    <3>1. Good(Returned(TRUE))
      BY IdleGood
    <3> QED
      BY <1>4, <2>2, <2>4, <3>1, StepKeeps
  <2> QED
    BY <2>3, <2>4
<1> QED
  BY <1>3, <1>4 DEF KeyChange

LEMMA PrivateNameSetKeeps ==
  ASSUME NamedInv, NEW t \in Threads, PrivateNameSet(t)
  PROVE  NamedInv'
<1>1. Good(run[t]) /\ run[t].pc = "rename"
  BY ThreadGood DEF PrivateNameSet
<1>2. run[t].name \in Names /\ run[t].child \in Nodes
  BY <1>1 DEF Good, Typed, Locals, Carries
<1>3. Safe(entries', parent', name')
  BY <1>2, Shape, ValuesAssumption DEF PrivateNameSet, Safe
<1> QED
  BY <1>3, IdleGood, StepKeeps DEF PrivateNameSet

(* NameSet writes the name of a child that has no name or no parent; by    *)
(* NamedChild a nameless one has no parent either.                         *)
LEMMA NameSetKeeps ==
  ASSUME NamedInv, NEW t \in Threads, NameSet(t)
  PROVE  NamedInv'
<1> DEFINE r == run[t]
           c == r.call
           free == name[c.self] = NoName \/ parent[c.self] = NoNode
           change == [op |-> "KeyChange", self |-> parent[c.self],
                      key |-> name[c.self], to |-> c.to]
           x == [r EXCEPT !.pc = "container", !.call = change]
<1>1. Good(r) /\ r.pc = "name"
  BY ThreadGood DEF NameSet
<1>2. c \in Calls /\ c.op = "NameSet"
  BY <1>1 DEF Good, Typed, InCall
<1>3. c.self \in Nodes /\ c.to \in Names \cup {NoName} /\ (c.update => c.to # NoName)
  BY <1>1, <1>2, CallFields DEF Good, Typed, InCall
<1>4. CASE /\ c.to = name[c.self] \/ free
           /\ name' = [name EXCEPT ![c.self] = c.to]
           /\ run' = [run EXCEPT ![t] = Returned(TRUE)]
  <2>1. Safe(entries', parent', name')
    BY <1>3, <1>4, Shape DEF Safe, NameSet
  <2> QED
    BY <1>4, <2>1, IdleGood, StepKeeps
<1>5. CASE /\ c.to # name[c.self] /\ ~free
           /\ run' = [run EXCEPT ![t] = IF c.update THEN x ELSE Returned(FALSE)]
           /\ UNCHANGED name
  <2>1. Safe(entries', parent', name')
    BY <1>5, Shape DEF NameSet
  <2>2. CASE c.update
    <3>1. parent[c.self] \in Nodes /\ name[c.self] \in Names
      BY <1>3, <1>5, Shape DEF Safe
    <3>2. change \in Calls
      BY <1>3, <3>1 DEF Calls
    <3>3. x \in Locals /\ x.pc = "container" /\ x.call = change
      BY <1>1, <3>2 DEF Good, Typed, Locals, Points
    <3>4. Good(x)
      BY <1>3, <2>2, <3>2, <3>3 DEF Good, Typed, InCall, Carries
    <3> QED
      BY <1>5, <2>1, <2>2, <3>4, StepKeeps
  <2>3. CASE ~c.update
    BY <1>5, <2>1, <2>3, IdleGood, StepKeeps
  <2> QED
    BY <2>2, <2>3
<1> QED
  BY <1>4, <1>5 DEF NameSet

-----------------------------------------------------------------------------
LEMMA NextKeeps == NamesGiven /\ NamedInv /\ [Next]_vars => NamedInv'
<1> SUFFICES ASSUME NamesGiven, NamedInv, [Next]_vars PROVE NamedInv'
  OBVIOUS
<1>1. CASE UNCHANGED vars
  <2>1. Safe(entries', parent', name') /\ run' = run
    BY <1>1, Shape DEF vars
  <2>2. TypeOK' /\ NamedChild'
    BY <2>1, Shape DEF TypeOK, NamedChild, Safe
  <2>3. (\A t \in Threads : Carries(run[t]) /\ InCall(run[t]))'
    BY <2>1, Shape DEF Carries, InCall
  <2> QED
    BY <2>2, <2>3 DEF NamedInv
<1>2. ASSUME NEW t \in Threads, NEW c \in CallsOf[t], Begin(t, c) PROVE NamedInv'
  BY <1>2, BeginKeeps
<1>3. ASSUME NEW t \in Threads, Section(t) PROVE NamedInv'
  BY <1>3, SetKeeps, InsertKeeps, CompareExchangeKeeps, RemovalKeeps, KeyChangeKeeps
     DEF Section
<1>4. ASSUME NEW t \in Threads, Step(t) PROVE NamedInv'
  BY <1>3, <1>4, ClimbKeeps, OrphanKeeps, LinkKeeps, PrivateEraseKeeps, NameGetKeeps,
     PrivateSetKeeps, PrivateNameSetKeeps, NameSetKeeps DEF Step
<1> QED
  BY <1>1, <1>2, <1>4 DEF Next

(* The types of the tree and of every thread's local variables, whatever   *)
(* the calls and however they interleave: no section of XNode writes into  *)
(* a node, key or name that is not there.                                  *)
THEOREM TypeCorrect == ASSUME NamesGiven PROVE Spec => []TypeOK
<1>1. NamedInv => TypeOK
  BY DEF NamedInv
<1> QED
  BY <1>1, InitSafe, NextKeeps, PTL DEF Spec

(* Whatever the threads call, on whichever nodes, and however the sections *)
(* of their calls interleave, a child of a map node has a name.  It needs  *)
(* only that nobody renames an attached child to the empty name.           *)
THEOREM ChildrenAreNamed == ASSUME NamesGiven PROVE Spec => []NamedChild
<1>1. NamedInv => NamedChild
  BY DEF NamedInv
<1> QED
  BY <1>1, InitSafe, NextKeeps, PTL DEF Spec

-----------------------------------------------------------------------------
(* One thread at a time.  Between its look at the ancestors of the new     *)
(* parent and the section that links the child to it nothing changes, so   *)
(* what the climb has seen still holds.                                    *)

OneThread == \E t : Threads = {t}

(* A thread that climbs has left the nodes of V behind it, on the way up   *)
(* from the new parent, and has not met the child among them.              *)
Climbing(r) ==
  \E V \in SUBSET Nodes :
    /\ r.into \in V \cup {r.at}
    /\ r.child \notin V
    /\ \A x \in V : parent[x] \in V \cup {r.at}

(* c is neither n nor one of its ancestors. *)
Away(c, n) ==
  \E U \in SUBSET Nodes :
    /\ n \in U /\ c \notin U
    /\ \A x \in U : parent[x] \in U \cup {NoNode}

Climbs(r) ==
  /\ r.pc \in {"checkChild", "checkParent"} => Climbing(r)
  /\ r.pc = "link" /\ r.into # NoNode => Away(r.child, r.into)

AcyclicInv == NamedInv /\ Acyclic /\ \A t \in Threads : Climbs(run[t])

(* A climb that begins here; a link that needs none. *)
Starts(r) ==
  /\ r.pc \in {"checkChild", "checkParent"} => r.at = r.into
  /\ r.pc = "link" => r.into = NoNode

LEMMA StartsClimbs ==
  ASSUME NEW r, Starts(r)
  PROVE  Climbs(r)'
<1>1. r.pc \in {"checkChild", "checkParent"} => Climbing(r)'
  <2> SUFFICES ASSUME r.at = r.into PROVE Climbing(r)'
    BY DEF Starts
  <2>1. {} \in SUBSET Nodes
    OBVIOUS
  <2> QED
    BY <2>1 DEF Climbing
<1> QED
  BY <1>1 DEF Climbs, Starts

LEMMA IdleStarts == ASSUME NEW ok PROVE Starts(Returned(ok))
<1>1. Returned(ok).pc = "idle"
  BY DEF Returned, Idle
<1> QED
  BY <1>1 DEF Starts

LEMMA SetAsChildStarts == ASSUME NEW r \in Locals PROVE Starts(SetAsChild(r))
<1>1. CASE r.child = NoNode
  BY <1>1, IdleStarts DEF SetAsChild
<1>2. CASE r.child # NoNode
  <2> DEFINE x == [r EXCEPT !.pc = "checkParent", !.at = r.into]
  <2>1. x.pc = "checkParent" /\ x.at = r.into /\ x.into = r.into
    BY DEF Locals
  <2> QED
    BY <1>2, <2>1 DEF SetAsChild, Starts
<1> QED
  BY <1>1, <1>2

LEMMA DetachRemovedStarts == ASSUME NEW r \in Locals PROVE Starts(DetachRemoved(r))
<1>1. CASE r.pending = {}
  BY <1>1, IdleStarts DEF DetachRemoved
<1>2. CASE r.pending # {}
  <2>1. [r EXCEPT !.pc = "detach"].pc = "detach"
    BY DEF Locals
  <2> QED
    BY <1>2, <2>1 DEF DetachRemoved, Starts
<1> QED
  BY <1>1, <1>2

LEMMA AddToParentStarts == ASSUME NEW r \in Locals PROVE Starts(AddToParent(r))
<1>1. CASE r.call.op = "ParentSet" /\ r.into # NoNode
  <2>1. [r EXCEPT !.pc = "nameGet"].pc = "nameGet"
    BY DEF Locals
  <2> QED
    BY <1>1, <2>1 DEF AddToParent, Starts
<1>2. CASE ~(r.call.op = "ParentSet" /\ r.into # NoNode)
  <2>1. [r EXCEPT !.prev = NoNode] \in Locals
    BY DEF Locals
  <2> QED
    BY <1>2, <2>1, DetachRemovedStarts DEF AddToParent
<1> QED
  BY <1>1, <1>2

LEMMA LeaveParentStarts == ASSUME NEW r \in Locals PROVE Starts(LeaveParent(r))
<1>1. CASE parent[r.child] = NoNode
  <2>1. [r EXCEPT !.ok = TRUE] \in Locals
    BY DEF Locals
  <2> QED
    BY <1>1, <2>1, AddToParentStarts DEF LeaveParent
<1>2. CASE parent[r.child] # NoNode
  <2>1. [r EXCEPT !.pc = "eraseOld", !.prev = parent[r.child], !.ok = TRUE].pc = "eraseOld"
    BY DEF Locals
  <2> QED
    BY <1>2, <2>1 DEF LeaveParent, Starts
<1> QED
  BY <1>1, <1>2

LEMMA ReplacedStarts == ASSUME NEW r \in Locals, NEW old PROVE Starts(Replaced(r, old))
<1>1. CASE old \in Nodes
  <2>1. [r EXCEPT !.pc = "orphan", !.prev = old, !.ok = TRUE].pc = "orphan"
    BY DEF Locals
  <2> QED
    BY <1>1, <2>1 DEF Replaced, Starts
<1>2. CASE old \notin Nodes
  <2>1. [r EXCEPT !.ok = TRUE] \in Locals
    BY DEF Locals
  <2> QED
    BY <1>2, <2>1, SetAsChildStarts DEF Replaced
<1> QED
  BY <1>1, <1>2

LEMMA StartedStarts == ASSUME NEW c \in Calls PROVE Starts(Started(c))
<1>1. CASE c.op \in {"Set", "Insert", "CompareExchange"}
  <2>1. Started(c).at = c.self /\ Started(c).into = c.self
        /\ Started(c).pc \in {"checkChild", "container"}
    BY <1>1 DEF Started, Idle
  <2> QED
    BY <2>1 DEF Starts
<1>2. CASE c.op = "ParentSet"
  <2>1. Started(c).at = c.into /\ Started(c).into = c.into
        /\ Started(c).pc = IF c.into = NoNode THEN "link" ELSE "checkParent"
    BY <1>2 DEF Started, Idle
  <2> QED
    BY <2>1 DEF Starts
<1>3. CASE c.op \notin {"Set", "Insert", "CompareExchange", "ParentSet"}
  <2>1. Started(c).pc \in {"name", "container"}
    BY <1>3 DEF Started, Idle
  <2> QED
    BY <2>1 DEF Starts
<1> QED
  BY <1>1, <1>2, <1>3

(* Every step but a round of a climb begins a climb or has nothing to do   *)
(* with one.                                                               *)
LEMMA OthersStart ==
  ASSUME NamedInv, NEW t \in Threads,
         \/ \E c \in CallsOf[t] : Begin(t, c)
         \/ Step(t) /\ ~IsValidChild(t) /\ ~IsValidParent(t)
  PROVE  Starts(run'[t])
<1> PICK r : r = run[t]
  OBVIOUS
<1>1. r \in Locals /\ run \in [Threads -> Locals]
  BY DEF NamedInv, TypeOK
<1>2. [r EXCEPT !.ok = TRUE] \in Locals /\ [r EXCEPT !.prev = NoNode] \in Locals
  BY <1>1 DEF Locals
<1>3. ASSUME NEW c \in CallsOf[t], Begin(t, c)
      PROVE  Starts(run'[t])
  <2>1. run'[t] = Started(c) /\ c \in Calls
    BY <1>1, <1>3, CallsAssumption DEF Begin
  <2> QED
    BY <2>1, StartedStarts
<1>4. ASSUME GiveUp(t)
      PROVE  Starts(run'[t])
  <2>1. run'[t] = Returned(FALSE)
    BY <1>1, <1>4 DEF GiveUp
  <2> QED
    BY <2>1, IdleStarts
<1>5. CASE Set(t) \/ Insert(t) \/ CompareExchange(t)
  <2>1. \/ GiveUp(t)
        \/ run'[t] = SetAsChild([r EXCEPT !.ok = TRUE])
        \/ \E old : run'[t] = Replaced(r, old)
    BY <1>1, <1>5 DEF Set, Insert, CompareExchange
  <2> QED
    BY <1>1, <1>2, <1>4, <2>1, SetAsChildStarts, ReplacedStarts
<1>6. ASSUME NEW keys, NEW left, TakeOut(t, keys, left)
      PROVE  Starts(run'[t])
  <2> PICK removed : removed = {<<k, entries[r.call.self][k]>> : k \in keys \cap Held(r.call.self)}
    OBVIOUS
  <2> DEFINE x == [r EXCEPT !.ok = TRUE, !.pending = removed]
  <2>1. run'[t] = DetachRemoved(x)
    BY <1>1, <1>6 DEF TakeOut
  <2>2. [x EXCEPT !.pc = "detach"].pc = "detach"
    BY <1>1 DEF Locals
  <2>3. Starts([x EXCEPT !.pc = "detach"])
    BY <2>2 DEF Starts
  <2> HIDE DEF x
  <2> QED
    BY <2>1, <2>3, IdleStarts DEF DetachRemoved
<1>7. CASE Erase(t) \/ BulkErase(t) \/ Clear(t)
  BY <1>4, <1>6, <1>7 DEF Erase, BulkErase, Clear
<1>8. CASE KeyChange(t)
  <2> PICK moved : moved = entries[r.call.self][r.call.key]
    OBVIOUS
  <2>1. \/ GiveUp(t)
        \/ run'[t] = Returned(TRUE)
        \/ run'[t] = [r EXCEPT !.pc = "rename", !.child = moved, !.name = r.call.to]
    BY <1>1, <1>8 DEF KeyChange
  <2>2. [r EXCEPT !.pc = "rename", !.child = moved, !.name = r.call.to].pc = "rename"
    BY <1>1 DEF Locals
  <2> QED
    BY <1>4, <2>1, <2>2, IdleStarts DEF Starts
<1>9. CASE Orphan(t)
  <2>1. run'[t] = SetAsChild([r EXCEPT !.prev = NoNode])
    BY <1>1, <1>9 DEF Orphan
  <2> QED
    BY <1>2, <2>1, SetAsChildStarts
<1>10. ASSUME NEW q \in Locals, PrivateParentSet(t, q)
       PROVE  Starts(run'[t])
  <2>1. run'[t] = LeaveParent(q) \/ run'[t] = DetachRemoved(q)
    BY <1>1, <1>10 DEF PrivateParentSet
  <2> QED
    BY <2>1, LeaveParentStarts, DetachRemovedStarts
<1>11. CASE Link(t)
  BY <1>1, <1>10, <1>11 DEF Link
<1>12. CASE Detach(t)
  <2>1. PICK p \in r.pending :
          PrivateParentSet(t, [r EXCEPT !.child = p[2], !.into = NoNode, !.name = Keep,
                                        !.pending = @ \ {p}])
    BY <1>12 DEF Detach
  <2>2. [r EXCEPT !.child = p[2], !.into = NoNode, !.name = Keep, !.pending = @ \ {p}] \in Locals
    BY <1>1 DEF Locals
  <2> QED
    BY <1>10, <2>1, <2>2
<1>13. CASE PrivateErase(t)
  <2>1. run'[t] = AddToParent(r)
    BY <1>1, <1>13 DEF PrivateErase
  <2> QED
    BY <1>1, <2>1, AddToParentStarts
<1>14. CASE NameGet(t)
  <2>1. run'[t] = [r EXCEPT !.name = name[r.child], !.pc = "place"]
    BY <1>1, <1>14 DEF NameGet
  <2>2. run'[t].pc = "place"
    BY <1>1, <2>1 DEF Locals
  <2> QED
    BY <2>2 DEF Starts
<1>15. CASE PrivateSet(t) \/ PrivateNameSet(t)
  <2>1. run'[t] = Returned(TRUE)
    BY <1>1, <1>15 DEF PrivateSet, PrivateNameSet
  <2> QED
    BY <2>1, IdleStarts
<1>16. CASE NameSet(t)
  <2> PICK change : change = [op |-> "KeyChange", self |-> parent[r.call.self],
                              key |-> name[r.call.self], to |-> r.call.to]
    OBVIOUS
  <2>1. \/ run'[t] = Returned(TRUE) \/ run'[t] = Returned(FALSE)
        \/ run'[t] = [r EXCEPT !.pc = "container", !.call = change]
    BY <1>1, <1>16 DEF NameSet
  <2>2. [r EXCEPT !.pc = "container", !.call = change].pc = "container"
    BY <1>1 DEF Locals
  <2> QED
    BY <2>1, <2>2, IdleStarts, ZenonT(40) DEF Starts
<1> QED
  BY <1>3, <1>5, <1>7, <1>8, <1>9, <1>11, <1>12, <1>13, <1>14, <1>15, <1>16 DEF Step, Section

(* A node that loses its parent closes no loop ... *)
LEMMA LosingParentsKeeps ==
  ASSUME NamedInv, Acyclic, \A n \in Nodes : parent'[n] \in {parent[n], NoNode}
  PROVE  Acyclic'
<1> SUFFICES ASSUME NEW loop \in SUBSET Nodes, loop # {}
             PROVE  \E n \in loop : parent'[n] \notin loop
  BY DEF Acyclic
<1>1. PICK n \in loop : parent[n] \notin loop
  BY DEF Acyclic
<1>2. NoNode \notin loop
  BY ValuesAssumption
<1> QED
  BY <1>1, <1>2

(* ... and neither does one that is put below a node it is not above.      *)
LEMMA LinkingKeeps ==
  ASSUME NamedInv, Acyclic, NEW c \in Nodes, NEW n \in Nodes, Away(c, n),
         parent' = [parent EXCEPT ![c] = n]
  PROVE  Acyclic'
<1> SUFFICES ASSUME NEW loop \in SUBSET Nodes, loop # {},
                    \A x \in loop : parent'[x] \in loop
             PROVE  FALSE
  BY DEF Acyclic
<1>1. /\ parent'[c] = n
      /\ \A x \in Nodes : x # c => parent'[x] = parent[x]
      /\ NoNode \notin loop
  BY ValuesAssumption DEF NamedInv, TypeOK
<1>2. PICK U \in SUBSET Nodes :
        n \in U /\ c \notin U /\ \A x \in U : parent[x] \in U \cup {NoNode}
  BY DEF Away
<1>3. CASE c \notin loop
  BY <1>1, <1>3 DEF Acyclic
<1>4. CASE c \in loop
  <2> DEFINE above == loop \cap U
  <2>1. n \in above /\ above \in SUBSET Nodes
    BY <1>1, <1>2, <1>4
  <2>2. \A x \in above : parent[x] \in above
    BY <1>1, <1>2
  <2> QED
    BY <2>1, <2>2 DEF Acyclic
<1> QED
  BY <1>3, <1>4

(* What the thread that moves does is what all threads do. *)
LEMMA OnlyThread ==
  ASSUME OneThread, NamedInv', Acyclic', NEW t \in Threads, NEW x, x = run'[t], Climbs(x)'
  PROVE  AcyclicInv'
<1>1. \A u \in Threads : run'[u] = x
  BY DEF OneThread
<1>2. (\A u \in Threads : Climbs(run[u]))'
  BY <1>1 DEF Climbs, Climbing, Away
<1> QED
  BY <1>2 DEF AcyclicInv

(* One round of a climb: the thread has left one more node behind, or is at *)
(* the top, and then has seen every ancestor of the new parent.            *)
LEMMA ClimbGoesOn ==
  ASSUME NamedInv, NEW r, Good(r), Climbing(r), r.pc \in {"checkChild", "checkParent"},
         NEW onTop \in {"container", "link"}, NEW x, x = Climb(r, onTop),
         UNCHANGED parent
  PROVE  Climbs(x)' /\ (x.pc = onTop => Away(x.child, x.into)) 
<1>1. r.at \in Nodes /\ r.child \in Nodes /\ r.into \in Nodes /\ r \in Locals
  BY DEF Good, Typed, Locals, Carries
<1>2. PICK V \in SUBSET Nodes :
        /\ r.into \in V \cup {r.at}
        /\ r.child \notin V
        /\ \A y \in V : parent[y] \in V \cup {r.at}
  BY DEF Climbing
<1> DEFINE U == V \cup {r.at}
<1>3. U \in SUBSET Nodes /\ r.into \in U
  BY <1>1, <1>2
<1>4. CASE r.at = r.child \/ parent[r.at] = r.into
  <2>1. x.pc = "idle"
    BY <1>4 DEF Climb, Returned, Idle
  <2> QED
    BY <2>1 DEF Climbs
<1>5. CASE ~(r.at = r.child \/ parent[r.at] = r.into) /\ parent[r.at] = NoNode
  <2>1. x.pc = onTop /\ x.child = r.child /\ x.into = r.into
    BY <1>1, <1>5 DEF Climb, Locals
  <2>2. r.child \notin U /\ \A y \in U : parent[y] \in U \cup {NoNode}
    BY <1>2, <1>5
  <2>3. Away(x.child, x.into)
    BY <1>3, <2>1, <2>2 DEF Away
  <2>4. Away(x.child, x.into)'
    BY <2>3 DEF Away
  <2> QED
    BY <2>1, <2>3, <2>4 DEF Climbs
<1>6. CASE ~(r.at = r.child \/ parent[r.at] = r.into) /\ parent[r.at] # NoNode
  <2>1. x.pc = r.pc /\ x.child = r.child /\ x.into = r.into /\ x.at = parent[r.at]
    BY <1>1, <1>6 DEF Climb, Locals
  <2>2. r.child \notin U /\ \A y \in U : parent[y] \in U \cup {x.at}
    BY <1>2, <1>6, <2>1
  <2>3. Climbing(x)'
    BY <1>3, <2>1, <2>2 DEF Climbing
  <2> QED
    BY <2>1, <2>3 DEF Climbs
<1> QED
  BY <1>4, <1>5, <1>6

LEMMA ClimbStep ==
  ASSUME OneThread, AcyclicInv, NamedInv', NEW t \in Threads,
         IsValidChild(t) \/ IsValidParent(t)
  PROVE  AcyclicInv'
<1> PICK r : r = run[t]
  OBVIOUS
<1> PICK x : x = run'[t]
  OBVIOUS
<1>1. NamedInv /\ Good(r) /\ run \in [Threads -> Locals] /\ Climbs(r)
  BY ThreadGood DEF AcyclicInv, NamedInv, TypeOK
<1>2. UNCHANGED parent
  BY DEF IsValidChild, IsValidParent
<1>3. PICK onTop \in {"container", "link"} : x = Climb(r, onTop)
  BY <1>1 DEF IsValidChild, IsValidParent
<1>4. r.pc \in {"checkChild", "checkParent"} /\ Climbing(r)
  BY <1>1 DEF IsValidChild, IsValidParent, Climbs
<1>5. Climbs(x)'
  BY <1>1, <1>2, <1>3, <1>4, ClimbGoesOn
<1>6. Acyclic'
  BY <1>1, <1>2, LosingParentsKeeps DEF AcyclicInv
<1> QED
  BY <1>5, <1>6, OnlyThread

LEMMA LinkStep ==
  ASSUME AcyclicInv, NEW t \in Threads, Link(t) \/ Detach(t)
  PROVE  Acyclic'
<1> PICK r : r = run[t]
  OBVIOUS
<1>1. NamedInv /\ Good(r) /\ Climbs(r) /\ Acyclic
  BY ThreadGood DEF AcyclicInv
<1>2. parent \in [Nodes -> Nodes \cup {NoNode}]
  BY <1>1 DEF NamedInv, TypeOK
<1>3. CASE UNCHANGED parent
  BY <1>1, <1>3, LosingParentsKeeps
<1>4. ASSUME NEW c \in Nodes, parent' = [parent EXCEPT ![c] = NoNode]
      PROVE  Acyclic'
  <2>1. \A n \in Nodes : parent'[n] \in {parent[n], NoNode}
    BY <1>2, <1>4
  <2> QED
    BY <1>1, <2>1, LosingParentsKeeps
<1>5. CASE Link(t)
  <2>1. r.child \in Nodes /\ r.into \in Nodes \cup {NoNode} /\ r.pc = "link"
    BY <1>1, <1>5 DEF Good, Typed, Locals, Carries, Link
  <2>2. UNCHANGED parent \/ parent' = [parent EXCEPT ![r.child] = r.into]
    BY <1>5 DEF Link, PrivateParentSet
  <2>3. CASE r.into # NoNode /\ parent' = [parent EXCEPT ![r.child] = r.into]
    <3>1. Away(r.child, r.into)
      BY <1>1, <2>1, <2>3 DEF Climbs
    <3> QED
      BY <1>1, <2>1, <2>3, <3>1, LinkingKeeps
  <2> QED
    BY <1>3, <1>4, <2>1, <2>2, <2>3
<1>6. CASE Detach(t)
  <2>1. PICK p \in r.pending :
          PrivateParentSet(t, [r EXCEPT !.child = p[2], !.into = NoNode, !.name = Keep,
                                        !.pending = @ \ {p}])
    BY <1>6 DEF Detach
  <2> DEFINE q == [r EXCEPT !.child = p[2], !.into = NoNode, !.name = Keep, !.pending = @ \ {p}]
  <2>2. p[2] \in Nodes /\ q.child = p[2] /\ q.into = NoNode
    BY <1>1 DEF Good, Typed, Locals
  <2> HIDE DEF q
  <2>3. UNCHANGED parent \/ parent' = [parent EXCEPT ![p[2]] = NoNode]
    BY <2>1, <2>2 DEF PrivateParentSet, q
  <2> QED
    BY <1>3, <1>4, <2>2, <2>3
<1> QED
  BY <1>5, <1>6

LEMMA AcyclicStep ==
  ASSUME OneThread, AcyclicInv, NamedInv', [Next]_vars
  PROVE  AcyclicInv'
<1>1. NamedInv /\ Acyclic
  BY DEF AcyclicInv
<1>2. CASE UNCHANGED vars
  BY <1>2 DEF vars, AcyclicInv, Acyclic, Climbs, Climbing, Away
<1>3. ASSUME NEW t \in Threads, (\E c \in CallsOf[t] : Begin(t, c)) \/ Step(t)
      PROVE  AcyclicInv'
  <2> PICK x : x = run'[t]
    OBVIOUS
  <2>1. CASE IsValidChild(t) \/ IsValidParent(t)
    BY <2>1, ClimbStep
  <2>2. CASE ~(IsValidChild(t) \/ IsValidParent(t))
    <3>1. Climbs(x)'
      BY <1>1, <1>3, <2>2, OthersStart, StartsClimbs
    <3>2. CASE Link(t) \/ Detach(t)
      BY <3>1, <3>2, LinkStep, OnlyThread
    <3>3. CASE ~(Link(t) \/ Detach(t))
      <4>1. UNCHANGED parent \/ \E n : parent' = [parent EXCEPT ![n] = NoNode]
        BY <1>3, <2>2, <3>3
        DEF Begin, Step, Section, Set, Insert, CompareExchange, Erase, BulkErase, Clear,
            TakeOut, GiveUp, KeyChange, Orphan, PrivateErase, NameGet, PrivateSet,
            PrivateNameSet, NameSet
      <4>2. \A n \in Nodes : parent'[n] \in {parent[n], NoNode}
        BY <1>1, <4>1 DEF NamedInv, TypeOK
      <4> QED
        BY <1>1, <3>1, <4>2, LosingParentsKeeps, OnlyThread
    <3> QED
      BY <3>2, <3>3
  <2> QED
    BY <2>1, <2>2
<1> QED
  BY <1>2, <1>3 DEF Next

LEMMA AlwaysNamed == ASSUME NamesGiven PROVE Spec => []NamedInv
  BY InitSafe, NextKeeps, PTL DEF Spec

LEMMA AlwaysAcyclicInv == ASSUME NamesGiven, OneThread PROVE Spec => []AcyclicInv
<1>1. Init => AcyclicInv
  <2> SUFFICES ASSUME Init PROVE AcyclicInv
    OBVIOUS
  <2>1. \A t \in Threads : run[t].pc = "idle"
    BY DEF Init, Idle
  <2>2. Acyclic
    BY ValuesAssumption DEF Init, Acyclic
  <2> QED
    BY <2>1, <2>2, InitSafe DEF AcyclicInv, Climbs
<1>2. AcyclicInv /\ NamedInv' /\ [Next]_vars => AcyclicInv'
  BY AcyclicStep
<1> QED
  BY <1>1, <1>2, AlwaysNamed, PTL DEF Spec

(* One thread makes any calls, in any order and on any nodes, careful or   *)
(* not: no node becomes its own ancestor.  The climb of IsValidParent_     *)
(* before every link is enough for that, as long as no other thread moves a *)
(* node between the climb and the link.                                    *)
THEOREM AlwaysAcyclic == ASSUME NamesGiven, OneThread PROVE Spec => []Acyclic
<1>1. AcyclicInv => Acyclic
  BY DEF AcyclicInv
<1> QED
  BY <1>1, AlwaysAcyclicInv, PTL

-----------------------------------------------------------------------------
(* One thread that makes careful calls.  Every point of a call has its own *)
(* small disagreement between entries and parents, about the child it works *)
(* on, the node it replaced and those it took out; all other nodes are in  *)
(* their places.                                                           *)

Attaches(r) == r.call.op \in {"Set", "Insert", "CompareExchange"}
Removes(r) == r.call.op \in {"Erase", "BulkErase", "Clear"}

(* What a thread has of the arguments of its call ... *)
Argued(r) ==
  /\ Attaches(r) => r.child = NodeOf(r.call.val) /\ r.into = r.call.self /\ r.name = r.call.key
  /\ r.call.op = "ParentSet" => r.child = r.call.self /\ r.into = r.call.into
  /\ ~Attaches(r) /\ r.call.op # "ParentSet" => r.into = NoNode
  /\ ~Removes(r) => r.pending = {}

(* ... and the points the call can be at. *)
Arrived(r) ==
  /\ r.pc = "checkChild" => r.call.op \in {"Set", "Insert"}
  /\ r.pc \in {"checkParent", "link"} => Attaches(r) \/ r.call.op = "ParentSet"
  /\ r.pc = "container" => Attaches(r) \/ Removes(r) \/ r.call.op = "KeyChange"
  /\ r.pc = "orphan" => r.call.op = "Set"
  /\ r.pc = "eraseOld" => Attaches(r) \/ Removes(r) \/ r.call.op = "ParentSet"
  /\ r.pc \in {"nameGet", "place"} => r.call.op = "ParentSet"
  /\ r.pc = "detach" => Removes(r)
  /\ r.pc = "rename" => r.call.op = "KeyChange"

(* The entries that hold c are the one its parent has under its name. *)
Placed(c) ==
  \A n \in Nodes, k \in Names : entries[n][k] = c <=> parent[c] = n /\ name[c] = k

AllPlacedBut(X) == \A c \in Nodes \ X : Placed(c)

Nowhere(c) == \A n \in Nodes, k \in Names : entries[n][k] # c

(* c has been entered in n under k, and still is where its parent has it. *)
Entered(c, n, k) ==
  /\ \A m \in Nodes, j \in Names :
       entries[m][j] = c <=> (m = n /\ j = k) \/ (parent[c] = m /\ name[c] = j)
  /\ FreeToMove(c, n, k)

(* There is room for the child under its new name in its new parent. *)
Room(r) == r.into \notin Watched /\ entries[r.into][name[r.child]] \notin Nodes

Removed(r) == {p[2] : p \in r.pending}

(* What was taken out of a node is nowhere, and does not know it yet. *)
PendingOut(r) ==
  \A p \in r.pending :
    /\ Nowhere(p[2])
    /\ parent[p[2]] = r.call.self /\ name[p[2]] = p[1]
    /\ entries[r.call.self][p[1]] \in {NoEntry, Erased}

(* What IsCareful says of each call. *)
Cautious(c) ==
  /\ c.op \in {"Set", "Insert"} /\ c.val \in Nodes =>
       entries[c.self][c.key] = c.val \/ FreeToMove(c.val, c.self, c.key)
  /\ c.op = "CompareExchange" =>
       /\ entries[c.self][c.key] \notin Nodes
       /\ c.val \in Nodes =>
            /\ c.val # c.self /\ parent[c.val] = NoNode
            /\ \A k \in Names : ~HasValue(c.val, k)
            /\ c.self \notin Watched
  /\ c.op = "ParentSet" /\ c.into = NoNode => c.name = Keep
  /\ c.op = "ParentSet" /\ c.into # NoNode =>
       LET k == IF c.name = Keep THEN name[c.self] ELSE c.name
       IN  k # NoName =>
             /\ c.into \notin Watched
             /\ FreeToMove(c.self, c.into, k)
             /\ entries[c.into][k] \notin Nodes

Untouched(r) ==
  \/ r.pc \in {"checkChild", "container", "name"}
  \/ r.pc \in {"checkParent", "link"} /\ r.call.op = "ParentSet"

BeforeSection(r) ==
  /\ AllPlacedBut({}) /\ Cautious(r.call) /\ ~r.ok
  /\ r.call.op = "ParentSet" => r.name = r.call.name
  /\ r.pc = "container" /\ r.call.op \in {"Set", "Insert"} /\ r.child # NoNode
       => Away(r.child, r.into)

AtOrphan(r) ==
  /\ r.prev # r.child /\ AllPlacedBut({r.prev, r.child}) /\ Nowhere(r.prev)
  /\ r.child # NoNode => Entered(r.child, r.into, r.name) /\ Away(r.child, r.into)

AtLink(r) ==
  /\ AllPlacedBut({r.child}) /\ Entered(r.child, r.into, r.name)
  /\ r.pc = "checkParent" => Away(r.child, r.at)

(* The child has its new parent, and the former one has it once at most:   *)
(* under its new name, or that name is free of values there.               *)
AtEraseOld(r) ==
  /\ AllPlacedBut({r.child} \cup Removed(r)) /\ r.child \notin Removed(r)
  /\ PendingOut(r)
  /\ parent[r.child] = r.into /\ r.prev # r.into /\ name[r.child] \in Names
  /\ entries[r.prev][name[r.child]] \in {NoEntry, Erased, r.child}
  /\ \A j, k \in Names : entries[r.prev][j] = r.child /\ entries[r.prev][k] = r.child => j = k
  /\ \A m \in Nodes \ {r.prev}, k \in Names :
       entries[m][k] = r.child <=> Attaches(r) /\ m = r.into /\ k = name[r.child]
  /\ r.call.op = "ParentSet" /\ r.into # NoNode => Room(r)

AtPlace(r) ==
  /\ AllPlacedBut({r.child}) /\ Nowhere(r.child)
  /\ parent[r.child] = r.into /\ Room(r) /\ name[r.child] \in Names
  /\ r.pc = "place" => r.name = name[r.child]

AtDetach(r) == AllPlacedBut(Removed(r)) /\ PendingOut(r)

AtRename(r) ==
  /\ AllPlacedBut({r.child})
  /\ \A n \in Nodes, k \in Names : entries[n][k] = r.child <=> parent[r.child] = n /\ r.name = k

Doing(r) ==
  /\ r.pc # "idle" => Argued(r) /\ Arrived(r)
  /\ r.pc = "idle" => AllPlacedBut({})
  /\ Untouched(r) => BeforeSection(r)
  /\ r.pc = "orphan" => AtOrphan(r)
  /\ r.pc \in {"checkParent", "link"} /\ Attaches(r) => AtLink(r)
  /\ r.pc = "eraseOld" => AtEraseOld(r)
  /\ r.pc \in {"nameGet", "place"} => AtPlace(r)
  /\ r.pc = "detach" => AtDetach(r)
  /\ r.pc = "rename" => AtRename(r)

PlacedInv == \A t \in Threads, x \in Locals : run[t] = x => Doing(x)

LEMMA CarefulMeans == ASSUME NEW c, IsCareful(c) PROVE Cautious(c)
<1>1. CASE c.op \in {"Set", "Insert"}
  BY <1>1 DEF IsCareful, Cautious
<1>2. CASE c.op = "CompareExchange"
  BY <1>2 DEF IsCareful, Cautious
<1>3. CASE c.op = "ParentSet" /\ c.into = NoNode
  BY <1>3 DEF IsCareful, Cautious
<1>4. CASE c.op = "ParentSet" /\ c.into # NoNode
  BY <1>4 DEF IsCareful, Cautious
<1> QED
  BY <1>1, <1>2, <1>3, <1>4 DEF Cautious

LEMMA CautiousStays ==
  ASSUME NEW c, Cautious(c), UNCHANGED <<entries, parent, name>>
  PROVE  Cautious(c)'
  BY DEF Cautious, FreeToMove, HasValue

(* Nothing written to an entry, a parent or a name is the business of a    *)
(* node it is not about.                                                   *)
LEMMA SameEntriesPlaced ==
  ASSUME NEW X, AllPlacedBut(X), UNCHANGED entries,
         \A c \in Nodes \ X : parent'[c] = parent[c] /\ name'[c] = name[c]
  PROVE  AllPlacedBut(X)'
  BY DEF AllPlacedBut, Placed

LEMMA DoesIdle ==
  ASSUME NEW x, x.pc = "idle", AllPlacedBut({})'
  PROVE  Doing(x)'
  BY DEF Doing, Untouched

LEMMA DoesReturn ==
  ASSUME NEW ok, NEW x, x = Returned(ok), AllPlacedBut({})'
  PROVE  Doing(x)'
<1>1. x.pc = "idle"
  BY DEF Returned, Idle
<1> QED
  BY <1>1, DoesIdle

LEMMA DetachRemovedDoes ==
  ASSUME NEW r \in Locals, NEW x, x = DetachRemoved(r), Argued(r),
         AllPlacedBut(Removed(r))', PendingOut(r)'
  PROVE  Doing(x)'
<1>1. CASE r.pending = {}
  <2>1. Removed(r) = {}
    BY <1>1 DEF Removed
  <2>2. AllPlacedBut({})'
    BY <2>1 DEF AllPlacedBut
  <2> QED
    BY <1>1, <2>2, DoesReturn DEF DetachRemoved
<1>2. CASE r.pending # {}
  <2>1. x = [r EXCEPT !.pc = "detach"]
    BY <1>2 DEF DetachRemoved
  <2>2. /\ x.pc = "detach" /\ x.call = r.call /\ x.child = r.child /\ x.into = r.into
        /\ x.name = r.name /\ x.pending = r.pending
    BY <2>1 DEF Locals
  <2> HIDE <2>1
  <2>3. Removes(r)
    BY <1>2 DEF Argued
  <2>4. Argued(x) /\ Arrived(x)
    BY <2>2, <2>3 DEF Argued, Arrived, Attaches, Removes
  <2>5. AtDetach(x)'
    <3>1. Removed(x) = Removed(r)
      BY <2>2 DEF Removed
    <3>2. AllPlacedBut(Removed(x))'
      BY <3>1 DEF AllPlacedBut
    <3>3. PendingOut(x)'
      BY <2>2 DEF PendingOut
    <3> QED
      BY <3>2, <3>3 DEF AtDetach
  <2> QED
    BY <2>2, <2>4, <2>5 DEF Doing, Untouched, Argued, Arrived, Attaches, Removes
<1> QED
  BY <1>1, <1>2

LEMMA AddToParentDoes ==
  ASSUME NEW r \in Locals, NEW x, x = AddToParent(r), Argued(r),
         IF r.call.op = "ParentSet" /\ r.into # NoNode
         THEN /\ AllPlacedBut({r.child})' /\ Nowhere(r.child)'
              /\ parent'[r.child] = r.into /\ Room(r)' /\ name'[r.child] \in Names
         ELSE AllPlacedBut(Removed(r))' /\ PendingOut(r)'
  PROVE  Doing(x)'
<1>1. CASE r.call.op = "ParentSet" /\ r.into # NoNode
  <2>1. x = [r EXCEPT !.pc = "nameGet"]
    BY <1>1 DEF AddToParent
  <2>2. /\ x.pc = "nameGet" /\ x.call = r.call /\ x.child = r.child /\ x.into = r.into
        /\ x.name = r.name /\ x.pending = r.pending
    BY <2>1 DEF Locals
  <2> HIDE <2>1
  <2>3. Argued(x) /\ Arrived(x)
    BY <1>1, <2>2 DEF Argued, Arrived, Attaches, Removes
  <2>4. AtPlace(x)'
    BY <1>1, <2>2 DEF AtPlace, AllPlacedBut, Nowhere, Room
  <2> QED
    BY <1>1, <2>2, <2>3, <2>4 DEF Doing, Untouched
<1>2. CASE ~(r.call.op = "ParentSet" /\ r.into # NoNode)
  <2> PICK y : y = [r EXCEPT !.prev = NoNode]
    OBVIOUS
  <2>1. y \in Locals /\ y.call = r.call /\ y.child = r.child /\ y.into = r.into
        /\ y.name = r.name /\ y.pending = r.pending
    BY DEF Locals
  <2>2. x = DetachRemoved(y)
    BY <1>2 DEF AddToParent
  <2>3. Argued(y)
    BY <2>1 DEF Argued, Attaches, Removes
  <2>4. AllPlacedBut(Removed(y))' /\ PendingOut(y)'
    BY <1>2, <2>1 DEF AllPlacedBut, Removed, PendingOut
  <2> QED
    BY <2>1, <2>2, <2>3, <2>4, DetachRemovedDoes
<1> QED
  BY <1>1, <1>2

LEMMA SetAsChildDoes ==
  ASSUME NEW r \in Locals, NEW x, x = SetAsChild(r), Argued(r), Attaches(r),
         IF r.child = NoNode THEN AllPlacedBut({})'
         ELSE /\ AllPlacedBut({r.child})' /\ Entered(r.child, r.into, r.name)'
              /\ Away(r.child, r.into)'
  PROVE  Doing(x)'
<1>1. CASE r.child = NoNode
  BY <1>1, DoesReturn DEF SetAsChild
<1>2. CASE r.child # NoNode
  <2>1. x = [r EXCEPT !.pc = "checkParent", !.at = r.into]
    BY <1>2 DEF SetAsChild
  <2>2. /\ x.pc = "checkParent" /\ x.call = r.call /\ x.child = r.child /\ x.into = r.into
        /\ x.name = r.name /\ x.pending = r.pending /\ x.at = r.into
    BY <2>1 DEF Locals
  <2> HIDE <2>1
  <2>3. Argued(x) /\ Arrived(x)
    BY <2>2 DEF Argued, Arrived, Attaches, Removes
  <2>4. AtLink(x)'
    <3>1. AllPlacedBut({x.child})'
      BY <1>2, <2>2 DEF AllPlacedBut
    <3>2. Entered(x.child, x.into, x.name)'
      BY <1>2, <2>2 DEF Entered, FreeToMove
    <3>3. Away(x.child, x.at)'
      BY <1>2, <2>2 DEF Away
    <3> QED
      BY <3>1, <3>2, <3>3 DEF AtLink
  <2>5. ~Untouched(x)
    BY <2>2 DEF Untouched, Attaches
  <2> QED
    BY <2>2, <2>3, <2>4, <2>5 DEF Doing
<1> QED
  BY <1>1, <1>2

-----------------------------------------------------------------------------
(* PrivateParentSet, for each of its callers.                              *)

(* SetAsChild_: the child is in its new parent already. *)
LEMMA AttachLinks ==
  ASSUME NamedInv, NEW t \in Threads, NEW r, r = run[t], r.pc = "link", Attaches(r),
         Doing(r), Good(r), Link(t), NEW x, x = run'[t]
  PROVE  Doing(x)' /\ r.child \in Nodes /\ r.into \in Nodes /\ r.name \in Names
         /\ parent'[r.child] = r.into /\ entries'[r.into][r.name] = r.child
<1> PICK c : c = r.child
  OBVIOUS
<1> PICK n : n = r.into
  OBVIOUS
<1> PICK k : k = r.name
  OBVIOUS
<1>1. /\ r \in Locals /\ r.call \in Calls /\ run \in [Threads -> Locals]
      /\ parent \in [Nodes -> Nodes \cup {NoNode}] /\ name \in [Nodes -> Names \cup {NoName}]
  BY DEF Good, Typed, InCall, NamedInv, TypeOK
<1>2. Argued(r) /\ AtLink(r) /\ r.pending = {}
  BY DEF Doing, Argued, Attaches, Removes
<1>3. c \in Nodes /\ n \in Nodes /\ k \in Names
  <2>1. c \in Nodes
    BY <1>1 DEF Good, Carries, Locals
  <2> QED
    BY <1>1, <1>2, <2>1, CallFields DEF Argued, Attaches
<1>4. AllPlacedBut({c}) /\ Entered(c, n, k)
  BY <1>2 DEF AtLink
<1>5. parent[c] # n
  BY <1>3, <1>4, ValuesAssumption DEF Entered, FreeToMove
<1>6. NewName(r) = k /\ k # NoName
  BY <1>3, ValuesAssumption DEF NewName
<1>7. /\ parent' = [parent EXCEPT ![c] = n] /\ name' = [name EXCEPT ![c] = k]
      /\ entries' = entries /\ x = LeaveParent(r)
  BY <1>1, <1>5, <1>6 DEF Link, PrivateParentSet, MayLink
<1>8. parent'[c] = n /\ name'[c] = k /\ entries'[n][k] = c
  BY <1>1, <1>3, <1>4, <1>7 DEF Entered
<1>9. AllPlacedBut({c})'
  BY <1>1, <1>3, <1>4, <1>7, SameEntriesPlaced
<1>10. CASE parent[c] = NoNode
  <2>1. Placed(c)'
    BY <1>3, <1>4, <1>7, <1>8, <1>10, ValuesAssumption DEF Entered, Placed
  <2>2. AllPlacedBut({})'
    BY <1>9, <2>1 DEF AllPlacedBut
  <2> PICK q : q = [r EXCEPT !.ok = TRUE]
    OBVIOUS
  <2>3. /\ q \in Locals /\ q.call = r.call /\ q.child = c /\ q.into = n
        /\ q.name = k /\ q.pending = {}
    BY <1>1, <1>2 DEF Locals
  <2>4. x = AddToParent(q)
    BY <1>7, <1>10 DEF LeaveParent
  <2>5. Argued(q) /\ q.call.op # "ParentSet"
    BY <1>2, <2>3 DEF Argued, Attaches, Removes
  <2>6. AllPlacedBut(Removed(q))' /\ PendingOut(q)'
    BY <2>2, <2>3 DEF AllPlacedBut, Removed, PendingOut
  <2> QED
    BY <1>3, <1>8, <2>3, <2>4, <2>5, <2>6, AddToParentDoes
<1>11. CASE parent[c] # NoNode
  <2> PICK p : p = parent[c]
    OBVIOUS
  <2>1. x = [r EXCEPT !.pc = "eraseOld", !.prev = p, !.ok = TRUE]
    BY <1>7, <1>11 DEF LeaveParent
  <2>2. /\ x.pc = "eraseOld" /\ x.call = r.call /\ x.child = c /\ x.into = n
        /\ x.name = k /\ x.pending = {} /\ x.prev = p
    BY <1>1, <1>2, <2>1 DEF Locals
  <2> HIDE <2>1
  <2>3. Argued(x) /\ Arrived(x) /\ Attaches(x)
    BY <1>2, <2>2 DEF Argued, Arrived, Attaches, Removes
  <2>4. /\ p # n /\ entries[p][k] \in {NoEntry, Erased, c}
        /\ \A m \in Nodes, j \in Names :
             entries[m][j] = c <=> (m = n /\ j = k) \/ (p = m /\ name[c] = j)
    BY <1>4, <1>11 DEF Entered, FreeToMove
  <2>5. p \in Nodes
    BY <1>1, <1>3, <1>11
  <2>6. \A j, i \in Names : entries[p][j] = c /\ entries[p][i] = c => j = i
    BY <2>4, <2>5
  <2>7. \A m \in Nodes \ {p}, j \in Names : entries[m][j] = c <=> m = n /\ j = k
    BY <2>4
  <2>8. AllPlacedBut({x.child} \cup Removed(x))' /\ x.child \notin Removed(x) /\ PendingOut(x)'
    BY <1>9, <2>2 DEF AllPlacedBut, Removed, PendingOut
  <2>9. AtEraseOld(x)'
    <3>1. parent'[x.child] = x.into /\ x.prev # x.into /\ name'[x.child] \in Names
      BY ONLY <1>3, <1>8, <2>2, <2>4
    <3>2. entries'[x.prev][name'[x.child]] \in {NoEntry, Erased, x.child}
      BY ONLY <1>7, <1>8, <2>2, <2>4
    <3>3. \A i, j \in Names : entries'[x.prev][i] = x.child /\ entries'[x.prev][j] = x.child => i = j
      BY ONLY <1>7, <2>2, <2>6
    <3>4. \A m \in Nodes \ {x.prev}, j \in Names :
            entries'[m][j] = x.child <=> Attaches(x) /\ m = x.into /\ j = name'[x.child]
      BY ONLY <1>7, <1>8, <2>2, <2>3, <2>7
    <3>5. x.call.op # "ParentSet"
      BY ONLY <2>3 DEF Attaches
    <3> QED
      BY ONLY <2>8, <3>1, <3>2, <3>3, <3>4, <3>5 DEF AtEraseOld
  <2> QED
    BY <1>3, <1>8, <2>2, <2>3, <2>9 DEF Doing, Untouched
<1> QED
  BY <1>10, <1>11

(* ParentSet: the child is still where it was. *)
LEMMA ParentSetLinks ==
  ASSUME NamedInv, NEW t \in Threads, NEW r, r = run[t], r.pc = "link",
         r.call.op = "ParentSet", Doing(r), Good(r), Link(t), NEW x, x = run'[t]
  PROVE  Doing(x)' /\ (x.pc = "idle" /\ x.ok => r.into = NoNode)
<1> PICK c : c = r.child
  OBVIOUS
<1> PICK n : n = r.into
  OBVIOUS
<1> PICK k : k = NewName(r)
  OBVIOUS
<1>1. /\ r \in Locals /\ r.call \in Calls /\ run \in [Threads -> Locals]
      /\ parent \in [Nodes -> Nodes \cup {NoNode}] /\ name \in [Nodes -> Names \cup {NoName}]
      /\ NamedChild /\ NoNode \notin Nodes
  BY ValuesAssumption DEF Good, Typed, InCall, NamedInv, TypeOK
<1>2. Argued(r) /\ BeforeSection(r) /\ r.pending = {} /\ r.ok = FALSE
  BY <1>1 DEF Doing, Argued, Attaches, Removes, Untouched, BeforeSection, Locals
<1>3. c \in Nodes /\ n \in Nodes \cup {NoNode} /\ k \in Names \cup {NoName}
  BY <1>1 DEF Good, Carries, Locals, NewName
<1>4. AllPlacedBut({}) /\ Placed(c)
  BY <1>2, <1>3 DEF BeforeSection, AllPlacedBut
<1>5. CASE ~MayLink(r)
  <2>1. entries' = entries /\ parent' = parent /\ name' = name /\ x = DetachRemoved(r)
    BY <1>1, <1>5 DEF Link, PrivateParentSet
  <2>2. AllPlacedBut({})'
    BY <1>4, <2>1, SameEntriesPlaced
  <2>3. x = Returned(r.ok) /\ x.ok = FALSE
    BY <1>2, <2>1 DEF DetachRemoved, Returned, Idle
  <2> QED
    BY <2>2, <2>3, DoesReturn
<1>6. CASE MayLink(r)
  <2>1. /\ parent' = [parent EXCEPT ![c] = n] /\ name' = [name EXCEPT ![c] = k]
        /\ entries' = entries /\ x = LeaveParent(r)
        /\ parent[c] # n /\ (n # NoNode => k # NoName)
    BY <1>1, <1>6 DEF Link, PrivateParentSet, MayLink
  <2>2. parent'[c] = n /\ name'[c] = k
    BY <1>1, <1>3, <2>1
  <2>3. AllPlacedBut({c})'
    <3>1. AllPlacedBut({c})
      BY <1>4 DEF AllPlacedBut
    <3> QED
      BY <1>1, <1>3, <2>1, <3>1, SameEntriesPlaced
  <2>4. n # NoNode => n \notin Watched /\ FreeToMove(c, n, k) /\ entries[n][k] \notin Nodes
    <3> SUFFICES ASSUME n # NoNode
                 PROVE  n \notin Watched /\ FreeToMove(c, n, k) /\ entries[n][k] \notin Nodes
      OBVIOUS
    <3>1. r.call.into = n /\ r.call.self = c /\ r.call.name = r.name
      BY <1>2 DEF Argued, BeforeSection
    <3>2. k = IF r.call.name = Keep THEN name[c] ELSE r.call.name
      BY <3>1 DEF NewName
    <3> QED
      BY <1>2, <2>1, <3>1, <3>2 DEF BeforeSection, Cautious
  <2>5. CASE parent[c] = NoNode
    <3>1. n \in Nodes /\ k \in Names /\ Nowhere(c)
      BY <1>1, <1>3, <1>4, <2>1, <2>5 DEF Placed, Nowhere
    <3> PICK q : q = [r EXCEPT !.ok = TRUE]
      OBVIOUS
    <3>2. /\ q \in Locals /\ q.call = r.call /\ q.child = c /\ q.into = n
          /\ q.name = r.name /\ q.pending = {}
      BY <1>1, <1>2 DEF Locals
    <3>3. x = AddToParent(q)
      BY <2>1, <2>5 DEF LeaveParent
    <3>4. Argued(q)
      BY <1>2, <3>2 DEF Argued, Attaches, Removes
    <3>5. Nowhere(c)' /\ Room(q)'
      BY <1>1, <2>1, <2>2, <2>4, <3>1, <3>2 DEF Nowhere, Room
    <3>6. Doing(x)'
      BY <1>1, <2>2, <2>3, <3>1, <3>2, <3>3, <3>4, <3>5, AddToParentDoes
    <3>7. x.pc = "nameGet"
      BY <1>1, <3>1, <3>2, <3>3 DEF AddToParent, Locals
    <3> QED
      BY <3>6, <3>7
  <2>6. CASE parent[c] # NoNode
    <3> PICK p : p = parent[c]
      OBVIOUS
    <3>1. x = [r EXCEPT !.pc = "eraseOld", !.prev = p, !.ok = TRUE]
      BY <2>1, <2>6 DEF LeaveParent
    <3>2. /\ x.pc = "eraseOld" /\ x.call = r.call /\ x.child = c /\ x.into = n
          /\ x.name = r.name /\ x.pending = {} /\ x.prev = p
      BY <1>1, <1>2, <3>1 DEF Locals
    <3> HIDE <3>1
    <3>3. Argued(x) /\ Arrived(x) /\ ~Attaches(x)
      BY <1>2, <3>2 DEF Argued, Arrived, Attaches, Removes
    <3>4. p \in Nodes /\ p # n /\ name[c] \in Names
      BY <1>1, <1>3, <2>1, <2>6 DEF NamedChild
    <3>5. \A m \in Nodes, j \in Names : entries[m][j] = c <=> p = m /\ name[c] = j
      BY <1>4 DEF Placed
    <3>6. k \in Names /\ entries[p][k] \in {NoEntry, Erased, c}
      <4>1. CASE n = NoNode
        <5>1. r.name = Keep
          BY <1>2, <4>1 DEF BeforeSection, Argued, Cautious
        <5>2. k = name[c]
          BY <5>1 DEF NewName
        <5> QED
          BY <3>4, <3>5, <5>2
      <4>2. CASE n # NoNode
        BY <1>3, <2>1, <2>4, <2>6, <4>2 DEF FreeToMove
      <4> QED
        BY <4>1, <4>2
    <3>7. AllPlacedBut({x.child} \cup Removed(x))' /\ x.child \notin Removed(x) /\ PendingOut(x)'
      BY <2>3, <3>2 DEF AllPlacedBut, Removed, PendingOut
    <3>8. x.into # NoNode => Room(x)'
      BY <2>1, <2>2, <2>4, <3>2 DEF Room
    <3>9. \A i, j \in Names : entries[p][j] = c /\ entries[p][i] = c => j = i
      BY <3>4, <3>5
    <3>10. \A m \in Nodes \ {p}, j \in Names : entries[m][j] # c
      BY <3>5
    <3>11. AtEraseOld(x)'
      <4>1. parent'[x.child] = x.into /\ x.prev # x.into /\ name'[x.child] \in Names
        BY <2>1, <2>2, <3>2, <3>4, <3>6
      <4>2. entries'[x.prev][name'[x.child]] \in {NoEntry, Erased, x.child}
        BY <2>1, <2>2, <3>2, <3>6
      <4>3. \A i, j \in Names : entries'[x.prev][i] = x.child /\ entries'[x.prev][j] = x.child => i = j
        BY <2>1, <2>2, <3>2, <3>9
      <4>4. \A m \in Nodes \ {x.prev}, j \in Names :
              entries'[m][j] = x.child <=> Attaches(x) /\ m = x.into /\ j = name'[x.child]
        BY <2>1, <2>2, <3>2, <3>3, <3>10
      <4> QED
        BY ONLY <3>7, <3>8, <4>1, <4>2, <4>3, <4>4 DEF AtEraseOld
    <3> QED
      BY <3>2, <3>3, <3>11 DEF Doing, Untouched
  <2> QED
    BY <2>5, <2>6
<1> QED
  BY <1>5, <1>6

(* ParentDetach: the child is in no container any more. *)
LEMMA DetachLinks ==
  ASSUME NamedInv, NEW t \in Threads, NEW r, r = run[t], r.pc = "detach",
         Doing(r), Good(r), Detach(t), NEW x, x = run'[t]
  PROVE  Doing(x)' /\ r.into = NoNode
<1>1. /\ r \in Locals /\ r.call \in Calls /\ run \in [Threads -> Locals]
      /\ parent \in [Nodes -> Nodes \cup {NoNode}] /\ name \in [Nodes -> Names \cup {NoName}]
      /\ NoNode \notin Nodes /\ r.pending \in SUBSET (Names \X Nodes)
  BY ValuesAssumption DEF Good, Typed, InCall, NamedInv, TypeOK, Locals
<1>2. Argued(r) /\ Removes(r) /\ AllPlacedBut(Removed(r)) /\ PendingOut(r) /\ r.into = NoNode
  BY DEF Doing, Argued, Arrived, AtDetach, Attaches, Removes
<1> PICK s : s = r.call.self
  OBVIOUS
<1>3. s \in Nodes
  BY <1>1, CallFields
<1>4. PICK p \in r.pending :
        PrivateParentSet(t, [r EXCEPT !.child = p[2], !.into = NoNode, !.name = Keep,
                                      !.pending = @ \ {p}])
  BY DEF Detach
<1> PICK c : c = p[2]
  OBVIOUS
<1> PICK q : q = [r EXCEPT !.child = c, !.into = NoNode, !.name = Keep, !.pending = @ \ {p}]
  OBVIOUS
<1>5. c \in Nodes /\ p[1] \in Names
  BY <1>1
<1>6. /\ q \in Locals /\ q.call = r.call /\ q.child = c /\ q.into = NoNode
      /\ q.name = Keep /\ q.pending = r.pending \ {p} /\ q.pc = "detach"
  BY <1>1, <1>5 DEF Locals
<1>7. /\ Nowhere(c) /\ parent[c] = s /\ name[c] = p[1]
      /\ entries[s][p[1]] \in {NoEntry, Erased}
  BY <1>2 DEF PendingOut
<1>8. MayLink(q) /\ NewName(q) = name[c]
  BY <1>1, <1>3, <1>6, <1>7 DEF MayLink, NewName
<1>9. /\ parent' = [parent EXCEPT ![c] = NoNode] /\ name' = name
      /\ entries' = entries /\ x = LeaveParent(q)
  <2>1. /\ parent' = [parent EXCEPT ![c] = NoNode] /\ name' = [name EXCEPT ![c] = name[c]]
        /\ entries' = entries /\ x = LeaveParent(q)
    BY <1>1, <1>4, <1>6, <1>8 DEF PrivateParentSet
  <2> QED
    BY <1>1, <2>1
<1>10. x = [q EXCEPT !.pc = "eraseOld", !.prev = s, !.ok = TRUE]
  BY <1>1, <1>3, <1>6, <1>7, <1>9, ZenonT(40) DEF LeaveParent
<1>11. /\ x.pc = "eraseOld" /\ x.call = r.call /\ x.child = c /\ x.into = NoNode
       /\ x.name = Keep /\ x.pending = r.pending \ {p} /\ x.prev = s
  BY <1>6, <1>10 DEF Locals
<1> HIDE <1>10
<1>12. Argued(x) /\ Arrived(x) /\ ~Attaches(x) /\ x.call.op # "ParentSet"
  BY <1>2, <1>11 DEF Argued, Arrived, Attaches, Removes
<1>13. \A o \in x.pending : o[2] # c
  <2> SUFFICES ASSUME NEW o \in r.pending, o # p, o[2] = c PROVE FALSE
    BY <1>11
  <2>1. name[c] = o[1]
    BY <1>2 DEF PendingOut
  <2>2. o = <<o[1], o[2]>> /\ p = <<p[1], p[2]>>
    BY <1>1
  <2> QED
    BY <1>7, <2>1, <2>2
<1>14. Removed(r) \subseteq {c} \cup Removed(x) /\ c \notin Removed(x)
  BY <1>11, <1>13 DEF Removed
<1>15. AllPlacedBut({c} \cup Removed(x))'
  <2>1. AllPlacedBut({c} \cup Removed(x))
    BY <1>2, <1>14 DEF AllPlacedBut
  <2> QED
    BY <1>1, <1>5, <1>9, <2>1, SameEntriesPlaced
<1>16. PendingOut(x)'
  <2> SUFFICES ASSUME NEW o \in x.pending
               PROVE  /\ Nowhere(o[2])' /\ parent'[o[2]] = x.call.self /\ name'[o[2]] = o[1]
                      /\ entries'[x.call.self][o[1]] \in {NoEntry, Erased}
    BY DEF PendingOut
  <2>1. o \in r.pending /\ o[2] # c /\ o[2] \in Nodes
    BY <1>1, <1>11, <1>13
  <2>2. /\ Nowhere(o[2]) /\ parent[o[2]] = s /\ name[o[2]] = o[1]
        /\ entries[s][o[1]] \in {NoEntry, Erased}
    BY <1>2, <2>1 DEF PendingOut
  <2> QED
    BY <1>1, <1>5, <1>9, <1>11, <2>1, <2>2 DEF Nowhere
<1>17. AtEraseOld(x)'
  <2>1. /\ parent'[c] = NoNode /\ name'[c] = p[1] /\ s # NoNode
        /\ entries'[s][p[1]] \in {NoEntry, Erased, c}
        /\ \A m \in Nodes, j \in Names : entries'[m][j] # c
    BY <1>1, <1>3, <1>5, <1>7, <1>9 DEF Nowhere
  <2> QED
    BY <1>3, <1>5, <1>11, <1>12, <1>14, <1>15, <1>16, <2>1 DEF AtEraseOld
<1> QED
  BY <1>2, <1>11, <1>12, <1>17 DEF Doing, Untouched

(* The entry that PrivateErase chooses is the child's. *)
LEMMA OldEntriesAreTheChilds ==
  ASSUME NamedInv, NEW r \in Locals, Good(r), r.pc = "eraseOld", AtEraseOld(r)
  PROVE  OldEntries(r) = {k \in Names : entries[r.prev][k] = r.child}
<1> PICK c : c = r.child
  OBVIOUS
<1> PICK k : k = name[c]
  OBVIOUS
<1>1. c \in Nodes /\ k \in Names /\ c \in Values
  BY DEF Good, Carries, Locals, AtEraseOld, Values
<1>2. CASE entries[r.prev][k] = c
  <2>1. HasValue(r.prev, k)
    BY <1>1, <1>2 DEF HasValue
  <2>2. {j \in Names : entries[r.prev][j] = c} = {k}
    BY <1>1, <1>2 DEF AtEraseOld
  <2>3. {k} \cap {j \in Names : HasValue(r.prev, j)} = {k}
    BY <1>1, <2>1
  <2> QED
    BY <2>2, <2>3 DEF OldEntries
<1>3. CASE entries[r.prev][k] # c
  <2>1. ~HasValue(r.prev, k)
    BY <1>3, ValuesAssumption DEF AtEraseOld, HasValue, Values
  <2>2. {k} \cap {j \in Names : HasValue(r.prev, j)} = {}
    BY <2>1
  <2> QED
    BY <2>2 DEF OldEntries
<1> QED
  BY <1>2, <1>3

(* So exactly the entries of the former parent that hold the child go. *)
LEMMA OnlyTheChildGoes ==
  ASSUME NamedInv, NEW t \in Threads, NEW r, r = run[t], Good(r), r.pc = "eraseOld",
         AtEraseOld(r), PrivateErase(t)
  PROVE  \A m \in Nodes, j \in Names :
           entries'[m][j] = IF m = r.prev /\ entries[m][j] = r.child THEN Erased
                            ELSE entries[m][j]
<1>1. /\ r \in Locals /\ r.prev \in Nodes
      /\ entries \in [Nodes -> [Names -> Values \cup {NoEntry, Erased}]]
  BY DEF Good, Typed, Carries, Locals, NamedInv, TypeOK
<1> PICK p : p = r.prev
  OBVIOUS
<1>2. OldEntries(r) = {k \in Names : entries[p][k] = r.child}
  BY <1>1, OldEntriesAreTheChilds
<1>3. CASE OldEntries(r) = {} /\ UNCHANGED entries
  BY <1>2, <1>3
<1>4. ASSUME NEW k \in OldEntries(r), entries' = [entries EXCEPT ![p][k] = Erased]
      PROVE  \A m \in Nodes, j \in Names :
               entries'[m][j] = IF m = p /\ entries[m][j] = r.child THEN Erased
                                ELSE entries[m][j]
  <2>1. k \in Names /\ entries[p][k] = r.child
    BY <1>2, <1>4
  <2>2. \A j \in Names : entries[p][j] = r.child => j = k
    BY <2>1 DEF AtEraseOld
  <2>3. \A m \in Nodes, j \in Names :
          entries'[m][j] = IF m = p /\ j = k THEN Erased ELSE entries[m][j]
    BY <1>1, <1>4, <2>1
  <2> QED
    BY <2>1, <2>2, <2>3
<1> QED
  BY <1>3, <1>4 DEF PrivateErase

LEMMA ErasesOld ==
  ASSUME NamedInv, NEW t \in Threads, NEW r, r = run[t], r.pc = "eraseOld",
         Doing(r), Good(r), PrivateErase(t), NEW x, x = run'[t]
  PROVE  /\ Doing(x)'
         /\ parent'[r.child] = r.into
         /\ x.pc = "idle" /\ r.into # NoNode => \E k \in Names : entries'[r.into][k] = r.child
<1> PICK c : c = r.child
  OBVIOUS
<1> PICK p : p = r.prev
  OBVIOUS
<1>1. /\ r \in Locals /\ r.call \in Calls /\ run \in [Threads -> Locals]
      /\ c \in Nodes /\ p \in Nodes /\ r.into \in Nodes \cup {NoNode}
      /\ NoNode \notin Nodes /\ Erased \notin Nodes
  BY ValuesAssumption DEF Good, Typed, InCall, Carries, NamedInv, TypeOK, Locals
<1>2. Argued(r) /\ Arrived(r) /\ AtEraseOld(r)
  BY DEF Doing
<1>3. \A m \in Nodes, j \in Names :
        entries'[m][j] = IF m = p /\ entries[m][j] = c THEN Erased ELSE entries[m][j]
  BY <1>2, OnlyTheChildGoes
<1>4. parent' = parent /\ name' = name /\ x = AddToParent(r)
  BY <1>1 DEF PrivateErase
<1>5. \A d \in Nodes : d # c =>
        \A m \in Nodes, j \in Names : entries'[m][j] = d <=> entries[m][j] = d
  BY <1>1, <1>3
<1>6. AllPlacedBut({c} \cup Removed(r))'
  BY <1>2, <1>4, <1>5 DEF AtEraseOld, AllPlacedBut, Placed
<1>7. \A m \in Nodes, j \in Names :
        entries'[m][j] = c <=> Attaches(r) /\ m = r.into /\ j = name[c]
  BY <1>1, <1>2, <1>3 DEF AtEraseOld
<1>8. parent[c] = r.into /\ name[c] \in Names
  BY <1>2 DEF AtEraseOld
<1>9. CASE r.call.op = "ParentSet" /\ r.into # NoNode
  <2>1. r.pending = {} /\ ~Attaches(r)
    BY <1>2, <1>9 DEF Argued, Attaches, Removes
  <2>2. AllPlacedBut({c})'
    BY <1>6, <2>1 DEF AllPlacedBut, Removed
  <2>3. Nowhere(c)'
    BY <1>7, <2>1 DEF Nowhere
  <2>4. Room(r)'
    <3>1. r.into \in Nodes /\ r.into # p /\ r.into \notin Watched
          /\ entries[r.into][name[c]] \notin Nodes
      BY <1>1, <1>2, <1>9 DEF AtEraseOld, Room
    <3>2. entries'[r.into][name[c]] = entries[r.into][name[c]]
      BY <1>3, <1>8, <3>1
    <3> QED
      BY <1>4, <3>1, <3>2 DEF Room
  <2>5. Doing(x)'
    BY <1>1, <1>2, <1>4, <1>8, <1>9, <2>2, <2>3, <2>4, AddToParentDoes
  <2>6. x.pc = "nameGet"
    BY <1>1, <1>4, <1>9 DEF AddToParent, Locals
  <2> QED
    BY <1>4, <1>8, <2>5, <2>6
<1>10. CASE ~(r.call.op = "ParentSet" /\ r.into # NoNode)
  <2>1. r.into # NoNode => Attaches(r)
    BY <1>2, <1>10 DEF Argued
  <2>2. Attaches(r) => r.into \in Nodes
    BY <1>1, <1>2, CallFields DEF Argued
  <2>3. Placed(c)'
    BY <1>1, <1>4, <1>7, <1>8, <2>1, <2>2 DEF Placed
  <2>4. AllPlacedBut(Removed(r))'
    BY <1>6, <2>3 DEF AllPlacedBut
  <2>5. PendingOut(r)'
    <3> SUFFICES ASSUME NEW o \in r.pending
                 PROVE  /\ Nowhere(o[2])' /\ parent'[o[2]] = r.call.self /\ name'[o[2]] = o[1]
                        /\ entries'[r.call.self][o[1]] \in {NoEntry, Erased}
      BY DEF PendingOut
    <3>1. /\ Nowhere(o[2]) /\ parent[o[2]] = r.call.self /\ name[o[2]] = o[1]
          /\ entries[r.call.self][o[1]] \in {NoEntry, Erased}
      BY <1>2 DEF AtEraseOld, PendingOut
    <3>2. o[2] \in Nodes /\ o[1] \in Names /\ r.call.self \in Nodes
      BY <1>1, CallFields DEF Locals
    <3>3. entries'[r.call.self][o[1]] \in {NoEntry, Erased}
      BY <1>3, <3>1, <3>2
    <3>4. Nowhere(o[2])'
      BY <1>1, <1>3, <3>1, <3>2 DEF Nowhere
    <3> QED
      BY <1>4, <3>1, <3>3, <3>4
  <2>6. Doing(x)'
    BY <1>1, <1>2, <1>4, <1>10, <2>4, <2>5, AddToParentDoes
  <2>7. r.into # NoNode => entries'[r.into][name[c]] = c
    BY <1>7, <1>8, <2>1, <2>2
  <2> QED
    BY <1>4, <1>8, <2>6, <2>7
<1> QED
  BY <1>9, <1>10

-----------------------------------------------------------------------------
(* The other steps between the container's section and the end of a call.  *)

(* A state of a climb that found nothing wrong.  After the container was   *)
(* written it always ends at the top: the child is not above its parent,   *)
(* and no node is above itself.                                            *)
LEMMA ClimbsDo ==
  ASSUME AcyclicInv, NEW t \in Threads, NEW r, r = run[t], Doing(r), Good(r),
         IsValidChild(t) \/ IsValidParent(t), NEW x, x = run'[t]
  PROVE  Doing(x)' /\ (x.pc = "idle" => ~x.ok)
<1>1. /\ r \in Locals /\ run \in [Threads -> Locals] /\ NoNode \notin Nodes
      /\ r.pc \in {"checkChild", "checkParent"} /\ Climbs(r) /\ NamedInv
  BY ValuesAssumption DEF Good, Typed, NamedInv, TypeOK, AcyclicInv, IsValidChild, IsValidParent
<1>2. r.at \in Nodes /\ r.child \in Nodes /\ r.into \in Nodes
  BY <1>1 DEF Good, Carries, Locals
<1>3. UNCHANGED <<entries, parent, name>>
  BY DEF IsValidChild, IsValidParent
<1>4. PICK onTop \in {"container", "link"} :
        /\ x = Climb(r, onTop)
        /\ onTop = IF r.pc = "checkChild" THEN "container" ELSE "link"
  BY <1>1 DEF IsValidChild, IsValidParent
<1>5. Argued(r) /\ Arrived(r)
  BY <1>1 DEF Doing
<1> PICK up : up = parent[r.at]
  OBVIOUS
<1>6. \/ (r.at = r.child \/ up = r.into) /\ x = Returned(r.ok)
      \/ up = NoNode /\ x = [r EXCEPT !.pc = onTop, !.at = NoNode]
      \/ r.at # r.child /\ up # NoNode /\ x = [r EXCEPT !.at = up]
  BY <1>4 DEF Climb
<1>7. ASSUME r.pc = "checkParent", Attaches(r)
      PROVE  r.at # r.child /\ up # r.into /\ (up # NoNode => Away(r.child, up))
  <2>1. AtLink(r)
    BY <1>7 DEF Doing
  <2>2. PICK U \in SUBSET Nodes :
          r.at \in U /\ r.child \notin U /\ \A y \in U : parent[y] \in U \cup {NoNode}
    BY <1>7, <2>1 DEF AtLink, Away
  <2>3. up # r.into
    <3> SUFFICES ASSUME up = r.into PROVE FALSE
      OBVIOUS
    <3>1. PICK V \in SUBSET Nodes :
            /\ r.into \in V \cup {r.at}
            /\ \A y \in V : parent[y] \in V \cup {r.at}
      BY <1>1 DEF Climbs, Climbing
    <3> DEFINE loop == V \cup {r.at}
    <3>2. loop \in SUBSET Nodes /\ loop # {} /\ \A y \in loop : parent[y] \in loop
      BY <1>2, <3>1
    <3> QED
      BY <3>2 DEF AcyclicInv, Acyclic
  <2>4. r.at # r.child
    BY <2>2
  <2>5. up # NoNode => up \in U
    BY <2>2
  <2> QED
    BY <2>2, <2>3, <2>4, <2>5 DEF Away
<1>8. CASE Untouched(r)
  <2>1. BeforeSection(r) /\ r.ok = FALSE
    BY <1>1, <1>8 DEF Doing, BeforeSection, Locals
  <2>2. AllPlacedBut({})' /\ Cautious(r.call)'
    BY <1>3, <2>1, CautiousStays, SameEntriesPlaced DEF BeforeSection
  <2>3. CASE x = Returned(r.ok)
    BY <2>1, <2>2, <2>3, DoesReturn DEF Returned, Idle
  <2>4. CASE x = [r EXCEPT !.pc = onTop, !.at = NoNode]
    <3>1. /\ x.pc = onTop /\ x.call = r.call /\ x.child = r.child /\ x.into = r.into
          /\ x.name = r.name /\ x.pending = r.pending /\ x.ok = r.ok
      BY <1>1, <2>4 DEF Locals
    <3>2. Argued(x) /\ Arrived(x)
      BY <1>4, <1>5, <1>1, <3>1 DEF Argued, Arrived, Attaches, Removes
    <3>3. x.pc = "container" => Away(x.child, x.into)'
      <4>1. Away(x.child, x.into)
        BY <1>1, <1>3, <1>4, <3>1, ClimbGoesOn DEF Climbs
      <4> QED
        BY <1>3, <4>1 DEF Away
    <3>4. BeforeSection(x)'
      BY <2>1, <2>2, <3>1, <3>3 DEF BeforeSection
    <3>5. x.pc = "container" \/ (x.pc = "link" /\ ~Attaches(x))
      BY <1>1, <1>4, <1>8, <3>1 DEF Untouched, Attaches
    <3> QED
      BY <3>2, <3>4, <3>5 DEF Doing
  <2>5. CASE x = [r EXCEPT !.at = up]
    <3>1. /\ x.pc = r.pc /\ x.call = r.call /\ x.child = r.child /\ x.into = r.into
          /\ x.name = r.name /\ x.pending = r.pending /\ x.ok = r.ok
      BY <1>1, <2>5 DEF Locals
    <3>2. Argued(x) /\ Arrived(x)
      BY <1>5, <3>1 DEF Argued, Arrived, Attaches, Removes
    <3>3. BeforeSection(x)'
      BY <1>1, <2>1, <2>2, <3>1 DEF BeforeSection
    <3>4. x.pc = "checkChild" \/ (x.pc = "checkParent" /\ ~Attaches(x))
      BY <1>1, <1>8, <3>1 DEF Untouched, Attaches
    <3> QED
      BY <3>2, <3>3, <3>4 DEF Doing
  <2> QED
    BY <1>1, <1>6, <2>3, <2>4, <2>5
<1>9. CASE ~Untouched(r)
  <2>1. r.pc = "checkParent" /\ Attaches(r) /\ AtLink(r)
    BY <1>1, <1>5, <1>9 DEF Untouched, Arrived, Doing
  <2>2. AllPlacedBut({r.child})' /\ Entered(r.child, r.into, r.name)'
    BY <1>3, <2>1 DEF AtLink, AllPlacedBut, Placed, Entered, FreeToMove
  <2>3. CASE up = NoNode /\ x = [r EXCEPT !.pc = onTop, !.at = NoNode]
    <3>1. /\ x.pc = "link" /\ x.call = r.call /\ x.child = r.child /\ x.into = r.into
          /\ x.name = r.name /\ x.pending = r.pending
      BY <1>1, <1>4, <2>1, <2>3 DEF Locals
    <3>2. Argued(x) /\ Arrived(x) /\ Attaches(x)
      BY <1>5, <2>1, <3>1 DEF Argued, Arrived, Attaches, Removes
    <3>3. AtLink(x)'
      BY <2>2, <3>1 DEF AtLink, AllPlacedBut, Entered, FreeToMove
    <3>4. ~Untouched(x)
      BY <3>1, <3>2 DEF Untouched, Attaches
    <3> QED
      BY <3>1, <3>2, <3>3, <3>4 DEF Doing
  <2>4. CASE up # NoNode /\ x = [r EXCEPT !.at = up]
    <3>1. /\ x.pc = "checkParent" /\ x.call = r.call /\ x.child = r.child /\ x.into = r.into
          /\ x.name = r.name /\ x.pending = r.pending /\ x.at = up
      BY <1>1, <2>1, <2>4 DEF Locals
    <3>2. Argued(x) /\ Arrived(x) /\ Attaches(x)
      BY <1>5, <2>1, <3>1 DEF Argued, Arrived, Attaches, Removes
    <3>3. Away(r.child, up)'
      BY <1>3, <1>7, <2>1, <2>4 DEF Away
    <3>4. AtLink(x)'
      <4>1. Away(x.child, x.at)'
        BY <3>1, <3>3 DEF Away
      <4> QED
        BY <2>2, <3>1, <4>1 DEF AtLink, AllPlacedBut, Entered, FreeToMove
    <3>5. ~Untouched(x)
      BY <3>1, <3>2 DEF Untouched, Attaches
    <3> QED
      BY <3>1, <3>2, <3>4, <3>5 DEF Doing
  <2> QED
    BY <1>6, <1>7, <2>1, <2>3, <2>4
<1> QED
  BY <1>8, <1>9

LEMMA OrphanDoes ==
  ASSUME NamedInv, NEW t \in Threads, NEW r, r = run[t], Doing(r), Good(r), Orphan(t),
         NEW x, x = run'[t]
  PROVE  Doing(x)' /\ (x.pc = "idle" => r.child = NoNode)
<1>1. /\ r \in Locals /\ run \in [Threads -> Locals] /\ NoNode \notin Nodes /\ r.pc = "orphan"
      /\ parent \in [Nodes -> Nodes \cup {NoNode}] /\ r.prev \in Nodes
      /\ r.child \in Nodes \cup {NoNode}
  BY ValuesAssumption DEF Good, Typed, Carries, NamedInv, TypeOK, Orphan, Locals
<1>2. Argued(r) /\ AtOrphan(r) /\ Attaches(r) /\ r.pending = {}
  BY <1>1 DEF Doing, Argued, Arrived, Attaches, Removes
<1> PICK old : old = r.prev
  OBVIOUS
<1>3. entries' = entries /\ name' = name /\ parent' = [parent EXCEPT ![old] = NoNode]
  BY DEF Orphan
<1> PICK q : q = [r EXCEPT !.prev = NoNode]
  OBVIOUS
<1>4. x = SetAsChild(q)
  BY <1>1 DEF Orphan
<1>5. /\ q \in Locals /\ q.call = r.call /\ q.child = r.child /\ q.into = r.into
      /\ q.name = r.name /\ q.pending = r.pending
  BY <1>1 DEF Locals
<1>6. Argued(q) /\ Attaches(q)
  BY <1>2, <1>5 DEF Argued, Attaches, Removes
<1>7. AllPlacedBut({r.child})'
  <2>1. AllPlacedBut({old, r.child})'
    BY <1>1, <1>2, <1>3, SameEntriesPlaced DEF AtOrphan
  <2>2. Placed(old)'
    BY <1>1, <1>2, <1>3 DEF AtOrphan, Nowhere, Placed
  <2> QED
    BY <2>1, <2>2 DEF AllPlacedBut
<1>8. r.child = NoNode => AllPlacedBut({})'
  BY <1>1, <1>7 DEF AllPlacedBut
<1>9. r.child # NoNode => Entered(r.child, r.into, r.name)' /\ Away(r.child, r.into)'
  <2> SUFFICES ASSUME r.child # NoNode
               PROVE  Entered(r.child, r.into, r.name)' /\ Away(r.child, r.into)'
    OBVIOUS
  <2>1. /\ Entered(r.child, r.into, r.name) /\ Away(r.child, r.into) /\ old # r.child
    BY <1>2 DEF AtOrphan
  <2>2. parent'[r.child] = parent[r.child]
    BY <1>1, <1>3, <2>1
  <2>3. Entered(r.child, r.into, r.name)'
    BY <1>3, <2>1, <2>2 DEF Entered, FreeToMove
  <2>4. Away(r.child, r.into)'
    <3>1. \A y \in Nodes : parent'[y] \in {parent[y], NoNode}
      BY <1>1, <1>3
    <3> QED
      BY <2>1, <3>1 DEF Away
  <2> QED
    BY <2>3, <2>4
<1>10. Doing(x)'
  <2>1. r.child # NoNode => AllPlacedBut({q.child})' /\ Entered(q.child, q.into, q.name)'
                            /\ Away(q.child, q.into)'
    BY <1>5, <1>7, <1>9 DEF AllPlacedBut, Entered, FreeToMove, Away
  <2> QED
    BY <1>4, <1>5, <1>6, <1>8, <2>1, SetAsChildDoes
<1>11. r.child # NoNode => x.pc = "checkParent"
  BY <1>4, <1>5 DEF SetAsChild, Locals
<1> QED
  BY <1>10, <1>11

LEMMA NameGetDoes ==
  ASSUME NamedInv, NEW t \in Threads, NEW r, r = run[t], Doing(r), Good(r), NameGet(t),
         NEW x, x = run'[t]
  PROVE  Doing(x)' /\ x.pc # "idle"
<1>1. r \in Locals /\ run \in [Threads -> Locals] /\ r.pc = "nameGet"
  BY DEF Good, Typed, NamedInv, TypeOK, NameGet
<1>2. Argued(r) /\ AtPlace(r) /\ r.call.op = "ParentSet"
  BY <1>1 DEF Doing, Arrived
<1> PICK k : k = name[r.child]
  OBVIOUS
<1>3. UNCHANGED <<entries, parent, name>> /\ x = [r EXCEPT !.name = k, !.pc = "place"]
  BY <1>1 DEF NameGet
<1>4. /\ x.pc = "place" /\ x.call = r.call /\ x.child = r.child /\ x.into = r.into
      /\ x.name = k /\ x.pending = r.pending
  BY <1>1, <1>3 DEF Locals
<1>5. Argued(x) /\ Arrived(x)
  BY <1>2, <1>4 DEF Argued, Arrived, Attaches, Removes
<1>6. AtPlace(x)'
  BY <1>2, <1>3, <1>4 DEF AtPlace, AllPlacedBut, Placed, Nowhere, Room
<1> QED
  BY <1>4, <1>5, <1>6 DEF Doing, Untouched

LEMMA PrivateSetDoes ==
  ASSUME NamedInv, NEW t \in Threads, NEW r, r = run[t], Doing(r), Good(r), PrivateSet(t),
         NEW x, x = run'[t]
  PROVE  Doing(x)' /\ parent'[r.child] = r.into /\ \E k \in Names : entries'[r.into][k] = r.child
<1>1. /\ r \in Locals /\ run \in [Threads -> Locals] /\ r.pc = "place" /\ r.child \in Nodes
      /\ entries \in [Nodes -> [Names -> Values \cup {NoEntry, Erased}]]
      /\ r.into \in Nodes
  BY DEF Good, Typed, Carries, NamedInv, TypeOK, PrivateSet, Locals
<1>2. Argued(r) /\ AtPlace(r) /\ r.call.op = "ParentSet"
  BY <1>1 DEF Doing, Arrived
<1> PICK c : c = r.child
  OBVIOUS
<1> PICK n : n = r.into
  OBVIOUS
<1> PICK k : k = r.name
  OBVIOUS
<1>3. /\ k \in Names /\ k = name[c] /\ parent[c] = n /\ n \notin Watched
      /\ entries[n][k] \notin Nodes
      /\ Nowhere(c) /\ AllPlacedBut({c})
  BY <1>1, <1>2 DEF AtPlace, Room
<1>4. FALSE \notin Answers(n) /\ k # NoName
  BY <1>3, ValuesAssumption DEF Answers
<1>5. /\ entries' = [entries EXCEPT ![n][k] = c] /\ parent' = parent /\ name' = name
      /\ x = Returned(TRUE)
  BY <1>1, <1>4 DEF PrivateSet
<1>6. \A m \in Nodes, j \in Names :
        entries'[m][j] = IF m = n /\ j = k THEN c ELSE entries[m][j]
  BY <1>1, <1>3, <1>5
<1>7. Placed(c)'
  BY <1>3, <1>5, <1>6 DEF Placed, Nowhere
<1>8. AllPlacedBut({c})'
  <2> SUFFICES ASSUME NEW d \in Nodes, d # c PROVE Placed(d)'
    BY DEF AllPlacedBut
  <2>1. Placed(d)
    BY <1>3 DEF AllPlacedBut
  <2>2. \A m \in Nodes, j \in Names : entries'[m][j] = d <=> entries[m][j] = d
    BY <1>1, <1>3, <1>6
  <2> QED
    BY <1>5, <2>1, <2>2 DEF Placed
<1>9. AllPlacedBut({})'
  BY <1>7, <1>8 DEF AllPlacedBut
<1>10. entries'[n][k] = c
  BY <1>1, <1>3, <1>6
<1> QED
  BY <1>3, <1>5, <1>9, <1>10, DoesReturn

LEMMA RenameDoes ==
  ASSUME NamedInv, NEW t \in Threads, NEW r, r = run[t], Doing(r), Good(r), PrivateNameSet(t),
         NEW x, x = run'[t]
  PROVE  Doing(x)' /\ r.into = NoNode
<1>1. /\ r \in Locals /\ run \in [Threads -> Locals] /\ r.pc = "rename" /\ r.child \in Nodes
      /\ name \in [Nodes -> Names \cup {NoName}]
  BY DEF Good, Typed, Carries, NamedInv, TypeOK, PrivateNameSet, Locals
<1>2. Argued(r) /\ AtRename(r) /\ r.into = NoNode
  BY <1>1 DEF Doing, Arrived, Argued, Attaches
<1>3. /\ entries' = entries /\ parent' = parent /\ name' = [name EXCEPT ![r.child] = r.name]
      /\ x = Returned(TRUE)
  BY <1>1 DEF PrivateNameSet
<1>4. AllPlacedBut({r.child})'
  BY <1>1, <1>2, <1>3, SameEntriesPlaced DEF AtRename
<1>5. Placed(r.child)'
  BY <1>1, <1>2, <1>3 DEF AtRename, Placed
<1>6. AllPlacedBut({})'
  BY <1>4, <1>5 DEF AllPlacedBut
<1> QED
  BY <1>2, <1>3, <1>6, DoesReturn

-----------------------------------------------------------------------------
(* The sections under the lock of a container.  Before each of them every  *)
(* node is in its place.                                                   *)

LEMMA GiveUpDoes ==
  ASSUME NamedInv, AllPlacedBut({}), NEW t \in Threads, GiveUp(t), NEW x, x = run'[t]
  PROVE  Doing(x)' /\ ~x.ok
<1>1. x = Returned(FALSE)
  BY DEF GiveUp, NamedInv, TypeOK
<1>2. AllPlacedBut({})'
  BY SameEntriesPlaced DEF GiveUp
<1>3. ~x.ok
  BY <1>1 DEF Returned, Idle
<1> QED
  BY <1>1, <1>2, <1>3, DoesReturn

(* A value is written over another one. *)
LEMMA Written ==
  ASSUME NamedInv, AllPlacedBut({}), NEW n \in Nodes, NEW k \in Names, NEW v \in Values,
         entries' = [entries EXCEPT ![n][k] = v], UNCHANGED <<parent, name>>,
         NEW old, old = entries[n][k]
  PROVE  /\ AllPlacedBut({v, old})'
         /\ old \in Nodes /\ old # v => Nowhere(old)'
         /\ v \in Nodes /\ FreeToMove(v, n, k) => Entered(v, n, k)'
<1>1. /\ entries \in [Nodes -> [Names -> Values \cup {NoEntry, Erased}]]
      /\ parent \in [Nodes -> Nodes \cup {NoNode}]
  BY DEF NamedInv, TypeOK
<1>2. \A m \in Nodes, j \in Names :
        entries'[m][j] = IF m = n /\ j = k THEN v ELSE entries[m][j]
  BY <1>1
<1>3. AllPlacedBut({v, old})'
  <2> SUFFICES ASSUME NEW d \in Nodes, d # v, d # old PROVE Placed(d)'
    BY DEF AllPlacedBut
  <2>1. Placed(d)
    BY DEF AllPlacedBut
  <2>2. \A m \in Nodes, j \in Names : entries'[m][j] = d <=> entries[m][j] = d
    BY <1>2
  <2> QED
    BY <2>1, <2>2 DEF Placed
<1>4. ASSUME old \in Nodes, old # v
      PROVE  Nowhere(old)'
  <2>1. Placed(old)
    BY <1>4 DEF AllPlacedBut
  <2>2. \A m \in Nodes, j \in Names : entries[m][j] = old => m = n /\ j = k
    BY <2>1 DEF Placed
  <2> QED
    BY <1>2, <1>4, <2>2 DEF Nowhere
<1>5. ASSUME v \in Nodes, FreeToMove(v, n, k)
      PROVE  Entered(v, n, k)'
  <2>1. Placed(v)
    BY <1>5 DEF AllPlacedBut
  <2>2. \A m \in Nodes, j \in Names :
          entries'[m][j] = v <=> (m = n /\ j = k) \/ (parent[v] = m /\ name[v] = j)
    BY <1>2, <2>1 DEF Placed
  <2>3. parent[v] # NoNode => parent[v] \in Nodes /\ parent[v] # n
                              /\ entries'[parent[v]][k] = entries[parent[v]][k]
    BY <1>1, <1>2, <1>5 DEF FreeToMove
  <2>4. FreeToMove(v, n, k)'
    BY <1>5, <2>3 DEF FreeToMove
  <2> QED
    BY <2>2, <2>4 DEF Entered
<1> QED
  BY <1>3, <1>4, <1>5

(* What a thread knows in the container section of an attaching call. *)
LEMMA BeforeAttaching ==
  ASSUME NamedInv, NEW t \in Threads, NEW r, r = run[t], Doing(r), Good(r),
         r.pc = "container", Attaches(r)
  PROVE  /\ r \in Locals /\ run \in [Threads -> Locals] /\ r.call \in Calls
         /\ r.call.self \in Nodes /\ r.call.key \in Names /\ r.call.val \in Values
         /\ Argued(r) /\ BeforeSection(r) /\ AllPlacedBut({}) /\ r.pending = {}
         /\ r.into = r.call.self /\ r.name = r.call.key /\ r.child = NodeOf(r.call.val)
<1>1. r \in Locals /\ run \in [Threads -> Locals] /\ r.call \in Calls
  BY DEF Good, Typed, InCall, NamedInv, TypeOK
<1>2. Argued(r) /\ BeforeSection(r) /\ r.pending = {}
  BY DEF Doing, Untouched, Argued, Attaches, Removes
<1>3. r.into = r.call.self /\ r.name = r.call.key /\ r.child = NodeOf(r.call.val)
  BY <1>2 DEF Argued
<1> QED
  BY <1>1, <1>2, <1>3, CallFields DEF Attaches, BeforeSection

(* The value is entered, in the place of none or of a plain value. *)
LEMMA EntersDoes ==
  ASSUME NamedInv, NEW t \in Threads, NEW r, r = run[t], Doing(r), Good(r),
         r.pc = "container", Attaches(r), UNCHANGED <<parent, name>>,
         NEW x, x = run'[t], x = SetAsChild([r EXCEPT !.ok = TRUE]),
         \/ UNCHANGED entries /\ r.call.val \notin Nodes
         \/ /\ entries' = [entries EXCEPT ![r.call.self][r.call.key] = r.call.val]
            /\ entries[r.call.self][r.call.key] \notin Nodes
            /\ r.call.val \in Nodes => /\ FreeToMove(r.call.val, r.call.self, r.call.key)
                                       /\ Away(r.call.val, r.call.self)
  PROVE  Doing(x)' /\ (x.pc = "idle" => r.child = NoNode)
<1> PICK v : v = r.call.val
  OBVIOUS
<1> PICK n : n = r.call.self
  OBVIOUS
<1> PICK k : k = r.call.key
  OBVIOUS
<1>1. /\ r \in Locals /\ n \in Nodes /\ k \in Names /\ v \in Values
      /\ Argued(r) /\ AllPlacedBut({}) /\ r.pending = {}
      /\ r.into = n /\ r.name = k /\ r.child = NodeOf(v)
  BY BeforeAttaching
<1> PICK q : q = [r EXCEPT !.ok = TRUE]
  OBVIOUS
<1>2. /\ q \in Locals /\ q.call = r.call /\ q.child = NodeOf(v) /\ q.into = n
      /\ q.name = k /\ q.pending = {}
  BY <1>1 DEF Locals
<1>3. Argued(q) /\ Attaches(q)
  BY <1>1, <1>2 DEF Argued, Attaches, Removes
<1>4. CASE v \notin Nodes
  <2>1. q.child = NoNode
    BY <1>2, <1>4 DEF NodeOf
  <2>2. AllPlacedBut({})'
    <3>1. CASE UNCHANGED entries
      BY <1>1, <3>1, SameEntriesPlaced
    <3>2. CASE ~UNCHANGED entries
      <4>1. /\ entries' = [entries EXCEPT ![n][k] = v]
            /\ entries[n][k] \notin Nodes
        BY <3>2
      <4> PICK old : old = entries[n][k]
        OBVIOUS
      <4>2. AllPlacedBut({v, old})'
        BY <1>1, <4>1, Written
      <4> QED
        BY <1>4, <4>1, <4>2 DEF AllPlacedBut
    <3> QED
      BY <3>1, <3>2
  <2>3. r.child = NoNode
    BY <1>1, <1>4 DEF NodeOf
  <2> QED
    BY <1>2, <1>3, <2>1, <2>2, <2>3, SetAsChildDoes
<1>5. CASE v \in Nodes
  <2> PICK old : old = entries[n][k]
    OBVIOUS
  <2>1. /\ entries' = [entries EXCEPT ![n][k] = v] /\ old \notin Nodes
        /\ FreeToMove(v, n, k) /\ Away(v, n)
    BY <1>5
  <2>2. AllPlacedBut({v, old})' /\ Entered(v, n, k)'
    BY <1>1, <1>5, <2>1, Written
  <2>3. AllPlacedBut({v})'
    BY <2>1, <2>2 DEF AllPlacedBut
  <2>4. Away(v, n)'
    BY <2>1 DEF Away
  <2>5. q.child = v /\ v # NoNode
    BY <1>2, <1>5, ValuesAssumption DEF NodeOf
  <2>6. AllPlacedBut({q.child})' /\ Entered(q.child, q.into, q.name)' /\ Away(q.child, q.into)'
    <3>1. q.child = v /\ q.into = n /\ q.name = k
      BY <1>2, <2>5
    <3>2. AllPlacedBut({q.child})'
      BY <2>3, <3>1 DEF AllPlacedBut
    <3>3. Entered(q.child, q.into, q.name)'
      BY ONLY <2>2, <3>1
    <3>4. Away(q.child, q.into)'
      BY ONLY <2>4, <3>1 DEF Away
    <3> QED
      BY <3>2, <3>3, <3>4
  <2>7. Doing(x)'
    BY <1>2, <1>3, <2>5, <2>6, SetAsChildDoes
  <2>8. x.pc = "checkParent"
    <3>1. x = SetAsChild(q)
      OBVIOUS
    <3>2. x = [q EXCEPT !.pc = "checkParent", !.at = q.into]
      BY <2>5, <3>1 DEF SetAsChild
    <3> QED
      BY <1>2, <3>2, ZenonT(40) DEF Locals
  <2> QED
    BY <2>7, <2>8
<1> QED
  BY <1>4, <1>5

LEMMA SetDoes ==
  ASSUME NamedInv, NEW t \in Threads, NEW r, r = run[t], Doing(r), Good(r), Set(t),
         NEW x, x = run'[t]
  PROVE  Doing(x)' /\ (x.pc = "idle" /\ x.ok => r.child = NoNode)
<1> PICK v : v = r.call.val
  OBVIOUS
<1> PICK n : n = r.call.self
  OBVIOUS
<1> PICK k : k = r.call.key
  OBVIOUS
<1> PICK old : old = entries[n][k]
  OBVIOUS
<1>1. r.pc = "container" /\ r.call.op = "Set" /\ Attaches(r)
  BY DEF Set, InContainer, Attaches
<1>2. /\ r \in Locals /\ run \in [Threads -> Locals] /\ n \in Nodes /\ k \in Names /\ v \in Values
      /\ Argued(r) /\ BeforeSection(r) /\ AllPlacedBut({}) /\ r.pending = {}
      /\ r.into = n /\ r.name = k /\ r.child = NodeOf(v)
  BY <1>1, BeforeAttaching
<1>3. CASE GiveUp(t)
  BY <1>2, <1>3, GiveUpDoes
<1>4. CASE ~GiveUp(t)
  <2>1. /\ old # v /\ entries' = [entries EXCEPT ![n][k] = v]
        /\ x = Replaced(r, old) /\ UNCHANGED <<parent, name>>
    BY <1>2, <1>4 DEF Set
  <2>2. v \in Nodes => FreeToMove(v, n, k) /\ Away(v, n) /\ r.child = v /\ v # NoNode
    <3> SUFFICES ASSUME v \in Nodes
                 PROVE  FreeToMove(v, n, k) /\ Away(v, n) /\ r.child = v /\ v # NoNode
      OBVIOUS
    <3>1. r.child = v /\ v # NoNode
      BY <1>2, ValuesAssumption DEF NodeOf
    <3>2. FreeToMove(v, n, k)
      BY <1>1, <1>2, <2>1 DEF BeforeSection, Cautious
    <3>3. Away(v, n)
      BY <1>1, <1>2, <3>1 DEF BeforeSection
    <3> QED
      BY <3>1, <3>2, <3>3
  <2>3. CASE old \notin Nodes
    <3>1. x = SetAsChild([r EXCEPT !.ok = TRUE])
      BY <2>1, <2>3 DEF Replaced
    <3> QED
      BY <1>1, <2>1, <2>2, <2>3, <3>1, EntersDoes
  <2>4. CASE old \in Nodes
    <3>1. x = [r EXCEPT !.pc = "orphan", !.prev = old, !.ok = TRUE]
      BY <2>1, <2>4 DEF Replaced
    <3>2. /\ x.pc = "orphan" /\ x.call = r.call /\ x.child = r.child /\ x.into = n
          /\ x.name = k /\ x.pending = {} /\ x.prev = old
      BY <1>2, <3>1 DEF Locals
    <3> HIDE <3>1
    <3>3. Argued(x) /\ Arrived(x)
      BY <1>1, <1>2, <3>2 DEF Argued, Arrived, Attaches, Removes
    <3>4. AllPlacedBut({v, old})' /\ Nowhere(old)' /\ (v \in Nodes => Entered(v, n, k)')
      BY <1>2, <2>1, <2>2, <2>4, Written
    <3>5. old # r.child
      BY <1>2, <2>1, <2>4, ValuesAssumption DEF NodeOf
    <3>6. AllPlacedBut({x.prev, x.child})'
      <4>1. v \in Nodes => r.child = v
        BY <2>2
      <4> QED
        BY <3>2, <3>4, <4>1 DEF AllPlacedBut
    <3>7. Nowhere(x.prev)'
      BY <3>2, <3>4 DEF Nowhere
    <3>8. x.child # NoNode => Entered(x.child, x.into, x.name)' /\ Away(x.child, x.into)'
      <4> SUFFICES ASSUME x.child # NoNode
                   PROVE  Entered(x.child, x.into, x.name)' /\ Away(x.child, x.into)'
        OBVIOUS
      <4>1. v \in Nodes /\ x.child = v
        BY <1>2, <3>2 DEF NodeOf
      <4>2. Entered(x.child, x.into, x.name)'
        <5>1. x.child = v /\ x.into = n /\ x.name = k
          BY <3>2, <4>1
        <5>2. Entered(v, n, k)'
          BY <3>4, <4>1
        <5> QED
          BY ONLY <5>1, <5>2, Zenon DEF Entered, FreeToMove
      <4>3. Away(x.child, x.into)'
        BY <2>1, <2>2, <3>2, <4>1 DEF Away
      <4> QED
        BY <4>2, <4>3
    <3>9. AtOrphan(x)'
      BY <3>2, <3>5, <3>6, <3>7, <3>8 DEF AtOrphan
    <3> QED
      BY <3>2, <3>3, <3>9 DEF Doing, Untouched
  <2> QED
    BY <2>3, <2>4
<1> QED
  BY <1>3, <1>4

LEMMA InsertDoes ==
  ASSUME NamedInv, NEW t \in Threads, NEW r, r = run[t], Doing(r), Good(r), Insert(t),
         NEW x, x = run'[t]
  PROVE  Doing(x)' /\ (x.pc = "idle" /\ x.ok => r.child = NoNode)
<1> PICK v : v = r.call.val
  OBVIOUS
<1> PICK n : n = r.call.self
  OBVIOUS
<1> PICK k : k = r.call.key
  OBVIOUS
<1>1. r.pc = "container" /\ r.call.op = "Insert" /\ Attaches(r)
  BY DEF Insert, InContainer, Attaches
<1>2. /\ r \in Locals /\ run \in [Threads -> Locals] /\ v \in Values
      /\ BeforeSection(r) /\ AllPlacedBut({}) /\ r.into = n /\ r.child = NodeOf(v)
  BY <1>1, BeforeAttaching
<1>3. CASE GiveUp(t)
  BY <1>2, <1>3, GiveUpDoes
<1>4. CASE ~GiveUp(t)
  <2>1. /\ entries[n][k] = NoEntry /\ entries' = [entries EXCEPT ![n][k] = v]
        /\ x = SetAsChild([r EXCEPT !.ok = TRUE]) /\ UNCHANGED <<parent, name>>
    BY <1>2, <1>4 DEF Insert
  <2>2. NoEntry \notin Nodes /\ v # NoEntry
    BY <1>2, ValuesAssumption DEF Values
  <2>3. v \in Nodes => FreeToMove(v, n, k) /\ Away(v, n)
    <3> SUFFICES ASSUME v \in Nodes PROVE FreeToMove(v, n, k) /\ Away(v, n)
      OBVIOUS
    <3>1. FreeToMove(v, n, k)
      BY <1>1, <1>2, <2>1, <2>2 DEF BeforeSection, Cautious
    <3>2. r.child = v /\ v # NoNode
      BY <1>2, ValuesAssumption DEF NodeOf
    <3>3. Away(v, n)
      BY <1>1, <1>2, <3>2 DEF BeforeSection
    <3> QED
      BY <3>1, <3>3
  <2> QED
    BY <1>1, <2>1, <2>2, <2>3, EntersDoes
<1> QED
  BY <1>3, <1>4

LEMMA CompareExchangeDoes ==
  ASSUME NamedInv, NEW t \in Threads, NEW r, r = run[t], Doing(r), Good(r), CompareExchange(t),
         NEW x, x = run'[t]
  PROVE  Doing(x)' /\ (x.pc = "idle" /\ x.ok => r.child = NoNode)
<1> PICK v : v = r.call.val
  OBVIOUS
<1> PICK n : n = r.call.self
  OBVIOUS
<1> PICK k : k = r.call.key
  OBVIOUS
<1>1. r.pc = "container" /\ r.call.op = "CompareExchange" /\ Attaches(r)
  BY DEF CompareExchange, InContainer, Attaches
<1>2. /\ r \in Locals /\ run \in [Threads -> Locals] /\ n \in Nodes /\ v \in Values
      /\ BeforeSection(r) /\ AllPlacedBut({})
  BY <1>1, BeforeAttaching
<1>3. /\ entries[n][k] \notin Nodes
      /\ v \in Nodes => /\ v # n /\ parent[v] = NoNode
                        /\ \A j \in Names : ~HasValue(v, j)
                        /\ n \notin Watched
  BY <1>1, <1>2 DEF BeforeSection, Cautious
<1>4. CASE GiveUp(t)
  BY <1>2, <1>4, GiveUpDoes
<1>5. CASE ~GiveUp(t)
  <2>1. /\ x = SetAsChild([r EXCEPT !.ok = TRUE]) /\ UNCHANGED <<parent, name>>
        /\ \/ entries' = [entries EXCEPT ![n][k] = v]
           \/ UNCHANGED entries /\ FALSE \in Answers(n)
    <3> PICK y : y = SetAsChild([r EXCEPT !.ok = TRUE])
      OBVIOUS
    <3>1. Answers(n) \subseteq BOOLEAN
      BY DEF Answers
    <3>2. run' = [run EXCEPT ![t] = y] /\ UNCHANGED <<parent, name>>
      BY <1>5 DEF CompareExchange
    <3>3. \/ entries' = [entries EXCEPT ![n][k] = v]
          \/ \E allowed \in Answers(n) : ~allowed /\ UNCHANGED entries
      BY <1>5 DEF CompareExchange
    <3> QED
      BY <1>2, <3>1, <3>2, <3>3
  <2>2. v \in Nodes => FALSE \notin Answers(n) /\ FreeToMove(v, n, k) /\ Away(v, n)
    <3> SUFFICES ASSUME v \in Nodes
                 PROVE  FALSE \notin Answers(n) /\ FreeToMove(v, n, k) /\ Away(v, n)
      OBVIOUS
    <3>1. FALSE \notin Answers(n) /\ FreeToMove(v, n, k)
      BY <1>3 DEF Answers, FreeToMove
    <3>2. \A y \in Nodes : parent[y] # v
      <4> SUFFICES ASSUME NEW y \in Nodes, parent[y] = v PROVE FALSE
        OBVIOUS
      <4>1. name[y] \in Names
        BY ValuesAssumption DEF NamedInv, NamedChild, TypeOK
      <4>2. entries[v][name[y]] = y
        BY <1>2, <4>1 DEF AllPlacedBut, Placed
      <4> QED
        BY <1>3, <4>1, <4>2 DEF HasValue, Values
    <3> DEFINE U == Nodes \ {v}
    <3>3. U \in SUBSET Nodes /\ n \in U /\ v \notin U
      BY <1>2, <1>3
    <3>4. \A y \in U : parent[y] \in U \cup {NoNode}
      BY <3>2 DEF NamedInv, TypeOK
    <3>5. Away(v, n)
      BY <3>3, <3>4 DEF Away
    <3> QED
      BY <3>1, <3>5
  <2> QED
    BY <1>1, <1>3, <2>1, <2>2, EntersDoes
<1> QED
  BY <1>4, <1>5

(* Erase, BulkErase and Clear: `left` has no node that the container did   *)
(* not have, and none of those that were taken out.                        *)
LEMMA TakesOut ==
  ASSUME NamedInv, NEW t \in Threads, NEW r, r = run[t], Doing(r), Good(r),
         r.pc = "container", Removes(r), NEW keys \in SUBSET Names, NEW left,
         \A k \in Names : \/ left[k] = entries[r.call.self][k] /\ k \notin keys \cap Held(r.call.self)
                          \/ left[k] \in {NoEntry, Erased},
         \A k \in Names : left[k] # entries[r.call.self][k]
                            => k \in keys \cap Held(r.call.self)
                               \/ entries[r.call.self][k] \notin Nodes,
         TakeOut(t, keys, left), NEW x, x = run'[t]
  PROVE  Doing(x)' /\ r.into = NoNode
<1> PICK n : n = r.call.self
  OBVIOUS
<1> PICK out : out = {<<k, entries[n][k]>> : k \in keys \cap Held(n)}
  OBVIOUS
<1> PICK q : q = [r EXCEPT !.ok = TRUE, !.pending = out]
  OBVIOUS
<1>1. /\ r \in Locals /\ run \in [Threads -> Locals] /\ n \in Nodes
      /\ NoEntry \notin Nodes /\ Erased \notin Nodes
      /\ entries \in [Nodes -> [Names -> Values \cup {NoEntry, Erased}]]
  BY CallFields, ValuesAssumption DEF Good, Typed, InCall, NamedInv, TypeOK
<1>2. Argued(r) /\ AllPlacedBut({}) /\ ~Attaches(r) /\ r.call.op # "ParentSet" /\ r.into = NoNode
  BY DEF Doing, Untouched, BeforeSection, Argued, Attaches, Removes
<1>3. out \in SUBSET (Names \X Nodes)
  <2> SUFFICES ASSUME NEW k \in Held(n) PROVE <<k, entries[n][k]>> \in Names \X Nodes
    OBVIOUS
  <2> QED
    BY ONLY k \in Held(n) DEF Held
<1>4. /\ q \in Locals /\ q.call = r.call /\ q.child = r.child /\ q.into = NoNode
      /\ q.name = r.name /\ q.pending = out
  BY <1>1, <1>2, <1>3 DEF Locals
<1>5. Argued(q)
  BY <1>2, <1>4 DEF Argued, Attaches, Removes
<1>6. /\ entries' = [entries EXCEPT ![n] = left] /\ parent' = parent /\ name' = name
      /\ x = DetachRemoved(q)
  BY <1>1 DEF TakeOut
<1>7. \A m \in Nodes, j \in Names :
        entries'[m][j] = IF m = n THEN left[j] ELSE entries[m][j]
  BY <1>1, <1>6
<1>8. \A m \in Nodes, j \in Names, d \in Nodes :
        entries'[m][j] = d => entries[m][j] = d /\ (m = n => j \notin keys \cap Held(n))
  BY <1>1, <1>7
<1>9. AllPlacedBut(Removed(q))'
  <2> SUFFICES ASSUME NEW d \in Nodes, d \notin Removed(q) PROVE Placed(d)'
    BY DEF AllPlacedBut
  <2>1. Placed(d)
    BY <1>2 DEF AllPlacedBut
  <2>2. \A j \in keys \cap Held(n) : entries[n][j] # d
    <3> SUFFICES ASSUME NEW j \in keys \cap Held(n), entries[n][j] = d PROVE FALSE
      OBVIOUS
    <3> PICK p : p = <<j, d>>
      OBVIOUS
    <3>1. p \in q.pending /\ p[2] = d
      BY <1>4
    <3> QED
      BY <3>1 DEF Removed
  <2>3. \A m \in Nodes, j \in Names : entries[m][j] = d => entries'[m][j] = d
    BY <1>1, <1>7, <2>2
  <2>4. \A m \in Nodes, j \in Names : entries'[m][j] = d <=> entries[m][j] = d
    BY <1>8, <2>3
  <2> QED
    BY ONLY <1>6, <2>1, <2>4 DEF Placed
<1>10. PendingOut(q)'
  <2> SUFFICES ASSUME NEW p \in q.pending
               PROVE  /\ Nowhere(p[2])' /\ parent'[p[2]] = q.call.self /\ name'[p[2]] = p[1]
                      /\ entries'[q.call.self][p[1]] \in {NoEntry, Erased}
    BY DEF PendingOut
  <2>1. PICK k \in keys \cap Held(n) : p = <<k, entries[n][k]>>
    BY <1>4
  <2> PICK d : d = entries[n][k]
    OBVIOUS
  <2>2. p[1] = k /\ p[2] = d /\ d \in Nodes /\ k \in Names /\ q.call.self = n
    BY <1>4, <2>1 DEF Held
  <2>3. \A m \in Nodes, j \in Names : entries[m][j] = d <=> parent[d] = m /\ name[d] = j
    BY <1>2, <2>2 DEF AllPlacedBut, Placed
  <2>4. parent[d] = n /\ name[d] = k
    BY ONLY <1>1, <2>2, <2>3, d = entries[n][k]
  <2>5. Nowhere(d)'
    BY ONLY <1>8, <2>2, <2>3, <2>4 DEF Nowhere
  <2>6. entries'[n][k] \in {NoEntry, Erased}
    BY <1>1, <1>7, <2>2
  <2>7. Nowhere(p[2])'
    BY <2>2, <2>5 DEF Nowhere
  <2> QED
    BY <1>6, <2>2, <2>4, <2>6, <2>7
<1>11. Doing(x)'
  BY <1>4, <1>5, <1>6, <1>9, <1>10, DetachRemovedDoes
<1> QED
  BY <1>2, <1>11

LEMMA RemovalDoes ==
  ASSUME NamedInv, NEW t \in Threads, NEW r, r = run[t], Doing(r), Good(r),
         Erase(t) \/ BulkErase(t) \/ Clear(t), NEW x, x = run'[t]
  PROVE  Doing(x)' /\ (x.pc = "idle" /\ x.ok => r.into = NoNode)
<1> PICK n : n = r.call.self
  OBVIOUS
<1>1. /\ r.pc = "container" /\ Removes(r) /\ r.call \in Calls /\ n \in Nodes
      /\ NoEntry \notin Values /\ Erased \notin Values /\ Nodes \subseteq Values
  BY CallFields, ValuesAssumption
     DEF Erase, BulkErase, Clear, InContainer, Removes, Good, Typed, InCall, Values
<1>2. AllPlacedBut({})
  BY <1>1 DEF Doing, Untouched, BeforeSection
<1>3. ASSUME NEW keys \in SUBSET Names, TakeOut(t, keys, Tombed(n, keys))
      PROVE  Doing(x)' /\ r.into = NoNode
  <2> PICK left : left = Tombed(n, keys)
    OBVIOUS
  <2>1. \A k \in Names : left[k] = IF k \in keys /\ entries[n][k] \in Values THEN Erased
                                   ELSE entries[n][k]
    BY DEF Tombed, HasValue
  <2>2. \A k \in Names : k \in Held(n) <=> entries[n][k] \in Nodes
    BY DEF Held
  <2>3. \A k \in Names : \/ left[k] = entries[n][k] /\ k \notin keys \cap Held(n)
                         \/ left[k] \in {NoEntry, Erased}
    BY <1>1, <2>1, <2>2
  <2>4. \A k \in Names : left[k] # entries[n][k]
                           => k \in keys \cap Held(n) \/ entries[n][k] \notin Nodes
    BY <2>1, <2>2
  <2> QED
    BY <1>1, <1>3, <2>3, <2>4, TakesOut
<1>4. CASE GiveUp(t)
  BY <1>2, <1>4, GiveUpDoes
<1>5. CASE Erase(t) /\ ~GiveUp(t)
  <2>1. {r.call.key} \in SUBSET Names
    BY <1>1, <1>5, CallFields DEF Erase, InContainer
  <2>2. TakeOut(t, {r.call.key}, Tombed(n, {r.call.key}))
    BY <1>5 DEF Erase
  <2> PICK keys : keys = {r.call.key}
    OBVIOUS
  <2> QED
    BY <1>3, <2>1, <2>2
<1>6. CASE BulkErase(t)
  <2>1. r.call.keys \in SUBSET Names
    BY <1>1, <1>6, CallFields DEF BulkErase, InContainer
  <2>2. TakeOut(t, r.call.keys, Tombed(n, r.call.keys))
    BY <1>6 DEF BulkErase
  <2> QED
    BY <1>3, <2>1, <2>2
<1>7. CASE Clear(t)
  <2> PICK left : left = [k \in Names |-> NoEntry]
    OBVIOUS
  <2>1. TakeOut(t, Names, left)
    BY <1>7 DEF Clear
  <2>2. \A k \in Names : left[k] = NoEntry /\ (k \in Held(n) <=> entries[n][k] \in Nodes)
    BY DEF Held
  <2> QED
    BY <1>1, <2>1, <2>2, TakesOut
<1> QED
  BY <1>4, <1>5, <1>6, <1>7

LEMMA KeyChangeDoes ==
  ASSUME NamedInv, NEW t \in Threads, NEW r, r = run[t], Doing(r), Good(r), KeyChange(t),
         NEW x, x = run'[t]
  PROVE  Doing(x)' /\ r.into = NoNode
<1> PICK n : n = r.call.self
  OBVIOUS
<1> PICK from : from = r.call.key
  OBVIOUS
<1> PICK to : to = r.call.to
  OBVIOUS
<1> PICK moved : moved = entries[n][from]
  OBVIOUS
<1>1. /\ r \in Locals /\ run \in [Threads -> Locals] /\ r.call \in Calls
      /\ r.pc = "container" /\ r.call.op = "KeyChange"
      /\ entries \in [Nodes -> [Names -> Values \cup {NoEntry, Erased}]]
  BY DEF Good, Typed, InCall, NamedInv, TypeOK, KeyChange, InContainer
<1>2. n \in Nodes /\ from \in Names /\ to \in Names
  BY <1>1, CallFields DEF Good, Typed, InCall
<1>3. NoEntry \notin Values /\ Erased \notin Nodes /\ Nodes \subseteq Values
  BY ValuesAssumption DEF Values
<1>4. Argued(r) /\ AllPlacedBut({}) /\ r.into = NoNode
  BY <1>1 DEF Doing, Untouched, BeforeSection, Argued, Attaches
<1>5. CASE GiveUp(t)
  BY <1>4, <1>5, GiveUpDoes
<1>6. CASE ~GiveUp(t)
  <2> PICK y : y = [r EXCEPT !.pc = "rename", !.child = moved, !.name = to]
    OBVIOUS
  <2>1. /\ moved \in Values /\ entries[n][to] = NoEntry
        /\ UNCHANGED <<parent, name>>
    BY <1>2, <1>6 DEF KeyChange
  <2>2. entries' = [entries EXCEPT ![n] =
                      [k \in Names |-> IF k = from THEN Erased
                                       ELSE IF k = to THEN moved ELSE entries[n][k]]]
    BY <1>6 DEF KeyChange
  <2>3. x = IF moved \in Nodes THEN y ELSE Returned(TRUE)
    BY <1>1, <1>6 DEF KeyChange
  <2>4. \A m \in Nodes, j \in Names :
          entries'[m][j] = IF m = n /\ j = from THEN Erased
                           ELSE IF m = n /\ j = to THEN moved ELSE entries[m][j]
    BY <1>1, <2>2
  <2>5. from # to
    BY <1>3, <2>1
  <2>6. AllPlacedBut({moved})'
    <3> SUFFICES ASSUME NEW d \in Nodes, d # moved PROVE Placed(d)'
      BY DEF AllPlacedBut
    <3>1. Placed(d)
      BY <1>4 DEF AllPlacedBut
    <3>2. \A m \in Nodes, j \in Names : entries'[m][j] = d <=> entries[m][j] = d
      BY ONLY <1>3, <2>1, <2>4, <2>5, d \in Nodes, d # moved, moved = entries[n][from]
    <3> QED
      BY <2>1, <3>1, <3>2 DEF Placed
  <2>7. CASE moved \notin Nodes
    <3>1. AllPlacedBut({})'
      BY <2>6, <2>7 DEF AllPlacedBut
    <3> QED
      BY <1>4, <2>3, <2>7, <3>1, DoesReturn
  <2>8. CASE moved \in Nodes
    <3>1. /\ x.pc = "rename" /\ x.call = r.call /\ x.child = moved /\ x.name = to
          /\ x.into = NoNode /\ x.pending = r.pending
      BY ONLY <1>1, <1>4, <2>3, <2>8, y = [r EXCEPT !.pc = "rename", !.child = moved, !.name = to]
         DEF Locals
    <3>2. Argued(x) /\ Arrived(x)
      BY <1>1, <1>4, <3>1 DEF Argued, Arrived, Attaches, Removes
    <3>3. \A m \in Nodes, j \in Names : entries[m][j] = moved <=> parent[moved] = m /\ name[moved] = j
      BY ONLY <1>4, <2>8 DEF AllPlacedBut, Placed
    <3>4. parent[moved] = n /\ name[moved] = from
      BY <1>2, <3>3
    <3>5. \A m \in Nodes, j \in Names : entries'[m][j] = moved <=> n = m /\ to = j
      <4> SUFFICES ASSUME NEW m \in Nodes, NEW j \in Names
                   PROVE  entries'[m][j] = moved <=> n = m /\ to = j
        OBVIOUS
      <4>1. entries'[m][j] = IF m = n /\ j = from THEN Erased
                             ELSE IF m = n /\ j = to THEN moved ELSE entries[m][j]
        BY <2>4
      <4>2. entries[m][j] = moved <=> n = m /\ from = j
        BY <3>3, <3>4
      <4>3. moved # Erased
        BY <1>3, <2>8
      <4>4. CASE m = n /\ j = from
        BY <2>5, <4>1, <4>3, <4>4
      <4>5. CASE ~(m = n /\ j = from)
        BY <4>1, <4>2, <4>5
      <4> QED
        BY <4>4, <4>5
    <3>6. AtRename(x)'
      <4>1. AllPlacedBut({x.child})'
        BY <2>6, <3>1
      <4>2. parent'[moved] = n
        BY <2>1, <3>4
      <4>3. \A m \in Nodes, j \in Names :
              entries'[m][j] = x.child <=> parent'[x.child] = m /\ x.name = j
        <5>1. x.child = moved /\ x.name = to
          BY <3>1
        <5> SUFFICES ASSUME NEW m \in Nodes, NEW j \in Names
                     PROVE  entries'[m][j] = moved <=> parent'[moved] = m /\ to = j
          BY <5>1
        <5>2. entries'[m][j] = moved <=> n = m /\ to = j
          BY <3>5
        <5> QED
          BY <4>2, <5>2
      <4> QED
        BY <4>1, <4>3 DEF AtRename
    <3> QED
      BY <1>4, <3>1, <3>2, <3>6 DEF Doing, Untouched
  <2> QED
    BY <2>7, <2>8
<1> QED
  BY <1>5, <1>6

LEMMA NameSetDoes ==
  ASSUME NamedInv, NEW t \in Threads, NEW r, r = run[t], Doing(r), Good(r), NameSet(t),
         NEW x, x = run'[t]
  PROVE  Doing(x)' /\ r.into = NoNode
<1> PICK c : c = r.call.self
  OBVIOUS
<1>1. /\ r \in Locals /\ run \in [Threads -> Locals] /\ r.call \in Calls /\ r.pc = "name"
      /\ r.call.op = "NameSet" /\ NoNode \notin Nodes
      /\ name \in [Nodes -> Names \cup {NoName}] /\ NamedChild
  BY ValuesAssumption DEF Good, Typed, InCall, NamedInv, TypeOK, NameSet
<1>2. /\ c \in Nodes /\ Argued(r) /\ AllPlacedBut({}) /\ ~r.ok /\ r.into = NoNode /\ r.pending = {}
  BY <1>1, CallFields DEF Doing, Untouched, BeforeSection, Argued, Attaches, Removes
<1>3. UNCHANGED <<entries, parent>>
  BY DEF NameSet
<1>4. ASSUME parent[c] = NoNode \/ r.call.to = name[c],
             name' = [name EXCEPT ![c] = r.call.to], NEW ok, x = Returned(ok)
      PROVE  Doing(x)'
  <2>1. AllPlacedBut({})'
    <3>1. AllPlacedBut({c})'
      <4>1. AllPlacedBut({c})
        BY <1>2 DEF AllPlacedBut
      <4> QED
        BY <1>1, <1>2, <1>3, <1>4, <4>1, SameEntriesPlaced
    <3>2. Placed(c)
      BY <1>2 DEF AllPlacedBut
    <3>3. Placed(c)'
      <4>1. CASE parent[c] = NoNode
        BY <1>1, <1>3, <3>2, <4>1 DEF Placed
      <4>2. CASE r.call.to = name[c]
        <5>1. name' = name
          BY <1>1, <1>4, <4>2
        <5> QED
          BY <1>3, <3>2, <5>1 DEF Placed
      <4> QED
        BY <1>4, <4>1, <4>2
    <3> QED
      BY <3>1, <3>3 DEF AllPlacedBut
  <2> QED
    BY <1>4, <2>1, DoesReturn
<1>5. CASE r.call.to = name[c] \/ name[c] = NoName \/ parent[c] = NoNode
  <2>1. parent[c] = NoNode \/ r.call.to = name[c]
    BY <1>1, <1>2, <1>5 DEF NamedChild
  <2>2. name' = [name EXCEPT ![c] = r.call.to] /\ x = Returned(TRUE)
    BY <1>1, <1>5 DEF NameSet
  <2> QED
    BY <1>2, <1>4, <2>1, <2>2
<1>6. CASE ~(r.call.to = name[c] \/ name[c] = NoName \/ parent[c] = NoNode)
  <2> PICK change : change = [op |-> "KeyChange", self |-> parent[c],
                              key |-> name[c], to |-> r.call.to]
    OBVIOUS
  <2>1. /\ UNCHANGED name
        /\ x = IF r.call.update THEN [r EXCEPT !.pc = "container", !.call = change]
               ELSE Returned(FALSE)
    BY <1>1, <1>6 DEF NameSet
  <2>2. AllPlacedBut({})'
    BY <1>2, <1>3, <2>1, SameEntriesPlaced
  <2>3. CASE ~r.call.update
    BY <1>2, <2>1, <2>2, <2>3, DoesReturn
  <2>4. CASE r.call.update
    <3>1. /\ x.pc = "container" /\ x.call = change /\ x.child = r.child /\ x.into = NoNode
          /\ x.name = r.name /\ x.pending = {} /\ x.ok = r.ok
      BY <1>1, <1>2, <2>1, <2>4 DEF Locals
    <3>2. change.op = "KeyChange"
      OBVIOUS
    <3>3. Argued(x) /\ Arrived(x)
      BY <3>1, <3>2 DEF Argued, Arrived, Attaches, Removes
    <3>4. BeforeSection(x)'
      BY <1>2, <2>2, <3>1, <3>2 DEF BeforeSection, Cautious
    <3> QED
      BY <1>2, <3>1, <3>2, <3>3, <3>4 DEF Doing, Untouched, Attaches
  <2> QED
    BY <2>3, <2>4
<1> QED
  BY <1>5, <1>6

LEMMA BeginDoes ==
  ASSUME NamedInv, Careful, NEW t \in Threads, Doing(run[t]), NEW c \in CallsOf[t], Begin(t, c),
         NEW x, x = run'[t]
  PROVE  Doing(x)'
<1>1. /\ c \in Calls /\ x = Started(c) /\ UNCHANGED <<entries, parent, name>>
  BY CallsAssumption DEF NamedInv, TypeOK, Begin
<1>2. AllPlacedBut({}) /\ Cautious(c)
  BY CarefulMeans DEF Begin, Doing
<1>3. AllPlacedBut({})' /\ Cautious(c)'
  BY <1>1, <1>2, CautiousStays, SameEntriesPlaced
<1>4. ASSUME x.call = c, Untouched(x), ~x.ok, x.pending = {},
             Argued(x), Arrived(x), c.op = "ParentSet" => x.name = c.name,
             x.pc = "container" /\ c.op \in {"Set", "Insert"} => x.child = NoNode
      PROVE  Doing(x)'
  <2>1. BeforeSection(x)'
    BY <1>3, <1>4 DEF BeforeSection, Cautious, FreeToMove, HasValue
  <2> QED
    BY <1>4, <2>1 DEF Doing, Untouched, Attaches
<1>5. CASE c.op \in {"Set", "Insert", "CompareExchange"}
  <2>1. x = [pc |-> IF c.op # "CompareExchange" /\ c.val \in Nodes
                    THEN "checkChild" ELSE "container",
             call |-> c, at |-> c.self, child |-> NodeOf(c.val), into |-> c.self,
             name |-> c.key, prev |-> NoNode, pending |-> {}, ok |-> FALSE]
    BY <1>1, <1>5, ZenonT(40) DEF Started, Idle
  <2>2. Argued(x) /\ Arrived(x) /\ Untouched(x)
    BY <1>5, <2>1 DEF Argued, Arrived, Untouched, Attaches, Removes
  <2>3. x.pc = "container" /\ c.op \in {"Set", "Insert"} => x.child = NoNode
    BY <2>1 DEF NodeOf
  <2> QED
    BY <1>4, <1>5, <2>1, <2>2, <2>3
<1>6. CASE c.op = "ParentSet"
  <2>1. x = [pc |-> IF c.into = NoNode THEN "link" ELSE "checkParent",
             call |-> c, at |-> c.into, child |-> c.self, into |-> c.into,
             name |-> c.name, prev |-> NoNode, pending |-> {}, ok |-> FALSE]
    BY <1>1, <1>6 DEF Started, Idle
  <2>2. Argued(x) /\ Arrived(x) /\ Untouched(x)
    BY <1>6, <2>1 DEF Argued, Arrived, Untouched, Attaches, Removes
  <2> QED
    BY <1>4, <1>6, <2>1, <2>2
<1>7. CASE c.op \notin {"Set", "Insert", "CompareExchange", "ParentSet"}
  <2>1. x = [pc |-> IF c.op = "NameSet" THEN "name" ELSE "container",
             call |-> c, at |-> NoNode, child |-> NoNode, into |-> NoNode,
             name |-> Keep, prev |-> NoNode, pending |-> {}, ok |-> FALSE]
    BY <1>1, <1>7 DEF Started, Idle
  <2>2. c.op \in {"Erase", "BulkErase", "Clear", "KeyChange", "NameSet"}
    BY <1>1, <1>7 DEF Calls
  <2>3. Argued(x) /\ Arrived(x) /\ Untouched(x)
    BY <2>1, <2>2 DEF Argued, Arrived, Untouched, Attaches, Removes
  <2> QED
    BY <1>4, <1>7, <2>1, <2>3
<1> QED
  BY <1>5, <1>6, <1>7

(* What a call of one careful thread does in each step: the disagreement it  *)
(* leaves is the one of the point it goes to, and when it returns true the *)
(* child is where it was to be.                                            *)
LEMMA StepDoes ==
  ASSUME AcyclicInv, NEW t \in Threads, NEW r, r = run[t], Doing(r), Good(r), Step(t),
         NEW x, x = run'[t]
  PROVE  /\ Doing(x)'
         /\ x.pc = "idle" /\ x.ok /\ r.child # NoNode /\ r.into # NoNode =>
              parent'[r.child] = r.into /\ \E k \in Names : entries'[r.into][k] = r.child
<1>1. NamedInv
  BY DEF AcyclicInv
<1>2. CASE IsValidChild(t) \/ IsValidParent(t)
  BY <1>2, ClimbsDo
<1>3. CASE Set(t)
  BY <1>1, <1>3, SetDoes
<1>4. CASE Insert(t)
  BY <1>1, <1>4, InsertDoes
<1>5. CASE CompareExchange(t)
  BY <1>1, <1>5, CompareExchangeDoes
<1>6. CASE Erase(t) \/ BulkErase(t) \/ Clear(t)
  BY <1>1, <1>6, RemovalDoes
<1>7. CASE KeyChange(t)
  BY <1>1, <1>7, KeyChangeDoes
<1>8. CASE Orphan(t)
  BY <1>1, <1>8, OrphanDoes
<1>9. CASE Link(t)
  <2>1. r.pc = "link"
    BY <1>9 DEF Link
  <2>2. Attaches(r) \/ r.call.op = "ParentSet"
    BY <2>1 DEF Doing, Arrived
  <2>3. CASE Attaches(r)
    BY <1>1, <1>9, <2>1, <2>3, AttachLinks
  <2>4. CASE r.call.op = "ParentSet"
    BY <1>1, <1>9, <2>1, <2>4, ParentSetLinks
  <2> QED
    BY <2>2, <2>3, <2>4
<1>10. CASE Detach(t)
  <2>1. r.pc = "detach"
    BY <1>10 DEF Detach
  <2> QED
    BY <1>1, <1>10, <2>1, DetachLinks
<1>11. CASE PrivateErase(t)
  <2>1. r.pc = "eraseOld"
    BY <1>11 DEF PrivateErase
  <2> QED
    BY <1>1, <1>11, <2>1, ErasesOld
<1>12. CASE NameGet(t)
  BY <1>1, <1>12, NameGetDoes
<1>13. CASE PrivateSet(t)
  BY <1>1, <1>13, PrivateSetDoes
<1>14. CASE PrivateNameSet(t)
  BY <1>1, <1>14, RenameDoes
<1>15. CASE NameSet(t)
  BY <1>1, <1>15, NameSetDoes
<1> QED
  BY <1>2, <1>3, <1>4, <1>5, <1>6, <1>7, <1>8, <1>9, <1>10, <1>11, <1>12, <1>13, <1>14,
     <1>15 DEF Step, Section

LEMMA InitPlaced == Init => PlacedInv
<1> SUFFICES ASSUME Init, NEW t \in Threads, NEW x \in Locals, run[t] = x PROVE Doing(x)
  BY DEF PlacedInv
<1>1. x.pc = "idle"
  BY DEF Init, Idle
<1>2. AllPlacedBut({})
  BY ValuesAssumption DEF Init, AllPlacedBut, Placed
<1> QED
  BY <1>1, <1>2 DEF Doing, Untouched

LEMMA StandingStill ==
  ASSUME UNCHANGED <<entries, parent, name>>, NEW x, Doing(x)
  PROVE  Doing(x)'
<1>1. \A X : AllPlacedBut(X) => AllPlacedBut(X)'
  BY DEF AllPlacedBut, Placed
<1>2. Untouched(x) => BeforeSection(x)'
  <2> SUFFICES ASSUME Untouched(x) PROVE BeforeSection(x)'
    OBVIOUS
  <2>1. BeforeSection(x)
    BY DEF Doing
  <2>2. Cautious(x.call)'
    BY <2>1, CautiousStays DEF BeforeSection
  <2> QED
    BY <1>1, <2>1, <2>2 DEF BeforeSection, Away
<1>3. x.pc = "orphan" => AtOrphan(x)'
  BY DEF Doing, AtOrphan, AllPlacedBut, Placed, Nowhere, Entered, FreeToMove, Away
<1>4. x.pc \in {"checkParent", "link"} /\ Attaches(x) => AtLink(x)'
  BY DEF Doing, AtLink, AllPlacedBut, Placed, Entered, FreeToMove, Away
<1>5. x.pc = "eraseOld" => AtEraseOld(x)'
  BY DEF Doing, AtEraseOld, AllPlacedBut, Placed, PendingOut, Nowhere, Room
<1>6. x.pc \in {"nameGet", "place"} => AtPlace(x)'
  BY DEF Doing, AtPlace, AllPlacedBut, Placed, Nowhere, Room
<1>7. x.pc = "detach" => AtDetach(x)'
  BY DEF Doing, AtDetach, AllPlacedBut, Placed, PendingOut, Nowhere
<1>8. x.pc = "rename" => AtRename(x)'
  BY DEF Doing, AtRename, AllPlacedBut, Placed
<1> QED
  BY <1>1, <1>2, <1>3, <1>4, <1>5, <1>6, <1>7, <1>8 DEF Doing

LEMMA PlacedStep ==
  ASSUME OneThread, Careful, AcyclicInv, PlacedInv, [Next]_vars
  PROVE  PlacedInv'
<1> SUFFICES ASSUME NEW u \in Threads, NEW x \in Locals, run'[u] = x PROVE Doing(x)'
  BY DEF PlacedInv
<1>1. NamedInv
  BY DEF AcyclicInv
<1>2. CASE UNCHANGED vars
  <2>1. run[u] = x /\ UNCHANGED <<entries, parent, name>>
    BY <1>2 DEF vars
  <2>2. Doing(x)
    BY <2>1 DEF PlacedInv
  <2> QED
    BY <2>1, <2>2, StandingStill
<1>3. ASSUME NEW t \in Threads, (\E c \in CallsOf[t] : Begin(t, c)) \/ Step(t)
      PROVE  Doing(x)'
  <2> PICK r : r = run[t]
    OBVIOUS
  <2>1. Good(r) /\ r \in Locals
    BY <1>1, ThreadGood DEF Good, Typed
  <2>2. Doing(r)
    BY <2>1 DEF PlacedInv
  <2>3. x = run'[t]
    BY DEF OneThread
  <2>4. CASE Step(t)
    BY <2>1, <2>2, <2>3, <2>4, StepDoes
  <2>5. CASE \E c \in CallsOf[t] : Begin(t, c)
    <3> PICK c \in CallsOf[t] : Begin(t, c)
      BY <2>5
    <3>1. Doing(run[t])
      BY <2>2
    <3> QED
      BY <1>1, <2>3, <3>1, BeginDoes
  <2> QED
    BY <1>3, <2>4, <2>5
<1> QED
  BY <1>2, <1>3 DEF Next

LEMMA AlwaysPlaced == ASSUME NamesGiven, OneThread, Careful PROVE Spec => [](AcyclicInv /\ PlacedInv)
<1>1. AcyclicInv /\ PlacedInv /\ [Next]_vars => PlacedInv'
  BY PlacedStep
<1> QED
  BY <1>1, InitPlaced, AlwaysAcyclicInv, PTL DEF Spec

LEMMA IdleIsPlaced ==
  ASSUME OneThread, NamedInv, PlacedInv, AllIdle
  PROVE  AllPlacedBut({})
<1> PICK t \in Threads : run[t].pc = "idle"
  BY DEF OneThread, AllIdle
<1>1. run[t] \in Locals
  BY DEF NamedInv, TypeOK
<1> QED
  BY <1>1 DEF PlacedInv, Doing

(* Between the calls of one careful thread, every entry that holds a node  *)
(* holds a child of that container's node, under the child's name: no call *)
(* leaves an entry behind in a former parent, or a name behind on a node   *)
(* that has moved to another key.                                          *)
THEOREM EntriesHoldChildren ==
  ASSUME NamesGiven, OneThread, Careful PROVE Spec => []HeldIsChild
<1>1. AcyclicInv /\ PlacedInv => HeldIsChild
  <2> SUFFICES ASSUME AcyclicInv, PlacedInv, AllIdle, NEW n \in Nodes, NEW k \in Held(n)
               PROVE  parent[entries[n][k]] = n /\ name[entries[n][k]] = k
    BY DEF HeldIsChild
  <2>1. AllPlacedBut({})
    BY IdleIsPlaced DEF AcyclicInv
  <2>2. k \in Names /\ entries[n][k] \in Nodes
    BY DEF Held
  <2> QED
    BY <2>1, <2>2 DEF AllPlacedBut, Placed
<1> QED
  BY <1>1, AlwaysPlaced, PTL

(* ... and every node that has a parent is in the container of that parent, *)
(* where PrivateErase and NameSet will look for it.                        *)
THEOREM ChildrenAreHeld ==
  ASSUME NamesGiven, OneThread, Careful PROVE Spec => []ChildIsHeld
<1>1. AcyclicInv /\ PlacedInv => ChildIsHeld
  <2> SUFFICES ASSUME AcyclicInv, PlacedInv, AllIdle, NEW n \in Nodes, parent[n] # NoNode
               PROVE  \E k \in Names : entries[parent[n]][k] = n
    BY DEF ChildIsHeld
  <2>1. AllPlacedBut({})
    BY IdleIsPlaced DEF AcyclicInv
  <2>2. parent[n] \in Nodes /\ name[n] \in Names
    BY DEF AcyclicInv, NamedInv, TypeOK, NamedChild
  <2> QED
    BY <2>1, <2>2 DEF AllPlacedBut, Placed
<1> QED
  BY <1>1, AlwaysPlaced, PTL

(* PrivateErase, which looks an entry up by the name of the child and asks *)
(* nobody, takes nothing but that child out of its former parent.          *)
THEOREM OnlyTheChildIsErased ==
  ASSUME NamesGiven, OneThread, Careful PROVE Spec => NoCollateralErase
<1> DEFINE Spared ==
      \A t \in Threads : run[t].pc = "eraseOld" /\ run'[t] # run[t] =>
        \A k \in Names : \/ entries'[run[t].prev][k] = entries[run[t].prev][k]
                         \/ entries[run[t].prev][k] = run[t].child
<1>1. AcyclicInv /\ PlacedInv /\ [Next]_vars => [Spared]_vars
  <2> SUFFICES ASSUME AcyclicInv, PlacedInv, Next, NEW t \in Threads,
                      run[t].pc = "eraseOld", run'[t] # run[t], NEW k \in Names
               PROVE  \/ entries'[run[t].prev][k] = entries[run[t].prev][k]
                      \/ entries[run[t].prev][k] = run[t].child
    OBVIOUS
  <2> PICK r : r = run[t]
    OBVIOUS
  <2>1. NamedInv /\ Good(r) /\ r \in Locals /\ r.prev \in Nodes
    BY ThreadGood DEF AcyclicInv, Good, Typed, Carries, Locals
  <2>2. AtEraseOld(r)
    BY <2>1 DEF PlacedInv, Doing
  <2>3. (\E c \in CallsOf[t] : Begin(t, c)) \/ Step(t)
    BY DEF Next, OneThread
  <2>4. PrivateErase(t)
    BY <2>1, <2>3 DEF Begin, Step, Section, IsValidChild, IsValidParent, Set, Insert,
       CompareExchange, Erase, BulkErase, Clear, KeyChange, InContainer, Orphan, Link, Detach,
       NameGet, PrivateSet, PrivateNameSet, NameSet
  <2> QED
    BY <2>1, <2>2, <2>4, OnlyTheChildGoes
<1> QED
  BY <1>1, AlwaysPlaced, PTL DEF Spec, NoCollateralErase

(* Set, Insert, CompareExchange and ParentSet of one careful thread return *)
(* true only with the child attached on both sides.                        *)
THEOREM TrueMeansAttached ==
  ASSUME NamesGiven, OneThread, Careful PROVE Spec => SuccessAttaches
<1> DEFINE Told ==
      \A t \in Threads :
        LET r == run[t]
            attached == r.child # NoNode /\ r.into # NoNode
        IN  r.pc # "idle" /\ run'[t].pc = "idle" /\ run'[t].ok /\ attached =>
              /\ parent'[r.child] = r.into
              /\ \E k \in Names : entries'[r.into][k] = r.child
<1>1. AcyclicInv /\ PlacedInv /\ [Next]_vars => [Told]_vars
  <2> SUFFICES ASSUME AcyclicInv, PlacedInv, Next, NEW t \in Threads, NEW r, r = run[t],
                      r.child # NoNode, r.into # NoNode,
                      r.pc # "idle", run'[t].pc = "idle", run'[t].ok
               PROVE  parent'[r.child] = r.into /\ \E k \in Names : entries'[r.into][k] = r.child
    OBVIOUS
  <2>1. Good(r) /\ r \in Locals
    BY ThreadGood DEF AcyclicInv, Good, Typed
  <2>2. Doing(r)
    BY <2>1 DEF PlacedInv
  <2>3. (\E c \in CallsOf[t] : Begin(t, c)) \/ Step(t)
    BY DEF Next, OneThread
  <2>4. Step(t)
    BY <2>3 DEF Begin
  <2> PICK x : x = run'[t]
    OBVIOUS
  <2> QED
    BY <2>1, <2>2, <2>4, StepDoes
<1> QED
  BY <1>1, AlwaysPlaced, PTL DEF Spec, SuccessAttaches
=============================================================================
