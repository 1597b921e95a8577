------------------------- MODULE GetOrCreate_proofs -------------------------
(***************************************************************************)
(* Theorems about GetOrCreate for every tree, every set of threads and     *)
(* every set of calls that agree on the kept keys.                         *)
(***************************************************************************)
EXTENDS GetOrCreate, SequenceFacts, FiniteSetTheorems, TLAPS

Locals ==
  [pc : Stages, call : Calls \cup {NoCall}, node : Nodes \cup {NoNode}, rest : Seq(Keys),
   fresh : Nodes \cup {NoNode}, seen : Values \cup {NoEntry}, old : Values \cup {NoEntry},
   child : Nodes \cup {NoNode}, prev : Nodes \cup {NoNode}, array : BOOLEAN,
   then : {"idle", "arrive", "append", "return"}]

(* The thread is at a key of the way, within NodeGetByKey. *)
Walks(r) ==
  \/ r.pc \in {"look", "test", "exchange"}
  \/ r.pc \in {"link", "leave"} /\ r.then = "arrive"

(* It has moved the old value of EmplaceToArray, or is about to append. *)
Fills(r) == r.pc \in {"keepOld", "append"} \/ (r.pc \in {"link", "leave"} /\ r.then = "append")

(* The type callers want under the i-th of the keys that are left. *)
WantedAt(r, keys, i) ==
  IF i = Len(keys) /\ r.call.op = "NodeGet" /\ r.call.type = "Array" THEN "Array" ELSE "Map"

(* The keys are what is left of the way of this call from node n. *)
OnTheWay(r, n, keys) ==
  /\ keys # <<>>
  /\ IF r.array
     THEN r.call.op = "EmplaceToArray" /\ keys = <<Last(r.call.path)>> /\ n = Root
     ELSE /\ \A i \in 1 .. Len(keys) : keys[i] \in Kept => KindAt[keys[i]] = WantedAt(r, keys, i)
          /\ r.call.op # "NodeGet" => Len(r.call.path) > 1

(* What the local variables say of the call, at every stage. *)
Directed(t, r) ==
  /\ r \in Locals
  /\ r.pc # "idle" => r.call \in CallsOf[t] /\ r.node \in Nodes /\ r.rest # <<>>
  /\ Walks(r) => OnTheWay(r, r.node, r.rest)
  /\ r.array /\ r.pc # "idle" => r.call.op = "EmplaceToArray" /\ r.rest = <<Last(r.call.path)>>
  /\ r.pc \in {"apply", "existed", "orphan"} \/ (r.pc \in {"link", "leave"} /\ r.then = "return") =>
       ~r.array /\ r.rest = <<Last(r.call.path)>>
  /\ r.pc = "existed" => r.call.op = "EmplaceToArray" /\ (Len(r.call.path) = 1 => r.node = Root)
  /\ r.pc = "apply" => r.call.op \notin {"NodeGet", "EmplaceToArray"}
  /\ Fills(r) => r.array
  /\ r.pc \in {"link", "leave"} => r.then # "idle"
  /\ r.fresh # NoNode => Walks(r)
  /\ r.pc = "exchange" => r.fresh # NoNode
  /\ Walks(r) /\ r.pc \in {"link", "leave"} => r.fresh # NoNode /\ r.child = r.fresh
  /\ r.pc \in {"link", "leave", "orphan"} => r.child # NoNode
  /\ r.pc = "keepOld" => r.old # NoEntry

AtKept(r) == r.pc # "idle" /\ Key(r) \in Kept

(* The nodes a thread carries have been created. *)
CarriesBorn(r) ==
  /\ {r.node, r.fresh, r.child, r.prev} \subseteq born \cup {NoNode}
  /\ {r.seen, r.old} \cap Nodes \subseteq born

(* What the local variables say of the tree.                               *)
Knows(r) ==
  /\ CarriesBorn(r)
  /\ r.pc = "leave" => r.prev \in born
  /\ r.pc = "exchange" => ~Fits(r.seen, Want(r))
  /\ r.pc = "leave" /\ r.then = "arrive" => ~AtKept(r)
  /\ AtKept(r) =>
       /\ r.pc \in {"test", "exchange"} /\ r.seen \in Nodes => entry[r.node][Key(r)] = r.seen
       /\ r.fresh # NoNode =>
            /\ r.fresh # Root
            /\ kind[r.fresh] = KindAt[Key(r)]
            /\ parent[r.fresh] = NoNode
            /\ \A n \in Nodes, k \in Keys : entry[n][k] = r.fresh =>
                 r.pc = "link" /\ n = r.node /\ k = Key(r)
       /\ r.pc = "link" /\ r.then = "arrive" /\ kind[r.node] = "Map" =>
            entry[r.node][Key(r)] = r.fresh
       /\ r.array /\ r.old \in Nodes =>
            /\ r.pc \notin {"exchange", "keepOld"} /\ ~(r.pc \in {"link", "leave"})
            /\ entry[Root][Key(r)] = r.old
            /\ r.pc = "test" => r.seen = r.old

(* Nodes that a kept key stands for: under it, named by it, or about to be *)
(* put there.                                                              *)
KeptUse(c) ==
  \/ \E n \in Nodes, k \in Kept : entry[n][k] = c
  \/ name[c] \in Kept
  \/ \E t \in Threads : run[t].fresh = c /\ AtKept(run[t])

(* Nodes that a thread moves, orphans or gives another name. *)
Moves(r, c) ==
  \/ r.pc \in {"link", "leave"} /\ r.then # "arrive" /\ r.child = c
  \/ r.pc = "orphan" /\ r.child = c
  \/ r.pc # "idle" /\ ~AtKept(r) /\ (r.fresh = c \/ (r.array /\ r.old = c))

FreeUse(c) ==
  \/ \E n \in Nodes, k \in Keys \ Kept : entry[n][k] = c
  \/ \E t \in Threads : Moves(run[t], c)

Apart == \A c \in Nodes : ~(KeptUse(c) /\ FreeUse(c))

FreshIsOwn ==
  \A t, u \in Threads : t # u => run[t].fresh = NoNode \/ run[t].fresh # run[u].fresh

Settled == \A n \in Nodes, k \in Kept : entry[n][k] \in Nodes => kind[entry[n][k]] = KindAt[k]

(* A node under a kept key is a child of the node that holds it, unless it *)
(* has just been put in.                                                   *)
Adopted ==
  \A n \in Nodes, k \in Kept : LET c == entry[n][k] IN
    c \in Nodes =>
      \/ parent[c] = n /\ name[c] = k
      \/ \E t \in Threads : LET r == run[t] IN
           r.pc = "link" /\ r.then = "arrive" /\ r.fresh = c /\ r.node = n /\ Key(r) = k

Unborn ==
  \A n \in Nodes \ born :
    /\ parent[n] = NoNode /\ name[n] = NoName
    /\ \A k \in Keys : entry[n][k] = NoEntry
    /\ \A k \in Kept : handed[n][k] = {}

Shape ==
  /\ Root \in born /\ born \subseteq Nodes /\ kind[Root] = "Map"
  /\ kind \in [Nodes -> {"Map", "Array"}]
  /\ entry \in [Nodes -> [Keys -> born \cup Scalars \cup {Blank, NoEntry, Erased}]]
  /\ list \in [Nodes -> Seq(born \cup Scalars \cup {Blank})]
  /\ parent \in [Nodes -> born \cup {NoNode}]
  /\ name \in [Nodes -> Keys \cup {NoName}]
  /\ run \in [Threads -> Locals]
  /\ begun \in [Threads -> SUBSET Calls] /\ succeeded \in [Threads -> SUBSET Calls]
  /\ handed \in [Nodes -> [Kept -> SUBSET born]]

Inv ==
  /\ Shape
  /\ \A t \in Threads : Directed(t, run[t]) /\ Knows(run[t])
  /\ Apart /\ FreshIsOwn /\ Settled /\ Adopted /\ Unborn
  /\ HandedStays

-----------------------------------------------------------------------------
(* Calls, their keys, and the types callers want. *)

LEMMA CallFacts ==
  ASSUME NEW t \in Threads, NEW c \in CallsOf[t]
  PROVE  /\ c \in Calls /\ c.path \in Seq(Keys) /\ c.path # <<>> /\ Agrees(c)
         /\ c.op \in {"NodeGet", "Set", "Insert", "EmplaceToArray", "At", "Erase"}
         /\ c.op = "NodeGet" => c.type \in {"Map", "Array", "Any"}
         /\ c.op \in {"Set", "Insert", "EmplaceToArray"} => c.val \in Scalars
<1>1. c \in Calls /\ c.path # <<>> /\ Agrees(c)
  BY CallsAssumption, KeptAssumption
<1>2. CASE c \in [op : {"NodeGet"}, path : Seq(Keys), type : {"Map", "Array", "Any"}, convert : BOOLEAN]
  BY <1>1, <1>2
<1>3. CASE c \in [op : {"Set", "Insert", "EmplaceToArray"}, path : Seq(Keys), val : Scalars]
  BY <1>1, <1>3
<1>4. CASE c \in [op : {"At", "Erase"}, path : Seq(Keys)]
  BY <1>1, <1>4
<1> QED
  BY <1>1, <1>2, <1>3, <1>4 DEF Calls

LEMMA OneOrMore == \A n \in Nat \ {0} : (n = 1 \/ n > 1) /\ ~(1 = n /\ n > 1)
  OBVIOUS

LEMMA Ends ==
  ASSUME NEW s \in Seq(Keys), s # <<>>
  PROVE  /\ Len(s) \in Nat \ {0}
         /\ Last(s) = s[Len(s)] /\ Last(s) \in Keys
         /\ Front(s) \in Seq(Keys) /\ Len(Front(s)) = Len(s) - 1
         /\ \A i \in 1 .. Len(s) - 1 : Front(s)[i] = s[i]
         /\ Front(s) = <<>> <=> Len(s) = 1
         /\ Head(s) = s[1] /\ Head(s) \in Keys
         /\ Tail(s) \in Seq(Keys) /\ Len(Tail(s)) = Len(s) - 1
         /\ \A i \in 1 .. Len(s) - 1 : Tail(s)[i] = s[i + 1]
         /\ <<Last(s)>> \in Seq(Keys) /\ Len(<<Last(s)>>) = 1 /\ <<Last(s)>>[1] = Last(s)
         /\ <<Last(s)>> # <<>>
<1>1. Len(s) \in Nat \ {0}
  OBVIOUS
<1>2. Last(s) = s[Len(s)] /\ Last(s) \in Keys
  BY <1>1 DEF Last
<1>3. /\ Front(s) \in Seq(Keys) /\ Len(Front(s)) = Len(s) - 1
      /\ \A i \in 1 .. Len(s) - 1 : Front(s)[i] = s[i]
  <2>1. SubSeq(s, 1, Len(s) - 1) \in Seq(Keys) /\ Len(SubSeq(s, 1, Len(s) - 1)) = Len(s) - 1
    <3> DEFINE m == Len(s) - 1
    <3>1. m \in Nat /\ \A i \in 1 .. m : s[i] \in Keys
      BY <1>1
    <3> HIDE DEF m
    <3>2. SubSeq(s, 1, m) \in Seq(Keys) /\ Len(SubSeq(s, 1, m)) = IF 1 <= m THEN m - 1 + 1 ELSE 0
      BY <3>1, SubSeqProperties
    <3>3. Len(SubSeq(s, 1, m)) = m
      BY <3>1, <3>2
    <3> QED
      BY <3>2, <3>3 DEF m
  <2>2. \A i \in 1 .. Len(s) - 1 : SubSeq(s, 1, Len(s) - 1)[i] = s[i]
    BY <1>1
  <2> QED
    BY <2>1, <2>2 DEF Front
<1>4. Front(s) = <<>> <=> Len(s) = 1
  BY <1>1, <1>3
<1> QED
  BY <1>1, <1>2, <1>3, <1>4

LEMMA AtKeys ==
  ASSUME NEW r \in Locals, r.rest # <<>>
  PROVE  /\ Key(r) \in Keys /\ Key(r) = r.rest[1] /\ Len(r.rest) \in Nat \ {0}
         /\ \A k : r.rest = <<k>> => Key(r) = k /\ Len(r.rest) = 1
<1>1. r.rest \in Seq(Keys)
  BY DEF Locals
<1>2. Key(r) \in Keys /\ Key(r) = r.rest[1] /\ Len(r.rest) \in Nat \ {0}
  BY <1>1, Ends DEF Key
<1>3. ASSUME NEW k, r.rest = <<k>>
      PROVE  Key(r) = k /\ Len(r.rest) = 1
  BY <1>3 DEF Key
<1> QED
  BY <1>2, <1>3

LEMMA LastKey ==
  ASSUME NEW t \in Threads, NEW r \in Locals, r.call \in CallsOf[t],
         r.rest = <<Last(r.call.path)>>
  PROVE  Key(r) = r.call.path[Len(r.call.path)] /\ Len(r.call.path) \in Nat \ {0}
<1>1. r.call.path \in Seq(Keys) /\ r.call.path # <<>>
  BY CallFacts
<1>2. Len(r.call.path) \in Nat \ {0}
  BY <1>1, Ends
<1>3. Key(r) = Last(r.call.path)
  BY DEF Key
<1> QED
  BY <1>2, <1>3 DEF Last

(* Where the key is kept, the thread asks for what everybody wants there,  *)
(* and makes it if it has to.                                              *)
LEMMA KeptWant ==
  ASSUME NEW t \in Threads, NEW r, Directed(t, r), Walks(r), AtKept(r)
  PROVE  /\ Want(r) \in {"Any", KindAt[Key(r)]}
         /\ KindAt[Key(r)] = IF Want(r) = "Array" THEN "Array" ELSE "Map"
         /\ r.array => Want(r) = "Array"
<1> DEFINE c == r.call
<1>1. r.pc # "idle" /\ r \in Locals /\ c \in CallsOf[t] /\ r.rest # <<>>
  BY DEF Directed, AtKept
<1>2. Key(r) = r.rest[1] /\ Len(r.rest) \in Nat \ {0} /\ Key(r) \in Kept
  BY <1>1, AtKeys DEF AtKept
<1>3. CASE r.array
  <2>1. c.op = "EmplaceToArray" /\ r.rest = <<Last(c.path)>>
    BY <1>1, <1>3 DEF Directed
  <2>2. Key(r) = c.path[Len(c.path)]
    BY <1>1, <2>1, LastKey
  <2>3. KindAt[Key(r)] = "Array"
    BY <1>1, <1>2, <2>1, <2>2, CallFacts DEF Agrees
  <2> QED
    BY <1>3, <2>3 DEF Want
<1>4. CASE ~r.array
  <2>1. KindAt[Key(r)] = WantedAt(r, r.rest, 1)
    BY <1>2, <1>4 DEF Directed, OnTheWay
  <2>2. /\ c.op \in {"NodeGet", "Set", "Insert", "EmplaceToArray", "At", "Erase"}
        /\ c.op = "NodeGet" => c.type \in {"Map", "Array", "Any"}
    BY <1>1, CallFacts
  <2>3. CASE Len(r.rest) > 1
    <3>1. ~(1 = Len(r.rest))
      BY <1>2, <2>3, OneOrMore
    <3>2. WantedAt(r, r.rest, 1) = "Map"
      BY <3>1 DEF WantedAt
    <3>3. Want(r) = IF TypeFor(c) # "Any" THEN "Map" ELSE "Any"
      BY <1>4, <2>3 DEF Want
    <3> QED
      BY <1>4, <2>1, <3>2, <3>3
  <2>4. CASE Len(r.rest) = 1
    BY <1>2, <1>4, <2>1, <2>2, <2>4 DEF Want, WantedAt, TypeFor
  <2> QED
    BY <1>2, <2>3, <2>4, OneOrMore
<1> QED
  BY <1>3, <1>4

(* Nothing is set, inserted or erased under a kept key.                    *)
LEMMA AppliesElsewhere ==
  ASSUME NEW t \in Threads, NEW r, Directed(t, r), r.pc = "apply",
         r.call.op \in {"Set", "Insert", "Erase"}
  PROVE  ~AtKept(r)
<1>1. r \in Locals /\ r.call \in CallsOf[t] /\ r.rest = <<Last(r.call.path)>> /\ r.rest # <<>>
  BY DEF Directed
<1>2. Key(r) = r.call.path[Len(r.call.path)]
  BY <1>1, LastKey
<1> QED
  BY <1>1, <1>2, CallFacts DEF Agrees, AtKept

(* EmplaceToArray comes to a kept key only at the root. *)
LEMMA ExistedAtRoot ==
  ASSUME NEW t \in Threads, NEW r, Directed(t, r), r.pc = "existed", AtKept(r)
  PROVE  r.node = Root
<1>1. /\ r \in Locals /\ r.call \in CallsOf[t] /\ r.rest = <<Last(r.call.path)>> /\ r.rest # <<>>
      /\ r.call.op = "EmplaceToArray" /\ (Len(r.call.path) = 1 => r.node = Root)
  BY DEF Directed
<1>2. Key(r) = r.call.path[Len(r.call.path)] /\ Len(r.call.path) \in Nat \ {0}
  BY <1>1, LastKey
<1>3. Agrees(r.call) /\ Key(r) \in Kept
  BY <1>1, CallFacts DEF AtKept
<1>4. ~(Len(r.call.path) > 1)
  BY <1>1, <1>2, <1>3 DEF Agrees
<1> QED
  BY <1>1, <1>2, <1>4, OneOrMore

-----------------------------------------------------------------------------
(* The local variables from stage to stage. *)

LEMMA IdleDirected ==
  ASSUME NEW t
  PROVE  Directed(t, Idle) /\ ~AtKept(Idle) /\ Idle.fresh = NoNode /\ Idle.pc = "idle"
<1>1. Idle \in Locals
  BY DEF Idle, Locals, Stages
<1>2. Idle.pc = "idle" /\ Idle.fresh = NoNode /\ Idle.array = FALSE
  BY DEF Idle
<1> QED
  BY <1>1, <1>2 DEF Directed, AtKept, Walks, Fills

(* A thread outside NodeGetByKey that has no node in its hands.            *)
Simple(x) ==
  /\ x.fresh = NoNode
  /\ x.pc \notin {"test", "exchange", "link", "leave", "orphan"}

(* x is r with nothing made and nothing seen, at node n. *)
Anew(t, x, r, n) ==
  /\ Directed(t, x) /\ Simple(x) /\ x.seen = NoEntry
  /\ x.node = n /\ x.array = r.array /\ x.old = r.old /\ x.child = r.child /\ x.prev = r.prev

(* On the way, at the node n and the keys that are left. *)
LEMMA WalkingDirected ==
  ASSUME NEW t, NEW r \in Locals, NEW n \in Nodes, NEW keys \in Seq(Keys),
         r.call \in CallsOf[t], OnTheWay(r, n, keys)
  PROVE  /\ Anew(t, Walking(r, n, keys), r, n)
         /\ Walking(r, n, keys).rest = keys /\ Walking(r, n, keys).pc = "look"
<1> DEFINE x == Walking(r, n, keys)
<1>1. x \in Locals
  BY DEF Walking, Locals, Stages
<1>2. /\ x.pc = "look" /\ x.node = n /\ x.rest = keys /\ x.call = r.call /\ x.array = r.array
      /\ x.fresh = NoNode /\ x.seen = NoEntry
      /\ x.old = r.old /\ x.child = r.child /\ x.prev = r.prev
  BY DEF Walking, Locals
<1> HIDE DEF x
<1>3. OnTheWay(x, x.node, x.rest) /\ ~Fills(x)
  BY <1>2 DEF OnTheWay, WantedAt, Fills
<1>4. keys # <<>> /\ (x.array => x.call.op = "EmplaceToArray" /\ x.rest = <<Last(x.call.path)>>)
  BY <1>3, <1>2 DEF OnTheWay
<1>5. Directed(t, x)
  BY <1>1, <1>2, <1>3, <1>4 DEF Directed
<1> QED
  BY <1>2, <1>5 DEF x, Anew, Simple

(* At the end of the way. *)
LEMMA AtEndDirected ==
  ASSUME NEW t \in Threads, NEW r \in Locals, NEW n \in Nodes, r.call \in CallsOf[t],
         r.call.op # "NodeGet", ~r.array, Len(r.call.path) = 1 => n = Root
  PROVE  /\ Anew(t, AtEnd(r, n), r, n)
         /\ AtEnd(r, n).pc \in {"apply", "existed"}
<1> DEFINE x == AtEnd(r, n)
<1>1. <<Last(r.call.path)>> \in Seq(Keys) /\ <<Last(r.call.path)>> # <<>>
  BY CallFacts, Ends
<1>2. x \in Locals
  BY <1>1, ZenonT(40) DEF AtEnd, Locals, Stages
<1>3. /\ x.pc = (IF r.call.op = "EmplaceToArray" THEN "existed" ELSE "apply")
      /\ x.node = n /\ x.rest = <<Last(r.call.path)>> /\ x.call = r.call
  BY DEF AtEnd, Locals
<1>4. /\ x.fresh = NoNode /\ x.seen = NoEntry /\ x.array = r.array
      /\ x.old = r.old /\ x.child = r.child /\ x.prev = r.prev
  BY DEF AtEnd, Locals
<1> HIDE DEF x
<1>5. ~Walks(x) /\ ~Fills(x) /\ x.array = FALSE
  BY <1>2, <1>3, <1>4 DEF Walks, Fills, Locals
<1>6. Directed(t, x)
  BY <1>1, <1>2, <1>3, <1>4, <1>5 DEF Directed
<1> QED
  BY <1>3, <1>4, <1>6 DEF x, Anew, Simple

LEMMA WithArrayDirected ==
  ASSUME NEW t \in Threads, NEW r, Directed(t, r), Walks(r), r.array, NEW n \in Nodes
  PROVE  /\ Anew(t, WithArray(r, n), r, n)
         /\ WithArray(r, n).pc = (IF r.old \in {NoEntry, n} THEN "append" ELSE "keepOld")
         /\ WithArray(r, n).rest = r.rest
<1> DEFINE x == WithArray(r, n)
<1>1. r \in Locals /\ r.pc # "idle"
  BY DEF Directed, Walks
<1>2. x \in Locals
  <2> DEFINE pc == IF r.old \in {NoEntry, n} THEN "append" ELSE "keepOld"
  <2>1. pc \in Stages
    BY DEF Stages
  <2>2. x = [r EXCEPT !.node = n, !.fresh = NoNode, !.seen = NoEntry, !.pc = pc]
    BY DEF WithArray
  <2> HIDE DEF pc
  <2> QED
    BY <1>1, <2>1, <2>2 DEF Locals
<1>3. /\ x.pc = (IF r.old \in {NoEntry, n} THEN "append" ELSE "keepOld")
      /\ x.node = n /\ x.rest = r.rest /\ x.call = r.call
      /\ x.fresh = NoNode /\ x.seen = NoEntry
  BY <1>1 DEF WithArray, Locals
<1>4. x.array = r.array /\ x.old = r.old /\ x.child = r.child /\ x.prev = r.prev
  BY <1>1 DEF WithArray, Locals
<1> HIDE DEF x
<1>5. ~Walks(x) /\ x.array
  BY <1>3, <1>4 DEF Walks
<1>6. Directed(t, x)
  BY <1>1, <1>2, <1>3, <1>4, <1>5 DEF Directed
<1> QED
  BY <1>3, <1>4, <1>6 DEF x, Anew, Simple

LEMMA StartedDirected ==
  ASSUME NEW t \in Threads, NEW c \in CallsOf[t]
  PROVE  Anew(t, Started(c), Idle, Root)
<1> DEFINE r == [Idle EXCEPT !.call = c]
           way == IF c.op = "NodeGet" THEN c.path ELSE Front(c.path)
           n == Len(c.path)
<1>1. /\ c \in Calls /\ c.path \in Seq(Keys) /\ c.path # <<>> /\ Agrees(c)
      /\ c.op = "NodeGet" => c.type \in {"Map", "Array", "Any"}
  BY CallFacts
<1>2. /\ n \in Nat \ {0} /\ Front(c.path) \in Seq(Keys) /\ Len(Front(c.path)) = n - 1
      /\ \A i \in 1 .. n - 1 : Front(c.path)[i] = c.path[i]
      /\ Front(c.path) = <<>> <=> n = 1
  BY <1>1, Ends
<1>3. /\ r \in Locals /\ r.call = c /\ r.array = Idle.array /\ Idle.array = FALSE
      /\ r.old = Idle.old /\ r.child = Idle.child /\ r.prev = Idle.prev
  <2>1. Idle \in Locals
    BY IdleDirected DEF Directed
  <2>2. r \in Locals
    BY <1>1, <2>1 DEF Locals
  <2>3. /\ r.call = c /\ r.array = Idle.array /\ Idle.array = FALSE
        /\ r.old = Idle.old /\ r.child = Idle.child /\ r.prev = Idle.prev
    BY DEF Idle
  <2> QED
    BY <2>2, <2>3
<1>4. Root \in Nodes
  BY ValuesAssumption
<1>5. Started(c) = IF way = <<>> THEN AtEnd(r, Root) ELSE Walking(r, Root, way)
  BY DEF Started
<1> HIDE DEF r
<1>6. CASE way = <<>>
  <2>1. r.call \in CallsOf[t] /\ r.call.op # "NodeGet" /\ ~r.array
    BY <1>1, <1>3, <1>6
  <2>2. Anew(t, AtEnd(r, Root), r, Root)
    BY <1>3, <1>4, <2>1, AtEndDirected
  <2> QED
    BY <1>3, <1>5, <1>6, <2>2 DEF Anew
<1>7. CASE way # <<>>
  <2>1. way \in Seq(Keys)
    BY <1>1, <1>2
  <2>2. c.op # "NodeGet" => n > 1
    BY <1>2, <1>7, OneOrMore
  <2>3. ASSUME NEW i \in 1 .. Len(way), way[i] \in Kept
        PROVE  KindAt[way[i]] = WantedAt(r, way, i)
    <3>1. CASE c.op = "NodeGet" /\ i = n
      BY <1>1, <1>2, <1>3, <2>3, <3>1 DEF Agrees, WantedAt
    <3>2. CASE c.op = "NodeGet" /\ i # n
      <4>1. i \in 1 .. n - 1
        BY <1>2, <3>2
      <4> QED
        BY <1>1, <1>3, <2>3, <3>2, <4>1 DEF Agrees, WantedAt
    <3>3. CASE c.op # "NodeGet"
      <4>1. i \in 1 .. n - 1 /\ way[i] = c.path[i]
        BY <1>2, <3>3
      <4> QED
        BY <1>1, <1>3, <2>3, <3>3, <4>1 DEF Agrees, WantedAt
    <3> QED
      BY <3>1, <3>2, <3>3
  <2> HIDE DEF way
  <2>4. r.call \in CallsOf[t] /\ OnTheWay(r, Root, way)
    BY <1>3, <1>7, <2>2, <2>3 DEF OnTheWay
  <2>5. Anew(t, Walking(r, Root, way), r, Root)
    BY <1>3, <1>4, <2>1, <2>4, WalkingDirected
  <2> QED
    BY <1>3, <1>5, <1>7, <2>5 DEF Anew
<1> QED
  BY <1>6, <1>7

(* The steps of a thread within its call. *)
Seeing(r, v) == [r EXCEPT !.seen = v, !.pc = "test"]
Trying(r, n) == [r EXCEPT !.fresh = n, !.pc = "exchange"]
Retrying(r) == [r EXCEPT !.pc = "exchange"]
Leaving(r, p) == [r EXCEPT !.pc = "leave", !.prev = p]
HavingLeft(r) == [r EXCEPT !.prev = NoNode]
Appending(r) == [r EXCEPT !.pc = "append"]
MovingOld(r) == [r EXCEPT !.pc = "link", !.child = r.old, !.then = "append"]
Orphaning(r, v) == [r EXCEPT !.pc = "orphan", !.child = v]
Detaching(r, v) == [r EXCEPT !.pc = "link", !.child = v, !.then = "return"]
Remembering(r, v) == Walking([r EXCEPT !.old = v, !.array = TRUE], Root, r.rest)

(* What stays of a thread that is within a call. *)
Same(x, r) ==
  /\ x.call = r.call /\ x.node = r.node /\ x.rest = r.rest /\ x.array = r.array /\ x.old = r.old

LEMMA SameKey ==
  ASSUME NEW x, NEW r, Same(x, r), x.pc # "idle", r.pc # "idle"
  PROVE  Key(x) = Key(r) /\ (AtKept(x) <=> AtKept(r)) /\ Want(x) = Want(r)
  BY DEF Same, Key, AtKept, Want

(* Within NodeGetByKey. *)
LEMMA WalkDirected ==
  ASSUME NEW t, NEW r, Directed(t, r), Walks(r), NEW x \in Locals, Same(x, r),
         \/ x.pc \in {"test", "exchange"}
         \/ x.pc \in {"link", "leave"} /\ x.then = "arrive" /\ x.child = x.fresh,
         x.pc \in {"exchange", "link", "leave"} => x.fresh # NoNode
  PROVE  Directed(t, x)
<1>1. r.pc # "idle" /\ x.pc # "idle" /\ Walks(x) /\ ~Fills(x)
  BY DEF Walks, Fills
<1>2. OnTheWay(x, x.node, x.rest) <=> OnTheWay(r, r.node, r.rest)
  BY DEF Same, OnTheWay, WantedAt
<1> QED
  BY <1>1, <1>2 DEF Directed, Same

LEMMA SeesDirected ==
  ASSUME NEW t, NEW r, Directed(t, r), r.pc \in {"look", "exchange"},
         NEW v \in Values \cup {NoEntry}
  PROVE  LET x == Seeing(r, v) IN
         /\ Directed(t, x) /\ Same(x, r)
         /\ x.pc = "test" /\ x.seen = v /\ x.fresh = r.fresh /\ x.child = r.child /\ x.prev = r.prev
<1> DEFINE x == Seeing(r, v)
<1>1. r \in Locals /\ Walks(r)
  BY DEF Directed, Walks
<1>2. x \in Locals
  BY <1>1 DEF Seeing, Locals, Stages
<1>3. /\ Same(x, r)
      /\ x.pc = "test" /\ x.seen = v /\ x.fresh = r.fresh /\ x.child = r.child /\ x.prev = r.prev
  BY <1>1 DEF Seeing, Locals, Same
<1> HIDE DEF x
<1>4. Directed(t, x)
  BY <1>1, <1>2, <1>3, WalkDirected
<1> QED
  BY <1>3, <1>4 DEF x

LEMMA TriesDirected ==
  ASSUME NEW t, NEW r, Directed(t, r), r.pc = "test", NEW n \in Nodes,
         NoNode \notin Nodes
  PROVE  LET x == Trying(r, n) IN
         /\ Directed(t, x) /\ Same(x, r)
         /\ x.pc = "exchange" /\ x.seen = r.seen /\ x.fresh = n /\ x.child = r.child /\ x.prev = r.prev
<1> DEFINE x == Trying(r, n)
<1>1. r \in Locals /\ Walks(r)
  BY DEF Directed, Walks
<1>2. x \in Locals
  BY <1>1 DEF Trying, Locals, Stages
<1>3. /\ Same(x, r)
      /\ x.pc = "exchange" /\ x.seen = r.seen /\ x.fresh = n /\ x.child = r.child /\ x.prev = r.prev
  BY <1>1 DEF Trying, Locals, Same
<1> HIDE DEF x
<1>4. Directed(t, x)
  BY <1>1, <1>2, <1>3, WalkDirected
<1> QED
  BY <1>3, <1>4 DEF x

LEMMA RetriesDirected ==
  ASSUME NEW t, NEW r, Directed(t, r), r.pc = "test", r.fresh # NoNode
  PROVE  LET x == Retrying(r) IN
         /\ Directed(t, x) /\ Same(x, r)
         /\ x.pc = "exchange" /\ x.seen = r.seen /\ x.fresh = r.fresh
         /\ x.child = r.child /\ x.prev = r.prev
<1> DEFINE x == Retrying(r)
<1>1. r \in Locals /\ Walks(r)
  BY DEF Directed, Walks
<1>2. x \in Locals
  BY <1>1 DEF Retrying, Locals, Stages
<1>3. /\ Same(x, r)
      /\ x.pc = "exchange" /\ x.seen = r.seen /\ x.fresh = r.fresh /\ x.child = r.child
      /\ x.prev = r.prev
  BY <1>1 DEF Retrying, Locals, Same
<1> HIDE DEF x
<1>4. Directed(t, x)
  BY <1>1, <1>2, <1>3, WalkDirected
<1> QED
  BY <1>3, <1>4 DEF x

LEMMA AttachingDirected ==
  ASSUME NEW t, NEW r, Directed(t, r), r.pc = "exchange"
  PROVE  LET x == Attaching(r) IN
         /\ Directed(t, x) /\ Same(x, r)
         /\ x.pc = "link" /\ x.then = "arrive" /\ x.child = r.fresh /\ x.fresh = r.fresh
         /\ x.seen = r.seen /\ x.prev = r.prev
<1> DEFINE x == Attaching(r)
<1>1. r \in Locals /\ Walks(r) /\ r.fresh # NoNode
  BY DEF Directed, Walks
<1>2. x \in Locals
  BY <1>1 DEF Attaching, Locals, Stages
<1>3. /\ Same(x, r)
      /\ x.pc = "link" /\ x.then = "arrive" /\ x.child = r.fresh /\ x.fresh = r.fresh
      /\ x.seen = r.seen /\ x.prev = r.prev
  BY <1>1 DEF Attaching, Locals, Same
<1> HIDE DEF x
<1>4. Directed(t, x)
  BY <1>1, <1>2, <1>3, WalkDirected
<1> QED
  BY <1>3, <1>4 DEF x

(* A child that has a parent to leave, and the one that has left it. *)
LEMMA LeavesDirected ==
  ASSUME NEW t, NEW r, Directed(t, r), r.pc = "link", NEW p \in Nodes
  PROVE  LET x == Leaving(r, p) IN
         /\ Directed(t, x) /\ Same(x, r)
         /\ x.pc = "leave" /\ x.prev = p /\ x.then = r.then /\ x.child = r.child /\ x.fresh = r.fresh
         /\ x.seen = r.seen
<1> DEFINE x == Leaving(r, p)
<1>1. r \in Locals
  BY DEF Directed
<1>2. x \in Locals
  BY <1>1 DEF Leaving, Locals, Stages
<1>3. /\ Same(x, r)
      /\ x.pc = "leave" /\ x.prev = p /\ x.then = r.then /\ x.child = r.child /\ x.fresh = r.fresh
      /\ x.seen = r.seen
  BY <1>1 DEF Leaving, Locals, Same
<1> HIDE DEF x
<1>4. /\ (Walks(x) <=> Walks(r)) /\ (Fills(x) <=> Fills(r))
      /\ OnTheWay(x, x.node, x.rest) <=> OnTheWay(r, r.node, r.rest)
  BY <1>3 DEF Walks, Fills, OnTheWay, WantedAt, Same
<1>5. Directed(t, x)
  BY <1>2, <1>3, <1>4 DEF Directed, Same
<1> QED
  BY <1>3, <1>5 DEF x

LEMMA HasLeftDirected ==
  ASSUME NEW t, NEW r, Directed(t, r), r.pc = "leave"
  PROVE  LET x == HavingLeft(r) IN
         /\ Directed(t, x) /\ Same(x, r)
         /\ x.pc = "leave" /\ x.prev = NoNode /\ x.then = r.then /\ x.child = r.child
         /\ x.fresh = r.fresh /\ x.seen = r.seen
<1> DEFINE x == HavingLeft(r)
<1>1. r \in Locals
  BY DEF Directed
<1>2. x \in Locals
  BY <1>1 DEF HavingLeft, Locals, Stages
<1>3. /\ Same(x, r)
      /\ x.pc = "leave" /\ x.prev = NoNode /\ x.then = r.then /\ x.child = r.child
      /\ x.fresh = r.fresh /\ x.seen = r.seen
  BY <1>1 DEF HavingLeft, Locals, Same
<1> HIDE DEF x
<1>4. /\ (Walks(x) <=> Walks(r)) /\ (Fills(x) <=> Fills(r))
      /\ OnTheWay(x, x.node, x.rest) <=> OnTheWay(r, r.node, r.rest)
  BY <1>3 DEF Walks, Fills, OnTheWay, WantedAt, Same
<1>5. Directed(t, x)
  BY <1>2, <1>3, <1>4 DEF Directed, Same
<1> QED
  BY <1>3, <1>5 DEF x

(* In its array. *)
LEMMA AppendsDirected ==
  ASSUME NEW t, NEW r, Directed(t, r), Fills(r), r.pc # "idle"
  PROVE  LET x == Appending(r) IN
         /\ Directed(t, x) /\ Same(x, r)
         /\ x.pc = "append" /\ x.fresh = NoNode /\ x.seen = r.seen /\ x.child = r.child
         /\ x.prev = r.prev
<1> DEFINE x == Appending(r)
<1>1. r \in Locals /\ ~Walks(r) /\ r.fresh = NoNode
  BY DEF Directed, Fills, Walks
<1>2. x \in Locals
  BY <1>1 DEF Appending, Locals, Stages
<1>3. /\ Same(x, r)
      /\ x.pc = "append" /\ x.fresh = NoNode /\ x.seen = r.seen /\ x.child = r.child
      /\ x.prev = r.prev
  BY <1>1 DEF Appending, Locals, Same
<1> HIDE DEF x
<1>4. Directed(t, x)
  BY <1>2, <1>3 DEF Directed, Same, Walks, Fills
<1> QED
  BY <1>3, <1>4 DEF x

LEMMA MovesOldDirected ==
  ASSUME NEW t, NEW r, Directed(t, r), r.pc = "keepOld", r.old \in Nodes, NoNode \notin Nodes
  PROVE  LET x == MovingOld(r) IN
         /\ Directed(t, x) /\ Same(x, r)
         /\ x.pc = "link" /\ x.then = "append" /\ x.child = r.old /\ x.fresh = NoNode
         /\ x.seen = r.seen /\ x.prev = r.prev
<1> DEFINE x == MovingOld(r)
<1>1. r \in Locals /\ ~Walks(r) /\ Fills(r) /\ r.fresh = NoNode
  BY DEF Directed, Fills, Walks
<1>2. x \in Locals
  BY <1>1, ZenonT(40) DEF MovingOld, Locals, Stages
<1>3. /\ Same(x, r)
      /\ x.pc = "link" /\ x.then = "append" /\ x.child = r.old /\ x.fresh = NoNode
      /\ x.seen = r.seen /\ x.prev = r.prev
  BY <1>1 DEF MovingOld, Locals, Same
<1> HIDE DEF x
<1>4. Directed(t, x)
  BY <1>1, <1>2, <1>3 DEF Directed, Same, Walks, Fills
<1> QED
  BY <1>3, <1>4 DEF x

(* A node that was replaced or erased. *)
LEMMA OrphanDirected ==
  ASSUME NEW t, NEW r, Directed(t, r), r.pc = "apply", NEW v \in Nodes, NoNode \notin Nodes
  PROVE  LET x == Orphaning(r, v) IN
         /\ Directed(t, x) /\ Same(x, r)
         /\ x.pc = "orphan" /\ x.child = v /\ x.fresh = NoNode /\ x.seen = r.seen /\ x.prev = r.prev
<1> DEFINE x == Orphaning(r, v)
<1>1. r \in Locals /\ ~Walks(r) /\ ~Fills(r) /\ r.fresh = NoNode /\ ~r.array
  BY DEF Directed, Fills, Walks
<1>2. x \in Locals
  BY <1>1, ZenonT(40) DEF Orphaning, Locals, Stages
<1>3. /\ Same(x, r)
      /\ x.pc = "orphan" /\ x.child = v /\ x.fresh = NoNode /\ x.seen = r.seen /\ x.prev = r.prev
  BY <1>1 DEF Orphaning, Locals, Same
<1> HIDE DEF x
<1>4. Directed(t, x)
  BY <1>1, <1>2, <1>3 DEF Directed, Same, Walks, Fills
<1> QED
  BY <1>3, <1>4 DEF x

LEMMA DetachesDirected ==
  ASSUME NEW t, NEW r, Directed(t, r), r.pc = "apply", NEW v \in Nodes, NoNode \notin Nodes
  PROVE  LET x == Detaching(r, v) IN
         /\ Directed(t, x) /\ Same(x, r)
         /\ x.pc = "link" /\ x.then = "return" /\ x.child = v /\ x.fresh = NoNode
         /\ x.seen = r.seen /\ x.prev = r.prev
<1> DEFINE x == Detaching(r, v)
<1>1. r \in Locals /\ ~Walks(r) /\ ~Fills(r) /\ r.fresh = NoNode /\ ~r.array
  BY DEF Directed, Fills, Walks
<1>2. x \in Locals
  BY <1>1, ZenonT(40) DEF Detaching, Locals, Stages
<1>3. /\ Same(x, r)
      /\ x.pc = "link" /\ x.then = "return" /\ x.child = v /\ x.fresh = NoNode
      /\ x.seen = r.seen /\ x.prev = r.prev
  BY <1>1 DEF Detaching, Locals, Same
<1> HIDE DEF x
<1>4. Directed(t, x)
  BY <1>1, <1>2, <1>3 DEF Directed, Same, Walks, Fills
<1> QED
  BY <1>3, <1>4 DEF x

(* EmplaceToArray has read the value under the last key. *)
LEMMA RemembersDirected ==
  ASSUME NEW t \in Threads, NEW r, Directed(t, r), r.pc = "existed", NEW v \in Values \cup {NoEntry}
  PROVE  LET x == Remembering(r, v) IN
         /\ Directed(t, x) /\ Simple(x) /\ x.seen = NoEntry
         /\ x.pc = "look" /\ x.node = Root /\ x.rest = r.rest /\ x.array /\ x.old = v
         /\ x.child = r.child /\ x.prev = r.prev
<1> DEFINE y == [r EXCEPT !.old = v, !.array = TRUE]
           x == Walking(y, Root, r.rest)
<1>1. /\ r \in Locals /\ r.call \in CallsOf[t] /\ r.rest # <<>> /\ r.rest = <<Last(r.call.path)>>
      /\ r.call.op = "EmplaceToArray" /\ Root \in Nodes
  BY ValuesAssumption DEF Directed
<1>2. y \in Locals
  BY <1>1 DEF Locals
<1>3. y.call = r.call /\ y.array = TRUE /\ y.old = v /\ y.child = r.child /\ y.prev = r.prev
  BY <1>1 DEF Locals
<1>4. r.rest \in Seq(Keys)
  BY <1>1 DEF Locals
<1> HIDE DEF y
<1>5. y.call \in CallsOf[t] /\ OnTheWay(y, Root, r.rest)
  BY <1>1, <1>3 DEF OnTheWay
<1>6. Anew(t, x, y, Root) /\ x.rest = r.rest /\ x.pc = "look"
  BY <1>1, <1>2, <1>4, <1>5, WalkingDirected, ZenonT(40)
<1> QED
  BY <1>3, <1>6 DEF y, Anew, Remembering

-----------------------------------------------------------------------------
(* Where a thread goes that has the node for its key. *)

Arrived(r, n) ==
  IF r.array THEN WithArray(r, n)
  ELSE IF Len(r.rest) > 1 THEN Walking(r, n, Tail(r.rest))
  ELSE IF r.call.op # "NodeGet" THEN AtEnd(r, n)
  ELSE Returned

LEMMA ArrivedDirected ==
  ASSUME NEW t \in Threads, NEW r, Directed(t, r), Walks(r), NEW n \in Nodes
  PROVE  /\ Arrived(r, n) = Idle \/ Anew(t, Arrived(r, n), r, n)
         /\ r.array => /\ Anew(t, Arrived(r, n), r, n)
                       /\ Arrived(r, n).rest = r.rest
                       /\ Arrived(r, n).pc = (IF r.old \in {NoEntry, n} THEN "append" ELSE "keepOld")
<1> DEFINE x == Arrived(r, n)
<1>1. /\ r \in Locals /\ r.pc # "idle" /\ r.call \in CallsOf[t] /\ r.rest # <<>>
      /\ r.rest \in Seq(Keys) /\ r.array \in BOOLEAN
  BY DEF Directed, Walks, Locals
<1>2. CASE r.array
  BY <1>2, WithArrayDirected DEF Arrived
<1>3. CASE ~r.array /\ Len(r.rest) > 1
  <2> DEFINE keys == Tail(r.rest)
  <2>1. x = Walking(r, n, keys)
    BY <1>3 DEF Arrived
  <2>2. /\ keys \in Seq(Keys) /\ Len(r.rest) \in Nat \ {0} /\ Len(keys) = Len(r.rest) - 1
        /\ \A i \in 1 .. Len(r.rest) - 1 : keys[i] = r.rest[i + 1]
    BY <1>1, Ends
  <2> HIDE DEF keys
  <2>3. keys # <<>>
    BY <1>3, <2>2
  <2>4. /\ \A i \in 1 .. Len(r.rest) :
               r.rest[i] \in Kept => KindAt[r.rest[i]] = WantedAt(r, r.rest, i)
        /\ r.call.op # "NodeGet" => Len(r.call.path) > 1
    BY <1>3 DEF Directed, OnTheWay
  <2>5. ASSUME NEW i \in 1 .. Len(keys), keys[i] \in Kept
        PROVE  KindAt[keys[i]] = WantedAt(r, keys, i)
    <3>1. i + 1 \in 1 .. Len(r.rest) /\ keys[i] = r.rest[i + 1] /\ (i = Len(keys) <=> i + 1 = Len(r.rest))
      BY <2>2
    <3>2. KindAt[keys[i]] = WantedAt(r, r.rest, i + 1)
      BY <2>4, <2>5, <3>1
    <3> QED
      BY <3>1, <3>2 DEF WantedAt
  <2>6. OnTheWay(r, n, keys)
    BY <1>3, <2>3, <2>4, <2>5 DEF OnTheWay
  <2>7. Anew(t, Walking(r, n, keys), r, n)
    BY <1>1, <2>2, <2>6, WalkingDirected
  <2> QED
    BY <1>3, <2>1, <2>7
<1>4. CASE ~r.array /\ ~(Len(r.rest) > 1) /\ r.call.op # "NodeGet"
  <2>1. x = AtEnd(r, n)
    BY <1>4 DEF Arrived
  <2>2. Len(r.call.path) > 1 /\ Len(r.call.path) \in Nat \ {0}
    <3>1. Len(r.call.path) > 1
      BY <1>4 DEF Directed, OnTheWay
    <3>2. r.call.path \in Seq(Keys) /\ r.call.path # <<>>
      BY <1>1, CallFacts
    <3> QED
      BY <3>1, <3>2, Ends
  <2>3. ~(Len(r.call.path) = 1)
    BY <2>2, OneOrMore
  <2>4. Anew(t, AtEnd(r, n), r, n)
    BY <1>1, <1>4, <2>3, AtEndDirected
  <2> QED
    BY <1>4, <2>1, <2>4
<1>5. CASE ~r.array /\ ~(Len(r.rest) > 1) /\ r.call.op = "NodeGet"
  BY <1>5 DEF Arrived, Returned
<1> QED
  BY <1>2, <1>3, <1>4, <1>5

-----------------------------------------------------------------------------
(* What a step of thread t may do to the tree, r being the locals it has   *)
(* and x those it will have.                                               *)

(* A node under a kept key stays there, anything else until a node is put  *)
(* in its place.                                                           *)
Lasts ==
  \A n \in Nodes, k \in Kept :
    entry'[n][k] = entry[n][k] \/ (entry[n][k] \notin Nodes /\ entry'[n][k] \in Nodes)

Steady ==
  /\ born \subseteq born'
  /\ \A n \in born : kind'[n] = kind[n]
  /\ Lasts

(* The only node that is put under a key is one just made for that key. *)
Puts(r, x, n, k) ==
  /\ r.pc = "exchange" /\ n = r.node /\ k = Key(r) /\ entry'[n][k] = r.fresh
  /\ x.pc = "link" /\ x.then = "arrive" /\ x.fresh = r.fresh /\ Same(x, r)

Stores(r, x) ==
  \A n \in Nodes, k \in Keys :
    entry'[n][k] \in Nodes => entry'[n][k] = entry[n][k] \/ Puts(r, x, n, k)

Links(r) == r.pc = "link" /\ r.then = "arrive" /\ AtKept(r)

(* Parent and name change for nodes of free keys, and for the node that is *)
(* linked under its kept key.                                              *)
Relates(r) ==
  /\ \A c \in Nodes :
       \/ parent'[c] = parent[c] /\ name'[c] = name[c]
       \/ Moves(r, c) /\ name'[c] \notin Kept
       \/ Links(r) /\ c = r.fresh
  /\ Links(r) => parent'[r.fresh] = r.node /\ name'[r.fresh] = Key(r)

Picks(r, x) ==
  /\ \/ x.fresh = NoNode
     \/ x.fresh = r.fresh /\ (AtKept(x) <=> AtKept(r))
     \/ x.fresh \in Nodes \ born
  /\ \A c \in Nodes : Moves(x, c) =>
       \/ Moves(r, c)
       \/ c \notin born /\ c = x.fresh /\ ~AtKept(x)
       \/ \E n \in Nodes, k \in Keys \ Kept : entry[n][k] = c

Hands ==
  \A n \in Nodes, k \in Kept :
    \/ handed'[n][k] = handed[n][k]
    \/ n \in born /\ kind[n] # "Map"
    \/ entry'[n][k] \in Nodes /\ handed'[n][k] = handed[n][k] \cup {entry'[n][k]}

OnlyBorn ==
  \A n \in Nodes \ born :
    /\ parent'[n] = parent[n] /\ name'[n] = name[n]
    /\ \A k \in Keys : entry'[n][k] = entry[n][k]
    /\ \A k \in Kept : handed'[n][k] = handed[n][k]

Careful(t, x) ==
  /\ run' = [run EXCEPT ![t] = x]
  /\ Directed(t, x)
  /\ Steady /\ Stores(run[t], x) /\ Relates(run[t]) /\ Picks(run[t], x) /\ Hands /\ OnlyBorn

Cautious(t) == \E x : Careful(t, x)

LEMMA Where ==
  ASSUME Inv, NEW u \in Threads
  PROVE  /\ run[u] \in Locals /\ Directed(u, run[u]) /\ Knows(run[u]) /\ CarriesBorn(run[u])
         /\ run[u].pc # "idle" => /\ run[u].node \in Nodes /\ run[u].node \in born
                                  /\ run[u].rest # <<>> /\ Key(run[u]) \in Keys
         /\ NoNode \notin Nodes /\ NoEntry \notin Nodes /\ born \subseteq Nodes /\ Root \in Nodes
<1>1. /\ run[u] \in Locals /\ Directed(u, run[u]) /\ Knows(run[u]) /\ CarriesBorn(run[u])
      /\ NoNode \notin Nodes /\ NoEntry \notin Nodes /\ born \subseteq Nodes /\ Root \in Nodes
  BY ValuesAssumption DEF Inv, Shape, Knows
<1>2. ASSUME run[u].pc # "idle"
      PROVE  run[u].node \in Nodes /\ run[u].node \in born /\ run[u].rest # <<>>
  BY <1>1, <1>2 DEF Directed, CarriesBorn
<1>3. ASSUME run[u].pc # "idle"
      PROVE  Key(run[u]) \in Keys
  BY <1>1, <1>2, <1>3, AtKeys
<1> QED
  BY <1>1, <1>2, <1>3

(* A node that has not been created is nowhere. *)
LEMMA UnbornUnused ==
  ASSUME Inv, NEW c \in Nodes \ born
  PROVE  ~KeptUse(c) /\ ~FreeUse(c) /\ \A u \in Threads : run[u].fresh # c
<1>1. \A n \in Nodes, k \in Keys : entry[n][k] # c
  BY ValuesAssumption DEF Inv, Shape
<1>2. name[c] \notin Kept
  BY ValuesAssumption, KeptAssumption DEF Inv, Unborn
<1>3. \A u \in Threads : {run[u].fresh, run[u].child, run[u].old} \cap {c} = {}
  <2> TAKE u \in Threads
  <2>1. CarriesBorn(run[u]) /\ NoNode \notin Nodes
    BY Where
  <2> QED
    BY <2>1 DEF CarriesBorn
<1>4. \A u \in Threads : ~Moves(run[u], c)
  BY <1>3 DEF Moves
<1> QED
  BY <1>1, <1>2, <1>3, <1>4, KeptAssumption DEF KeptUse, FreeUse

LEMMA KeptFresh ==
  ASSUME Inv, NEW u \in Threads, AtKept(run[u])
  PROVE  KeptUse(run[u].fresh) /\ \A v \in Threads : run[u].fresh \in Nodes => ~Moves(run[v], run[u].fresh)
BY DEF KeptUse, Inv, Apart, FreeUse

(* What another thread knows of the tree stays true. *)
LEMMA OthersKnow ==
  ASSUME Inv, NEW t \in Threads, NEW x, Careful(t, x), NEW u \in Threads \ {t}, NEW r, r = run[u]
  PROVE  run'[u] = r /\ Knows(r)'
<1>1. run'[u] = r
  BY DEF Careful, Inv, Shape
<1>2. /\ r \in Locals /\ Directed(u, r) /\ Knows(r) /\ CarriesBorn(r)
      /\ r.pc # "idle" => /\ r.node \in Nodes /\ r.node \in born
                          /\ r.rest # <<>> /\ Key(r) \in Keys
      /\ NoNode \notin Nodes /\ born \subseteq Nodes /\ Root \in Nodes
  BY Where
<1>3. CarriesBorn(r)'
  BY <1>1, <1>2 DEF CarriesBorn, Careful, Steady, Lasts
<1>4. (~Fits(r.seen, Want(r)) => ~Fits(r.seen, Want(r))') /\ (r.prev \in born => r.prev \in born')
  BY <1>1, <1>2 DEF Fits, Want, CarriesBorn, Careful, Steady, Lasts
<1>5. ASSUME AtKept(r), r.fresh # NoNode
      PROVE  /\ r.fresh \in born /\ kind'[r.fresh] = kind[r.fresh] /\ parent'[r.fresh] = parent[r.fresh]
             /\ \A n \in Nodes, k \in Keys : entry'[n][k] = r.fresh => entry[n][k] = r.fresh
  <2>1. r.fresh \in born /\ r.fresh \in Nodes
    BY <1>2, <1>5 DEF CarriesBorn
  <2>2. ~Moves(run[t], r.fresh) /\ r.fresh # run[t].fresh
    BY <1>5, <2>1, KeptFresh DEF Inv, FreshIsOwn
  <2>3. parent'[r.fresh] = parent[r.fresh]
    BY <2>1, <2>2 DEF Careful, Relates
  <2>4. \A n \in Nodes, k \in Keys : entry'[n][k] = r.fresh => entry[n][k] = r.fresh
    BY <2>1, <2>2 DEF Careful, Stores, Puts
  <2> QED
    BY <2>1, <2>3, <2>4 DEF Careful, Steady, Lasts
<1>6. ASSUME AtKept(r), entry[r.node][Key(r)] \in Nodes
      PROVE  entry'[r.node][Key(r)] = entry[r.node][Key(r)]
  BY <1>2, <1>6 DEF Careful, Steady, Lasts, AtKept
<1>7. ASSUME AtKept(r), entry[Root][Key(r)] \in Nodes
      PROVE  entry'[Root][Key(r)] = entry[Root][Key(r)]
  BY <1>2, <1>7 DEF Careful, Steady, Lasts, AtKept
<1>8. r.pc # "idle" => kind'[r.node] = kind[r.node]
  BY <1>2 DEF Careful, Steady, Lasts
<1>9. Knows(r)'
  <2>1. /\ CarriesBorn(r)'
        /\ r.pc = "leave" => r.prev \in born'
        /\ r.pc = "exchange" => ~Fits(r.seen, Want(r))'
        /\ r.pc = "leave" /\ r.then = "arrive" => ~AtKept(r)
    BY <1>2, <1>3, <1>4 DEF Knows
  <2>2. ASSUME AtKept(r)
        PROVE  /\ r.pc \in {"test", "exchange"} /\ r.seen \in Nodes => entry'[r.node][Key(r)] = r.seen
               /\ r.pc = "link" /\ r.then = "arrive" /\ kind'[r.node] = "Map" =>
                    entry'[r.node][Key(r)] = r.fresh
               /\ r.array /\ r.old \in Nodes =>
                    /\ r.pc \notin {"exchange", "keepOld"} /\ ~(r.pc \in {"link", "leave"})
                    /\ entry'[Root][Key(r)] = r.old
                    /\ r.pc = "test" => r.seen = r.old
    <3>1. r.pc = "link" /\ r.then = "arrive" => r.fresh \in Nodes
      BY <1>2 DEF Directed, Walks, Locals
    <3> QED
      BY <1>2, <1>6, <1>7, <1>8, <2>2, <3>1 DEF Knows, AtKept
  <2>3. ASSUME AtKept(r), r.fresh # NoNode
        PROVE  /\ r.fresh # Root
               /\ kind'[r.fresh] = KindAt[Key(r)]
               /\ parent'[r.fresh] = NoNode
               /\ \A n \in Nodes, k \in Keys : entry'[n][k] = r.fresh =>
                    r.pc = "link" /\ n = r.node /\ k = Key(r)
    BY <1>2, <1>5, <2>3 DEF Knows
  <2> QED
    BY <2>1, <2>2, <2>3 DEF Knows
<1> QED
  BY <1>1, <1>9

LEMMA RunAfter ==
  ASSUME Inv, NEW t \in Threads, NEW x, Careful(t, x)
  PROVE  run'[t] = x /\ \A u \in Threads \ {t} : run'[u] = run[u]
BY DEF Careful, Inv, Shape

LEMMA StillFresh ==
  ASSUME Inv, NEW t \in Threads, NEW x, Careful(t, x)
  PROVE  FreshIsOwn'
<1>1. ASSUME NEW u \in Threads \ {t}, x.fresh # NoNode
      PROVE  x.fresh # run[u].fresh
  BY <1>1, UnbornUnused DEF Careful, Picks, Inv, FreshIsOwn
<1> QED
  BY <1>1, RunAfter DEF Inv, FreshIsOwn

(* Only a node just made comes to stand for a kept key. *)
LEMMA KeptUseBack ==
  ASSUME Inv, NEW t \in Threads, NEW x, Careful(t, x), NEW c \in Nodes, KeptUse(c)'
  PROVE  KeptUse(c) \/ (c \notin born /\ c = x.fresh /\ AtKept(x))
<1> DEFINE r == run[t]
<1>1. /\ run'[t] = x /\ \A u \in Threads \ {t} : run'[u] = run[u]
      /\ \A u \in Threads : CarriesBorn(run[u])
      /\ r.pc # "idle" => r.node \in Nodes /\ Key(r) \in Keys
      /\ NoNode \notin Nodes /\ born \subseteq Nodes
  BY RunAfter, Where
<1>2. ASSUME NEW n \in Nodes, NEW k \in Kept, entry'[n][k] = c, entry[n][k] # c
      PROVE  r.fresh = c /\ AtKept(r)
  BY <1>1, <1>2, KeptAssumption DEF Careful, Stores, Puts, AtKept
<1>3. ASSUME name'[c] \in Kept, name[c] # name'[c]
      PROVE  r.fresh = c /\ AtKept(r)
  BY <1>3 DEF Careful, Relates, Links
<1>4. ASSUME NEW u \in Threads, run'[u].fresh = c, AtKept(run'[u])
      PROVE  KeptUse(c) \/ (c \notin born /\ c = x.fresh /\ AtKept(x))
  <2>1. CASE u # t
    BY <1>1, <1>4, <2>1 DEF KeptUse
  <2>2. CASE u = t
    BY <1>1, <1>4, <2>2 DEF KeptUse, Careful, Picks
  <2> QED
    BY <2>1, <2>2
<1>5. \/ \E n \in Nodes, k \in Kept : entry'[n][k] = c
      \/ name'[c] \in Kept
      \/ \E u \in Threads : run'[u].fresh = c /\ AtKept(run'[u])
  BY DEF KeptUse, AtKept, Key
<1> QED
  BY <1>2, <1>3, <1>4, <1>5 DEF KeptUse

LEMMA StillApart ==
  ASSUME Inv, NEW t \in Threads, NEW x, Careful(t, x)
  PROVE  Apart'
<1> DEFINE r == run[t]
<1>1. /\ run'[t] = x /\ \A u \in Threads \ {t} : run'[u] = run[u]
      /\ \A u \in Threads : CarriesBorn(run[u])
      /\ r.pc # "idle" => r.node \in Nodes /\ Key(r) \in Keys
      /\ NoNode \notin Nodes /\ born \subseteq Nodes
  BY RunAfter, Where
<1>2. ASSUME NEW c \in Nodes, KeptUse(c)'
      PROVE  KeptUse(c) \/ (c \notin born /\ c = x.fresh /\ AtKept(x))
  BY <1>2, KeptUseBack
<1>3. ASSUME NEW c \in Nodes, FreeUse(c)'
      PROVE  FreeUse(c) \/ (c \notin born /\ c = x.fresh /\ ~AtKept(x))
  <2>1. ASSUME NEW n \in Nodes, NEW k \in Keys \ Kept, entry'[n][k] = c
        PROVE  FreeUse(c)
    <3>1. CASE entry[n][k] = c
      BY <3>1 DEF FreeUse
    <3>2. CASE entry[n][k] # c
      <4>1. r.fresh = c /\ ~AtKept(r) /\ r.pc # "idle"
        BY <2>1, <3>2 DEF Careful, Stores, Puts, AtKept
      <4> QED
        BY <4>1 DEF FreeUse, Moves
    <3> QED
      BY <3>1, <3>2
  <2>2. ASSUME NEW u \in Threads, Moves(run'[u], c)
        PROVE  FreeUse(c) \/ (c \notin born /\ c = x.fresh /\ ~AtKept(x))
    <3>1. CASE u # t
      BY <1>1, <2>2, <3>1 DEF FreeUse
    <3>2. CASE u = t
      <4>1. Moves(x, c)
        BY <1>1, <2>2, <3>2
      <4> QED
        BY <4>1 DEF FreeUse, Careful, Picks
    <3> QED
      BY <3>1, <3>2
  <2>3. \/ \E n \in Nodes, k \in Keys \ Kept : entry'[n][k] = c
        \/ \E u \in Threads : Moves(run'[u], c)
    BY <1>3 DEF FreeUse, Moves, AtKept, Key
  <2> QED
    BY <2>1, <2>2, <2>3
<1> SUFFICES ASSUME NEW c \in Nodes, KeptUse(c)', FreeUse(c)'
             PROVE  FALSE
  BY DEF Apart
<1>4. CASE c \in born
  BY <1>2, <1>3, <1>4 DEF Inv, Apart
<1>5. CASE c \notin born
  <2>1. ~KeptUse(c) /\ ~FreeUse(c)
    BY <1>5, UnbornUnused
  <2> QED
    BY <1>2, <1>3, <2>1
<1> QED
  BY <1>4, <1>5

LEMMA StillSettled ==
  ASSUME Inv, NEW t \in Threads, NEW x, Careful(t, x)
  PROVE  Settled'
<1> SUFFICES ASSUME NEW n \in Nodes, NEW k \in Kept, entry'[n][k] \in Nodes
             PROVE  kind'[entry'[n][k]] = KindAt[k]
  BY DEF Settled
<1>1. k \in Keys /\ NoNode \notin Nodes /\ Knows(run[t]) /\ CarriesBorn(run[t])
  BY KeptAssumption, Where
<1>2. CASE entry'[n][k] = entry[n][k]
  <2>1. entry[n][k] \in born /\ kind[entry[n][k]] = KindAt[k]
    BY <1>1, <1>2, ValuesAssumption DEF Inv, Shape, Settled
  <2> QED
    BY <1>2, <2>1 DEF Careful, Steady, Lasts
<1>3. CASE Puts(run[t], x, n, k)
  <2>1. AtKept(run[t]) /\ run[t].fresh \in Nodes /\ k = Key(run[t]) /\ entry'[n][k] = run[t].fresh
    BY <1>3 DEF Puts, AtKept
  <2>2. run[t].fresh \in born /\ kind[run[t].fresh] = KindAt[k]
    BY <1>1, <2>1 DEF Knows, CarriesBorn
  <2> QED
    BY <2>1, <2>2 DEF Careful, Steady, Lasts
<1> QED
  BY <1>1, <1>2, <1>3 DEF Careful, Stores

LEMMA StillAdopted ==
  ASSUME Inv, NEW t \in Threads, NEW x, Careful(t, x)
  PROVE  Adopted'
<1> DEFINE r == run[t]
<1> SUFFICES ASSUME NEW n \in Nodes, NEW k \in Kept, NEW c, c = entry'[n][k], c \in Nodes
             PROVE  \/ parent'[c] = n /\ name'[c] = k
                    \/ \E u \in Threads :
                         /\ run'[u].pc = "link" /\ run'[u].then = "arrive" /\ run'[u].fresh = c
                         /\ run'[u].node = n /\ Key(run'[u]) = k
  BY DEF Adopted, Key
<1>1. /\ run'[t] = x /\ \A u \in Threads \ {t} : run'[u] = run[u]
      /\ k \in Keys /\ NoNode \notin Nodes /\ Knows(r)
  BY RunAfter, KeptAssumption, Where
<1>2. CASE c = entry[n][k]
  <2>1. KeptUse(c)
    BY <1>2 DEF KeptUse
  <2>2. ~Moves(r, c)
    BY <2>1 DEF Inv, Apart, FreeUse
  <2>3. CASE Links(r) /\ c = r.fresh
    <3>1. n = r.node /\ k = Key(r)
      BY <1>1, <1>2, <2>3 DEF Knows, Links
    <3> QED
      BY <2>3, <3>1 DEF Careful, Relates
  <2>4. CASE ~(Links(r) /\ c = r.fresh)
    <3>1. parent'[c] = parent[c] /\ name'[c] = name[c]
      BY <2>2, <2>4 DEF Careful, Relates
    <3>2. CASE parent[c] = n /\ name[c] = k
      BY <3>1, <3>2
    <3>3. ASSUME NEW u \in Threads, run[u].pc = "link", run[u].then = "arrive", run[u].fresh = c,
                 run[u].node = n, Key(run[u]) = k
          PROVE  run'[u] = run[u]
      <4>1. AtKept(run[u])
        BY <3>3 DEF AtKept
      <4> QED
        BY <1>1, <2>4, <3>3, <4>1 DEF Links
    <3> QED
      BY <1>2, <3>2, <3>3 DEF Inv, Adopted
  <2> QED
    BY <2>3, <2>4
<1>3. CASE Puts(r, x, n, k)
  <2>1. /\ x.pc = "link" /\ x.then = "arrive" /\ x.fresh = c /\ x.node = n /\ x.rest = r.rest
        /\ Key(r) = k
    BY <1>3 DEF Puts, Same
  <2> QED
    BY <1>1, <2>1 DEF Key
<1> QED
  BY <1>1, <1>2, <1>3 DEF Careful, Stores

LEMMA StillUnborn ==
  ASSUME Inv, NEW t \in Threads, NEW x, Careful(t, x)
  PROVE  Unborn'
BY DEF Careful, Steady, Lasts, OnlyBorn, Inv, Unborn

LEMMA StillHanded ==
  ASSUME Inv, NEW t \in Threads, NEW x, Careful(t, x)
  PROVE  HandedStays'
<1> SUFFICES ASSUME NEW n \in Nodes, NEW k \in Kept, kind'[n] = "Map",
                    NEW c \in handed'[n][k]
             PROVE  c = entry'[n][k]
  BY DEF HandedStays
<1>1. CASE n \notin born
  BY <1>1 DEF Careful, OnlyBorn, Inv, Unborn
<1>2. CASE n \in born
  <2>1. kind[n] = "Map"
    BY <1>2 DEF Careful, Steady, Lasts
  <2>2. CASE c \in handed[n][k]
    <3>1. c = entry[n][k] /\ c \in Nodes
      BY <2>1, <2>2 DEF Inv, HandedStays, Shape
    <3> QED
      BY <3>1 DEF Careful, Steady, Lasts
  <2>3. CASE c \notin handed[n][k]
    BY <1>2, <2>1, <2>3 DEF Careful, Hands
  <2> QED
    BY <2>2, <2>3
<1> QED
  BY <1>1, <1>2

LEMMA CarefulKeeps ==
  ASSUME Inv, NEW t \in Threads, NEW x, Careful(t, x), Knows(x)', Shape'
  PROVE  Inv' /\ Cautious(t)
<1>1. \A u \in Threads : (Directed(u, run[u]) /\ Knows(run[u]))'
  <2> TAKE u \in Threads
  <2>1. CASE u = t
    <3>1. run'[u] = x /\ Directed(u, x)
      BY <2>1, RunAfter DEF Careful
    <3> QED
      BY <3>1
  <2>2. CASE u # t
    <3> DEFINE r == run[u]
    <3>1. run'[u] = r /\ Knows(r)'
      BY <2>2, OthersKnow
    <3> QED
      BY <3>1, Where
  <2> QED
    BY <2>1, <2>2
<1> QED
  <2>1. Inv'
    BY <1>1, StillFresh, StillApart, StillSettled, StillAdopted, StillUnborn, StillHanded DEF Inv
  <2> QED
    BY <2>1 DEF Cautious

-----------------------------------------------------------------------------
(* What a thread knows after its own step, r being its locals before and x *)
(* after.                                                                  *)

LEMMA SimpleKnows ==
  ASSUME NEW x, Simple(x), CarriesBorn(x)',
         AtKept(x) /\ x.array /\ x.old \in Nodes =>
           x.pc # "keepOld" /\ entry'[Root][Key(x)] = x.old
  PROVE  Knows(x)'
BY DEF Simple, Knows, AtKept, Key

LEMMA SimplePicks ==
  ASSUME NEW r, NEW x, Simple(x), NoNode \notin Nodes,
         x.pc # "idle" /\ x.array /\ x.old \in Nodes /\ ~AtKept(x) =>
           \/ r.pc # "idle" /\ ~AtKept(r) /\ r.array /\ r.old = x.old
           \/ \E n \in Nodes, k \in Keys \ Kept : entry[n][k] = x.old
  PROVE  Picks(r, x)
BY DEF Simple, Picks, Moves

(* A thread that has returned knows nothing. *)
LEMMA IdleKnows ==
  ASSUME NoNode \notin Nodes, NoEntry \notin Nodes
  PROVE  Simple(Idle) /\ CarriesBorn(Idle) /\ CarriesBorn(Idle)' /\ Idle.array = FALSE
BY DEF Idle, Simple, CarriesBorn

LEMMA ArrivedKnows ==
  ASSUME Inv, born \subseteq born',
         NEW t \in Threads, NEW r, Directed(t, r), Walks(r), CarriesBorn(r), NEW n \in born',
         n \in Nodes,
         AtKept(r) /\ r.array /\ r.old \in Nodes => r.old = n /\ entry'[Root][Key(r)] = r.old,
         NEW x, x = Arrived(r, n)
  PROVE  Directed(t, x) /\ Knows(x)' /\ Picks(r, x)
<1>1. NoNode \notin Nodes /\ NoEntry \notin Nodes
  BY Where
<1>2. CASE x = Idle
  BY <1>1, <1>2, IdleDirected, IdleKnows, SimpleKnows, SimplePicks
<1>3. CASE Anew(t, x, r, n)
  <2>1. CarriesBorn(x)'
    BY <1>1, <1>3 DEF Anew, CarriesBorn, Simple
  <2>2. ASSUME r.array
        PROVE  x.rest = r.rest /\ (x.pc = "keepOld" => r.old # n) /\ x.pc # "idle" /\ r.pc # "idle"
    BY <2>2, ArrivedDirected DEF Walks
  <2>3. AtKept(x) /\ x.array /\ x.old \in Nodes =>
          x.pc # "keepOld" /\ entry'[Root][Key(x)] = x.old
    BY <1>3, <2>2 DEF Anew, AtKept, Key
  <2>4. x.pc # "idle" /\ x.array /\ x.old \in Nodes /\ ~AtKept(x) =>
          r.pc # "idle" /\ ~AtKept(r) /\ r.array /\ r.old = x.old
    BY <1>3, <2>2 DEF Anew, AtKept, Key
  <2> QED
    BY <1>1, <1>3, <2>1, <2>3, <2>4, SimpleKnows, SimplePicks DEF Anew
<1> QED
  BY <1>2, <1>3, ArrivedDirected

(* Arrive sends the thread to Arrived, and enters the node in its history. *)
LEMMA ArriveMoves ==
  ASSUME Inv, NEW t \in Threads, NEW r, Directed(t, r), Walks(r), NEW n, Arrive(t, r, n)
  PROVE  /\ run' = [run EXCEPT ![t] = Arrived(r, n)]
         /\ handed' = Handed(r, n)
         /\ begun' = begun /\ succeeded' \in [Threads -> SUBSET Calls]
<1>1. r.call \in Calls
  BY CallFacts DEF Directed, Walks
<1>2. succeeded \in [Threads -> SUBSET Calls]
  BY DEF Inv, Shape
<1> QED
  BY <1>1, <1>2 DEF Arrive, Arrived, Goto

LEMMA HandedTyped ==
  ASSUME Inv, NEW r, r.node \in Nodes, NEW n \in born
  PROVE  /\ Handed(r, n) \in [Nodes -> [Kept -> SUBSET born]]
         /\ \A m \in Nodes, k \in Kept :
              Handed(r, n)[m][k] = handed[m][k]
                \/ (m = r.node /\ k = Key(r) /\ Handed(r, n)[m][k] = handed[m][k] \cup {n})
<1>1. handed \in [Nodes -> [Kept -> SUBSET born]]
  BY DEF Inv, Shape
<1> QED
  BY <1>1 DEF Handed

LEMMA AtFacts ==
  ASSUME Inv, NEW n \in Nodes, NEW k \in Keys
  PROVE  /\ At(n, k) \in Values \cup {NoEntry}
         /\ At(n, k) \in Nodes => At(n, k) \in born /\ entry[n][k] = At(n, k) /\ kind[n] = "Map"
         /\ kind[n] = "Map" /\ entry[n][k] \in Nodes => At(n, k) = entry[n][k]
<1>1. entry[n][k] \in born \cup Scalars \cup {Blank, NoEntry, Erased}
  BY DEF Inv, Shape
<1>2. born \subseteq Nodes /\ NoEntry \notin Nodes /\ Erased \notin Nodes /\ Blank \notin Nodes
  BY ValuesAssumption DEF Inv, Shape
<1>3. Nodes \cap Scalars = {}
  BY ValuesAssumption
<1> QED
  BY <1>1, <1>2, <1>3 DEF At, Values

-----------------------------------------------------------------------------
(* Steps that leave the tree as it is. *)

TreeStays == UNCHANGED <<kind, born, entry, list, parent, name>>

(* NodeGetByKey returns a node, or does not. *)
HandsTo(r) ==
  \/ handed' = handed
  \/ \E c \in born : /\ handed' = Handed(r, c)
                     /\ r.node \in born
                     /\ r.pc # "idle"
                     /\ AtKept(r) /\ kind[r.node] = "Map" => entry'[r.node][Key(r)] = c

LEMMA HandsToHands ==
  ASSUME Inv, NEW r, HandsTo(r)
  PROVE  /\ Hands
         /\ handed' \in [Nodes -> [Kept -> SUBSET born]]
         /\ \A n \in Nodes \ born, k \in Kept : handed'[n][k] = handed[n][k]
<1>1. born \subseteq Nodes /\ handed \in [Nodes -> [Kept -> SUBSET born]]
  BY DEF Inv, Shape
<1>2. CASE handed' = handed
  BY <1>1, <1>2 DEF Hands
<1>3. ASSUME NEW c \in born, handed' = Handed(r, c), r.node \in born, r.pc # "idle",
             AtKept(r) /\ kind[r.node] = "Map" => entry'[r.node][Key(r)] = c
      PROVE  /\ Hands
             /\ handed' \in [Nodes -> [Kept -> SUBSET born]]
             /\ \A n \in Nodes \ born, k \in Kept : handed'[n][k] = handed[n][k]
  <2>1. /\ handed' \in [Nodes -> [Kept -> SUBSET born]]
        /\ \A m \in Nodes, k \in Kept :
             handed'[m][k] = handed[m][k]
               \/ (m = r.node /\ k = Key(r) /\ handed'[m][k] = handed[m][k] \cup {c})
    BY <1>1, <1>3, HandedTyped
  <2> QED
    BY <1>1, <1>3, <2>1 DEF Hands, AtKept
<1> QED
  BY <1>2, <1>3 DEF HandsTo

LEMMA QuietKeeps ==
  ASSUME Inv, NEW t \in Threads, NEW r, r = run[t], ~Links(r), TreeStays, HandsTo(r),
         NEW x, run' = [run EXCEPT ![t] = x], Directed(t, x), Knows(x)', Picks(r, x),
         begun' \in [Threads -> SUBSET Calls], succeeded' \in [Threads -> SUBSET Calls]
  PROVE  Inv' /\ Cautious(t)
<1>1. Steady /\ Stores(r, x) /\ Relates(r)
  BY DEF TreeStays, Steady, Lasts, Stores, Relates
<1>2. Hands /\ OnlyBorn
  BY HandsToHands DEF TreeStays, OnlyBorn
<1>3. Shape'
  <2>1. x \in Locals
    BY DEF Directed
  <2>2. run' \in [Threads -> Locals]
    BY <2>1 DEF Inv, Shape
  <2>3. handed' \in [Nodes -> [Kept -> SUBSET born']]
    BY HandsToHands DEF TreeStays
  <2> QED
    BY <2>2, <2>3 DEF Inv, Shape, TreeStays
<1>4. Careful(t, x)
  BY <1>1, <1>2 DEF Careful
<1> QED
  BY <1>3, <1>4, CarefulKeeps

LEMMA SeesKeeps ==
  ASSUME Inv, NEW t \in Threads, NEW r, r = run[t], r.pc \in {"look", "exchange"},
         TreeStays, UNCHANGED callVars,
         run' = [run EXCEPT ![t] = [r EXCEPT !.seen = At(r.node, Key(r)), !.pc = "test"]]
  PROVE  Inv' /\ Cautious(t)
<1> DEFINE v == At(r.node, Key(r))
<1> PICK x : x = Seeing(r, v)
  OBVIOUS
<1>1. /\ Directed(t, r) /\ Knows(r) /\ CarriesBorn(r) /\ r.pc # "idle"
      /\ r.node \in Nodes /\ r.node \in born /\ Key(r) \in Keys
      /\ NoNode \notin Nodes /\ NoEntry \notin Nodes /\ born \subseteq Nodes /\ Root \in Nodes
  BY Where
<1>2. /\ v \in Values \cup {NoEntry}
      /\ v \in Nodes => v \in born /\ entry[r.node][Key(r)] = v /\ kind[r.node] = "Map"
      /\ kind[r.node] = "Map" /\ entry[r.node][Key(r)] \in Nodes => v = entry[r.node][Key(r)]
  BY <1>1, AtFacts
<1> HIDE DEF v
<1>3. /\ Directed(t, x) /\ Same(x, r)
      /\ x.pc = "test" /\ x.seen = v /\ x.fresh = r.fresh /\ x.child = r.child /\ x.prev = r.prev
  BY <1>1, <1>2, SeesDirected
<1>4. Key(x) = Key(r) /\ (AtKept(x) <=> AtKept(r))
  BY <1>1, <1>3, SameKey
<1>5. CarriesBorn(x)'
  BY <1>1, <1>2, <1>3 DEF CarriesBorn, Same, TreeStays
<1>6. ASSUME AtKept(r), r.array, r.old \in Nodes
      PROVE  entry[Root][Key(r)] = r.old /\ v = r.old
  <2>1. entry[Root][Key(r)] = r.old
    BY <1>1, <1>6 DEF Knows
  <2>2. r.node = Root /\ kind[Root] = "Map"
    BY <1>1, <1>6 DEF Directed, Walks, OnTheWay, Inv, Shape
  <2> QED
    BY <1>2, <1>6, <2>1, <2>2
<1>7. Knows(x)'
  <2>1. AtKept(x) /\ x.fresh # NoNode =>
          /\ x.fresh # Root
          /\ kind'[x.fresh] = KindAt[Key(x)]
          /\ parent'[x.fresh] = NoNode
          /\ \A n \in Nodes, k \in Keys : entry'[n][k] # x.fresh
    BY <1>1, <1>3, <1>4 DEF Knows, TreeStays
  <2>2. AtKept(x) /\ x.seen \in Nodes => entry'[x.node][Key(x)] = x.seen
    BY <1>2, <1>3, <1>4 DEF Same, TreeStays
  <2>3. AtKept(x) /\ x.array /\ x.old \in Nodes =>
          entry'[Root][Key(x)] = x.old /\ x.seen = x.old
    BY <1>3, <1>4, <1>6 DEF Same, TreeStays
  <2> QED
    BY <1>3, <1>5, <2>1, <2>2, <2>3 DEF Knows, AtKept, Key
<1>8. Picks(r, x)
  BY <1>1, <1>3, <1>4 DEF Picks, Moves, Same
<1>9. begun' \in [Threads -> SUBSET Calls] /\ succeeded' \in [Threads -> SUBSET Calls] /\ HandsTo(r)
  BY DEF callVars, HandsTo, Inv, Shape
<1>10. ~Links(r)
  BY DEF Links
<1>11. run' = [run EXCEPT ![t] = x]
  BY DEF v, Seeing
<1> QED
  BY <1>3, <1>7, <1>8, <1>9, <1>10, <1>11, QuietKeeps

LEMMA LookKeeps ==
  ASSUME Inv, NEW t \in Threads, Look(t)
  PROVE  Inv' /\ Cautious(t)
<1> PICK r : r = run[t]
  OBVIOUS
<1> QED
  BY SeesKeeps DEF Look, Continue, Goto, TreeStays, nodeVars

LEMMA ExchangeFailsKeeps ==
  ASSUME Inv, NEW t \in Threads, ExchangeFails(t) \/ ExchangeRefused(t)
  PROVE  Inv' /\ Cautious(t)
<1> PICK r : r = run[t]
  OBVIOUS
<1> QED
  BY SeesKeeps DEF ExchangeFails, ExchangeRefused, LookAgain, Continue, Goto, TreeStays, nodeVars

LEMMA SucceedBooks ==
  ASSUME Inv, NEW t \in Threads, run[t].pc # "idle"
  PROVE  /\ begun \in [Threads -> SUBSET Calls]
         /\ [succeeded EXCEPT ![t] = @ \cup {run[t].call}] \in [Threads -> SUBSET Calls]
<1>1. run[t].call \in Calls
  BY Where, CallFacts DEF Directed
<1> QED
  BY <1>1 DEF Inv, Shape

(* Returning, with or without success. *)
LEMMA ReturnsKeeps ==
  ASSUME Inv, NEW t \in Threads, run[t].pc \notin {"idle", "link"}, TreeStays, Succeed(t) \/ Fail(t)
  PROVE  Inv' /\ Cautious(t)
<1> PICK r : r = run[t]
  OBVIOUS
<1> PICK x : x = Idle
  OBVIOUS
<1>1. run' = [run EXCEPT ![t] = x]
  BY DEF Succeed, Fail, Goto, Returned
<1>2. /\ begun' \in [Threads -> SUBSET Calls] /\ succeeded' \in [Threads -> SUBSET Calls]
      /\ HandsTo(r)
  <2>1. succeeded \in [Threads -> SUBSET Calls] /\ begun \in [Threads -> SUBSET Calls]
    BY DEF Inv, Shape
  <2> QED
    BY <2>1, SucceedBooks DEF Succeed, Fail, callVars, HandsTo
<1>3. Directed(t, x) /\ Knows(x)' /\ Picks(r, x)
  BY Where, IdleDirected, IdleKnows, SimpleKnows, SimplePicks
<1>4. ~Links(r)
  BY DEF Links
<1> QED
  BY <1>1, <1>2, <1>3, <1>4, QuietKeeps

LEMMA GiveUpKeeps ==
  ASSUME Inv, NEW t \in Threads, GiveUp(t) \/ ReadValue(t)
  PROVE  Inv' /\ Cautious(t)
BY ReturnsKeeps DEF GiveUp, ReadValue, TreeStays, nodeVars

LEMMA FoundKeeps ==
  ASSUME Inv, NEW t \in Threads, Found(t)
  PROVE  Inv' /\ Cautious(t)
<1> PICK r : r = run[t]
  OBVIOUS
<1> PICK x : x = Arrived(r, r.seen)
  OBVIOUS
<1>1. /\ Directed(t, r) /\ Knows(r) /\ CarriesBorn(r) /\ r.node \in born
      /\ born \subseteq Nodes /\ r.pc # "idle"
  BY Where DEF Found
<1>2. r.pc = "test" /\ r.seen \in Nodes /\ Arrive(t, r, r.seen) /\ TreeStays /\ Walks(r)
  BY DEF Found, Fits, TreeStays, nodeVars, Walks
<1>3. r.seen \in born
  BY <1>1, <1>2 DEF CarriesBorn
<1>4. AtKept(r) => entry[r.node][Key(r)] = r.seen
  BY <1>1, <1>2 DEF Knows
<1>5. AtKept(r) /\ r.array /\ r.old \in Nodes => r.old = r.seen /\ entry[Root][Key(r)] = r.old
  BY <1>1, <1>2 DEF Knows
<1>6. Directed(t, x) /\ Knows(x)' /\ Picks(r, x)
  BY <1>1, <1>2, <1>3, <1>5, ArrivedKnows DEF TreeStays
<1>7. /\ run' = [run EXCEPT ![t] = x]
      /\ handed' = Handed(r, r.seen)
      /\ begun' = begun /\ succeeded' \in [Threads -> SUBSET Calls]
  BY <1>1, <1>2, ArriveMoves
<1>8. HandsTo(r)
  BY <1>1, <1>2, <1>3, <1>4, <1>7 DEF HandsTo, TreeStays
<1>9. ~Links(r) /\ begun' \in [Threads -> SUBSET Calls]
  BY <1>2, <1>7 DEF Links, Inv, Shape
<1> QED
  BY <1>2, <1>6, <1>7, <1>8, <1>9, QuietKeeps

(* No callback refuses a change under a kept key. *)
LEMMA NeverRefused ==
  ASSUME NEW n, NEW k \in Kept
  PROVE  Allowed(n, k) = {TRUE}
<1>1. <<n, k>> \notin Refusable
  BY KeptAssumption
<1> QED
  BY <1>1 DEF Allowed

(* The node that is put in, or that goes nowhere, becomes a child next.    *)
LEMMA AttachingKnows ==
  ASSUME Inv, born' = born, kind' = kind, parent' = parent,
         NEW t \in Threads, NEW r, r = run[t], r.pc = "exchange",
         AtKept(r) /\ kind[r.node] = "Map" => entry'[r.node][Key(r)] = r.fresh,
         \A n \in Nodes, k \in Keys :
           entry'[n][k] = r.fresh => entry[n][k] = r.fresh \/ (n = r.node /\ k = Key(r)),
         NEW x, x = Attaching(r)
  PROVE  Directed(t, x) /\ Knows(x)' /\ Picks(r, x) /\ Same(x, r)
<1>1. /\ Directed(t, r) /\ Knows(r) /\ CarriesBorn(r) /\ r.pc # "idle" /\ r.fresh # NoNode
      /\ r.node \in Nodes /\ r.node \in born /\ Key(r) \in Keys
      /\ NoNode \notin Nodes /\ NoEntry \notin Nodes /\ born \subseteq Nodes /\ Root \in Nodes
  BY Where DEF Directed
<1>2. /\ Directed(t, x) /\ Same(x, r)
      /\ x.pc = "link" /\ x.then = "arrive" /\ x.child = r.fresh /\ x.fresh = r.fresh
      /\ x.seen = r.seen /\ x.prev = r.prev
  BY <1>1, AttachingDirected
<1>3. Key(x) = Key(r) /\ (AtKept(x) <=> AtKept(r))
  BY <1>1, <1>2, SameKey
<1>4. CarriesBorn(x)'
  BY <1>1, <1>2 DEF CarriesBorn, Same
<1>5. Knows(x)'
  <2>1. AtKept(x) =>
          /\ x.fresh # Root
          /\ kind'[x.fresh] = KindAt[Key(x)]
          /\ parent'[x.fresh] = NoNode
          /\ \A n \in Nodes, k \in Keys : entry'[n][k] = x.fresh => n = x.node /\ k = Key(x)
    BY <1>1, <1>2, <1>3 DEF Knows, Same
  <2>2. AtKept(x) /\ kind'[x.node] = "Map" => entry'[x.node][Key(x)] = x.fresh
    BY <1>2, <1>3 DEF Same
  <2>3. AtKept(x) => ~(x.array /\ x.old \in Nodes)
    BY <1>1, <1>2, <1>3 DEF Knows, Same
  <2> QED
    BY <1>2, <1>4, <2>1, <2>2, <2>3 DEF Knows, AtKept, Key
<1>6. Picks(r, x)
  BY <1>1, <1>2, <1>3 DEF Picks, Moves, Same
<1> QED
  BY <1>2, <1>5, <1>6

LEMMA ExchangeUnstoredKeeps ==
  ASSUME Inv, NEW t \in Threads, ExchangeUnstored(t)
  PROVE  Inv' /\ Cautious(t)
<1> PICK r : r = run[t]
  OBVIOUS
<1> PICK x : x = Attaching(r)
  OBVIOUS
<1>1. /\ r.pc = "exchange" /\ TreeStays /\ UNCHANGED callVars /\ run' = [run EXCEPT ![t] = x]
      /\ kind[r.node] = "Array" \/ FALSE \in Allowed(r.node, Key(r))
  BY DEF ExchangeUnstored, Continue, Goto, TreeStays, nodeVars
<1>2. AtKept(r) => kind[r.node] # "Map"
  BY <1>1, NeverRefused DEF AtKept
<1>3. Directed(t, x) /\ Knows(x)' /\ Picks(r, x)
  BY <1>1, <1>2, AttachingKnows DEF TreeStays
<1>4. begun' \in [Threads -> SUBSET Calls] /\ succeeded' \in [Threads -> SUBSET Calls] /\ HandsTo(r)
  BY <1>1 DEF callVars, HandsTo, Inv, Shape
<1>5. ~Links(r)
  BY <1>1 DEF Links
<1> QED
  BY <1>1, <1>3, <1>4, <1>5, QuietKeeps

LEMMA ReadExistedKeeps ==
  ASSUME Inv, NEW t \in Threads, ReadExisted(t)
  PROVE  Inv' /\ Cautious(t)
<1> PICK r : r = run[t]
  OBVIOUS
<1> DEFINE v == At(r.node, Key(r))
<1> PICK x : x = Remembering(r, v)
  OBVIOUS
<1>1. /\ r.pc = "existed" /\ TreeStays /\ UNCHANGED callVars /\ run' = [run EXCEPT ![t] = x]
  BY DEF ReadExisted, Remembering, Continue, Goto, TreeStays, nodeVars
<1>2. /\ Directed(t, r) /\ Knows(r) /\ CarriesBorn(r) /\ r.pc # "idle"
      /\ r.node \in Nodes /\ r.node \in born /\ Key(r) \in Keys
      /\ NoNode \notin Nodes /\ NoEntry \notin Nodes /\ born \subseteq Nodes /\ Root \in born
  BY <1>1, Where DEF Inv, Shape
<1>3. /\ v \in Values \cup {NoEntry}
      /\ v \in Nodes => v \in born /\ entry[r.node][Key(r)] = v
  BY <1>2, AtFacts
<1> HIDE DEF v
<1>4. /\ Directed(t, x) /\ Simple(x) /\ x.seen = NoEntry
      /\ x.pc = "look" /\ x.node = Root /\ x.rest = r.rest /\ x.array /\ x.old = v
      /\ x.child = r.child /\ x.prev = r.prev
  <2>1. Directed(t, r) /\ r.pc = "existed" /\ v \in Values \cup {NoEntry}
    BY <1>1, <1>2, <1>3
  <2> QED
    BY <2>1, RemembersDirected
<1>5. Key(x) = Key(r) /\ (AtKept(x) <=> AtKept(r))
  BY <1>1, <1>4 DEF Key, AtKept
<1>6. CarriesBorn(x)'
  BY <1>1, <1>2, <1>3, <1>4 DEF CarriesBorn, Simple, TreeStays
<1>7. AtKept(x) /\ x.old \in Nodes => entry'[Root][Key(x)] = x.old
  BY <1>1, <1>2, <1>3, <1>4, <1>5, ExistedAtRoot DEF TreeStays
<1>8. Knows(x)'
  BY <1>4, <1>6, <1>7, SimpleKnows
<1>9. ~AtKept(x) /\ x.old \in Nodes => \E n \in Nodes, k \in Keys \ Kept : entry[n][k] = x.old
  BY <1>1, <1>2, <1>3, <1>4, <1>5 DEF AtKept
<1>10. Picks(r, x)
  BY <1>2, <1>4, <1>9, SimplePicks
<1>11. begun' \in [Threads -> SUBSET Calls] /\ succeeded' \in [Threads -> SUBSET Calls] /\ HandsTo(r)
  BY <1>1 DEF callVars, HandsTo, Inv, Shape
<1>12. ~Links(r)
  BY <1>1 DEF Links
<1> QED
  BY <1>1, <1>4, <1>8, <1>10, <1>11, <1>12, QuietKeeps

LEMMA BeginKeeps ==
  ASSUME Inv, NEW t \in Threads, NEW c \in CallsOf[t], Begin(t, c)
  PROVE  Inv' /\ Cautious(t)
<1> PICK r : r = run[t]
  OBVIOUS
<1> PICK x : x = Started(c)
  OBVIOUS
<1>1. /\ r.pc = "idle" /\ TreeStays /\ run' = [run EXCEPT ![t] = x]
      /\ begun' = [begun EXCEPT ![t] = @ \cup {c}] /\ UNCHANGED <<succeeded, handed>>
  BY DEF Begin, Goto, TreeStays, nodeVars
<1>2. NoNode \notin Nodes /\ NoEntry \notin Nodes /\ Root \in born
  BY Where DEF Inv, Shape
<1>3. Anew(t, x, Idle, Root) /\ Idle.array = FALSE /\ CarriesBorn(Idle)'
  BY <1>2, StartedDirected, IdleKnows
<1>4. Simple(x) /\ Directed(t, x) /\ x.array = FALSE
  BY <1>3 DEF Anew
<1>5. CarriesBorn(x)'
  BY <1>1, <1>2, <1>3 DEF CarriesBorn, Anew, Simple, TreeStays
<1>6. Knows(x)' /\ Picks(r, x)
  BY <1>2, <1>4, <1>5, SimpleKnows, SimplePicks
<1>7. begun' \in [Threads -> SUBSET Calls] /\ succeeded' \in [Threads -> SUBSET Calls] /\ HandsTo(r)
  BY <1>1, CallFacts DEF HandsTo, Inv, Shape
<1>8. ~Links(r)
  BY <1>1 DEF Links
<1> QED
  BY <1>1, <1>4, <1>6, <1>7, <1>8, QuietKeeps

-----------------------------------------------------------------------------
(* Steps that change the tree. *)

(* What stays of the tree's types, and of the nodes not yet created.       *)
Typed ==
  /\ born' = born /\ kind' = kind
  /\ entry' \in [Nodes -> [Keys -> born \cup Scalars \cup {Blank, NoEntry, Erased}]]
  /\ list' \in [Nodes -> Seq(born \cup Scalars \cup {Blank})]
  /\ parent' \in [Nodes -> born \cup {NoNode}]
  /\ name' \in [Nodes -> Keys \cup {NoName}]
  /\ begun' \in [Threads -> SUBSET Calls] /\ succeeded' \in [Threads -> SUBSET Calls]

Elsewhere ==
  \A n \in Nodes \ born :
    /\ parent'[n] = parent[n] /\ name'[n] = name[n]
    /\ \A k \in Keys : entry'[n][k] = entry[n][k]

LEMMA StepKeeps ==
  ASSUME Inv, NEW t \in Threads, NEW r, r = run[t],
         NEW x, run' = [run EXCEPT ![t] = x], Directed(t, x), Knows(x)', Picks(r, x),
         Typed, Lasts, Elsewhere, Stores(r, x), Relates(r), HandsTo(r)
  PROVE  Inv' /\ Cautious(t)
<1>1. Steady
  BY DEF Steady, Typed, Lasts
<1>2. Hands /\ OnlyBorn
  BY HandsToHands DEF Elsewhere, OnlyBorn
<1>3. Shape'
  <2>1. x \in Locals
    BY DEF Directed
  <2>2. run' \in [Threads -> Locals]
    BY <2>1 DEF Inv, Shape
  <2>3. handed' \in [Nodes -> [Kept -> SUBSET born']]
    BY HandsToHands DEF Typed
  <2> QED
    BY <2>2, <2>3 DEF Inv, Shape, Typed
<1>4. Careful(t, x)
  BY <1>1, <1>2 DEF Careful
<1> QED
  BY <1>3, <1>4, CarefulKeeps

(* What was seen under a kept key is what the thread wants there. *)
LEMMA SeenFits ==
  ASSUME Inv, NEW t \in Threads, NEW r, r = run[t], AtKept(r), r.pc \in {"test", "exchange"},
         r.seen \in Nodes
  PROVE  Fits(r.seen, Want(r))
<1>1. Directed(t, r) /\ Knows(r) /\ r.node \in Nodes /\ Walks(r) /\ Key(r) \in Kept
  BY Where DEF Walks, AtKept
<1>2. entry[r.node][Key(r)] = r.seen
  BY <1>1 DEF Knows
<1>3. kind[r.seen] = KindAt[Key(r)]
  BY <1>1, <1>2 DEF Inv, Settled
<1>4. Want(r) \in {"Any", KindAt[Key(r)]}
  BY <1>1, KeptWant
<1> QED
  BY <1>3, <1>4 DEF Fits

LEMMA ExchangeStoresKeeps ==
  ASSUME Inv, NEW t \in Threads, ExchangeStores(t)
  PROVE  Inv' /\ Cautious(t)
<1> PICK r : r = run[t]
  OBVIOUS
<1> PICK x : x = Attaching(r)
  OBVIOUS
<1>1. /\ r.pc = "exchange" /\ Exchanges(r) /\ kind[r.node] = "Map"
      /\ entry' = [entry EXCEPT ![r.node][Key(r)] = r.fresh]
      /\ UNCHANGED <<kind, born, list, parent, name>>
      /\ UNCHANGED callVars /\ run' = [run EXCEPT ![t] = x]
  BY DEF ExchangeStores, Continue, Goto
<1>2. /\ Directed(t, r) /\ Knows(r) /\ r.pc # "idle"
      /\ r.node \in Nodes /\ r.node \in born /\ Key(r) \in Keys
      /\ NoNode \notin Nodes /\ NoEntry \notin Nodes /\ born \subseteq Nodes
  BY <1>1, Where
<1>3. r.fresh \in born /\ r.fresh \in Nodes
  BY <1>1, <1>2, Where DEF Directed, CarriesBorn
<1>4. entry \in [Nodes -> [Keys -> born \cup Scalars \cup {Blank, NoEntry, Erased}]]
  BY DEF Inv, Shape
<1>5. /\ entry'[r.node][Key(r)] = r.fresh
      /\ \A n \in Nodes, k \in Keys :
           entry'[n][k] = entry[n][k] \/ (n = r.node /\ k = Key(r) /\ entry'[n][k] = r.fresh)
      /\ entry' \in [Nodes -> [Keys -> born \cup Scalars \cup {Blank, NoEntry, Erased}]]
  BY <1>1, <1>2, <1>3, <1>4
<1>6. Directed(t, x) /\ Knows(x)' /\ Picks(r, x) /\ Same(x, r)
  BY <1>1, <1>5, AttachingKnows
<1>7. x.pc = "link" /\ x.then = "arrive" /\ x.fresh = r.fresh
  BY <1>1, <1>2, AttachingDirected
<1>8. ~(AtKept(r) /\ entry[r.node][Key(r)] \in Nodes)
  <2> SUFFICES ASSUME AtKept(r), entry[r.node][Key(r)] \in Nodes
               PROVE  FALSE
    OBVIOUS
  <2>1. At(r.node, Key(r)) \in Nodes
    BY <1>1, <1>2, AtFacts
  <2>2. r.seen \in Nodes
    BY <1>1, <1>2, <2>1 DEF Exchanges
  <2>3. Fits(r.seen, Want(r))
    BY <1>1, <2>2, SeenFits
  <2> QED
    BY <1>1, <1>2, <2>3 DEF Knows
<1>9. Lasts
  <2>1. AtKept(r) => entry[r.node][Key(r)] \notin Nodes /\ r.fresh \in Nodes
    BY <1>3, <1>8
  <2> QED
    BY <1>2, <1>5, <2>1, KeptAssumption DEF Lasts, AtKept
<1>10. Typed /\ Elsewhere
  BY <1>1, <1>2, <1>5 DEF Typed, Elsewhere, callVars, Inv, Shape
<1>11. Stores(r, x)
  BY <1>1, <1>5, <1>6, <1>7 DEF Stores, Puts
<1>12. Relates(r) /\ HandsTo(r)
  BY <1>1 DEF Relates, Links, HandsTo, callVars
<1> QED
  BY <1>1, <1>6, <1>9, <1>10, <1>11, <1>12, StepKeeps

(* The list of an array and a value appended to it. *)
LEMMA ListAppend ==
  ASSUME Inv, NEW n \in Nodes, NEW v \in born \cup Scalars \cup {Blank}
  PROVE  [list EXCEPT ![n] = Append(@, v)] \in [Nodes -> Seq(born \cup Scalars \cup {Blank})]
<1>1. list \in [Nodes -> Seq(born \cup Scalars \cup {Blank})]
  BY DEF Inv, Shape
<1>2. Append(list[n], v) \in Seq(born \cup Scalars \cup {Blank})
  BY <1>1, AppendProperties
<1> QED
  BY <1>1, <1>2

(* Steps that change lists only. *)
LEMMA ListKeeps ==
  ASSUME Inv, NEW t \in Threads, NEW r, r = run[t], ~Links(r),
         UNCHANGED <<kind, born, entry, parent, name, begun, handed>>,
         succeeded' \in [Threads -> SUBSET Calls],
         list' \in [Nodes -> Seq(born \cup Scalars \cup {Blank})],
         NEW x, run' = [run EXCEPT ![t] = x], Directed(t, x), Knows(x)', Picks(r, x)
  PROVE  Inv' /\ Cautious(t)
<1>1. Typed
  BY DEF Typed, Inv, Shape
<1>2. Lasts /\ Elsewhere /\ Stores(r, x) /\ Relates(r) /\ HandsTo(r)
  BY DEF Lasts, Elsewhere, Stores, Relates, HandsTo
<1> QED
  BY <1>1, <1>2, StepKeeps

LEMMA AppendValueKeeps ==
  ASSUME Inv, NEW t \in Threads, AppendValue(t)
  PROVE  Inv' /\ Cautious(t)
<1> PICK r : r = run[t]
  OBVIOUS
<1> PICK x : x = Idle
  OBVIOUS
<1>1. /\ r.pc = "append" /\ list' = [list EXCEPT ![r.node] = Append(@, r.call.val)]
      /\ UNCHANGED <<kind, born, entry, parent, name, begun, handed>>
      /\ succeeded' = [succeeded EXCEPT ![t] = @ \cup {r.call}] /\ run' = [run EXCEPT ![t] = x]
  BY DEF AppendValue, Succeed, Goto, Returned
<1>2. Directed(t, r) /\ r.node \in Nodes /\ r.call \in CallsOf[t]
  BY <1>1, Where DEF Directed
<1>3. r.call.val \in Scalars
  BY <1>1, <1>2, CallFacts DEF Directed, Fills
<1>4. list' \in [Nodes -> Seq(born \cup Scalars \cup {Blank})]
  BY <1>1, <1>2, <1>3, ListAppend
<1>5. succeeded' \in [Threads -> SUBSET Calls] /\ ~Links(r)
  BY <1>1, SucceedBooks DEF Links
<1>6. Directed(t, x) /\ Knows(x)' /\ Picks(r, x)
  BY Where, IdleDirected, IdleKnows, SimpleKnows, SimplePicks
<1> QED
  BY <1>1, <1>4, <1>5, <1>6, ListKeeps

(* Steps that put something else than a node under a key that is not kept. *)
LEMMA EntryKeeps ==
  ASSUME Inv, NEW t \in Threads, NEW r, r = run[t], ~Links(r),
         NEW n \in born, NEW k \in Keys \ Kept, NEW w \in Scalars \cup {Erased},
         entry' = [entry EXCEPT ![n][k] = w],
         UNCHANGED <<kind, born, list, parent, name, begun, handed>>,
         succeeded' \in [Threads -> SUBSET Calls],
         NEW x, run' = [run EXCEPT ![t] = x], Directed(t, x), Knows(x)', Picks(r, x)
  PROVE  Inv' /\ Cautious(t)
<1>1. /\ entry \in [Nodes -> [Keys -> born \cup Scalars \cup {Blank, NoEntry, Erased}]]
      /\ n \in Nodes /\ w \notin Nodes
  BY ValuesAssumption DEF Inv, Shape
<1>2. /\ entry' \in [Nodes -> [Keys -> born \cup Scalars \cup {Blank, NoEntry, Erased}]]
      /\ \A m \in Nodes, j \in Keys :
           entry'[m][j] = entry[m][j] \/ (m = n /\ j = k /\ entry'[m][j] \notin Nodes)
  BY <1>1
<1>3. Typed
  BY <1>2 DEF Typed, Inv, Shape
<1>4. Lasts
  BY <1>2, KeptAssumption DEF Lasts
<1>5. Elsewhere /\ Stores(r, x)
  BY <1>2 DEF Elsewhere, Stores
<1>6. Relates(r) /\ HandsTo(r)
  BY DEF Relates, HandsTo
<1> QED
  BY <1>3, <1>4, <1>5, <1>6, StepKeeps

(* A node that Set replaces or Erase takes out is the thread's to detach.  *)
LEMMA TakesOut ==
  ASSUME Inv, born' = born, NEW t \in Threads, NEW r, r = run[t], r.pc = "apply", ~AtKept(r),
         NEW v \in born, entry[r.node][Key(r)] = v,
         NEW x, x = Orphaning(r, v) \/ x = Detaching(r, v)
  PROVE  Directed(t, x) /\ Knows(x)' /\ Picks(r, x)
<1>1. /\ Directed(t, r) /\ Knows(r) /\ CarriesBorn(r) /\ r.pc # "idle"
      /\ r.node \in Nodes /\ Key(r) \in Keys \ Kept
      /\ NoNode \notin Nodes /\ v \in Nodes
  BY Where DEF AtKept
<1>2. /\ Directed(t, x) /\ Same(x, r)
      /\ x.pc = "orphan" \/ (x.pc = "link" /\ x.then = "return")
      /\ x.child = v /\ x.fresh = NoNode /\ x.seen = r.seen /\ x.prev = r.prev
  BY <1>1, OrphanDirected, DetachesDirected
<1>3. ~AtKept(x) /\ ~r.array
  BY <1>1, <1>2, SameKey DEF Directed
<1>4. CarriesBorn(x)'
  BY <1>1, <1>2 DEF CarriesBorn, Same
<1>5. Knows(x)'
  BY <1>2, <1>3, <1>4 DEF Knows, AtKept, Key
<1>6. Picks(r, x)
  BY <1>1, <1>2, <1>3 DEF Picks, Moves, Same
<1> QED
  BY <1>2, <1>5, <1>6

(* What Set, Insert and Erase write to. *)
LEMMA AppliesFacts ==
  ASSUME Inv, NEW t \in Threads, NEW r, r = run[t], r.pc = "apply",
         r.call.op \in {"Set", "Insert", "Erase"}
  PROVE  /\ r.node \in born /\ Key(r) \in Keys \ Kept /\ ~AtKept(r) /\ ~Links(r)
         /\ r.call.op \in {"Set", "Insert"} => r.call.val \in Scalars
         /\ At(r.node, Key(r)) \in Nodes =>
              At(r.node, Key(r)) \in born /\ entry[r.node][Key(r)] = At(r.node, Key(r))
         /\ Directed(t, Idle) /\ Knows(Idle)' /\ Picks(r, Idle)
<1>1. Directed(t, r) /\ r.node \in born /\ r.node \in Nodes /\ Key(r) \in Keys /\ r.call \in CallsOf[t]
  BY Where DEF Directed
<1>2. ~AtKept(r) /\ Key(r) \notin Kept /\ ~Links(r)
  BY <1>1, AppliesElsewhere DEF AtKept, Links
<1>3. r.call.op \in {"Set", "Insert"} => r.call.val \in Scalars
  BY <1>1, CallFacts
<1>4. At(r.node, Key(r)) \in Nodes =>
        At(r.node, Key(r)) \in born /\ entry[r.node][Key(r)] = At(r.node, Key(r))
  BY <1>1, AtFacts
<1>5. Directed(t, Idle) /\ Knows(Idle)' /\ Picks(r, Idle)
  <2> PICK x : x = Idle
    OBVIOUS
  <2>1. Directed(t, x) /\ Knows(x)' /\ Picks(r, x)
    BY Where, IdleDirected, IdleKnows, SimpleKnows, SimplePicks
  <2>2. Knows(Idle)' <=> Knows(x)'
    OBVIOUS
  <2> QED
    BY <2>1, <2>2
<1> QED
  BY <1>1, <1>2, <1>3, <1>4, <1>5

LEMMA SetValueKeeps ==
  ASSUME Inv, NEW t \in Threads, SetValue(t)
  PROVE  Inv' /\ Cautious(t)
<1> PICK r : r = run[t]
  OBVIOUS
<1> PICK v : v = At(r.node, Key(r))
  OBVIOUS
<1>1. /\ r.pc = "apply" /\ r.call.op = "Set"
      /\ UNCHANGED <<kind, born, list, parent, name>>
  BY DEF SetValue
<1>2. /\ r.node \in born /\ Key(r) \in Keys \ Kept /\ ~AtKept(r) /\ ~Links(r)
      /\ r.call.val \in Scalars
      /\ v \in Nodes => v \in born /\ entry[r.node][Key(r)] = v
  BY <1>1, AppliesFacts
<1>3. CASE /\ entry' = [entry EXCEPT ![r.node][Key(r)] = r.call.val]
           /\ v \in Nodes /\ Continue(t, [r EXCEPT !.pc = "orphan", !.child = v])
  <2> PICK x : x = Orphaning(r, v)
    OBVIOUS
  <2>1. run' = [run EXCEPT ![t] = x] /\ UNCHANGED callVars
    BY <1>3 DEF Continue, Goto, Orphaning
  <2>2. Directed(t, x) /\ Knows(x)' /\ Picks(r, x)
    BY <1>1, <1>2, <1>3, TakesOut
  <2>3. succeeded' \in [Threads -> SUBSET Calls]
    BY <2>1 DEF callVars, Inv, Shape
  <2> QED
    BY <1>1, <1>2, <1>3, <2>1, <2>2, <2>3, EntryKeeps DEF callVars
<1>4. CASE /\ entry' = [entry EXCEPT ![r.node][Key(r)] = r.call.val]
           /\ Succeed(t)
  <2> PICK x : x = Idle
    OBVIOUS
  <2>1. run' = [run EXCEPT ![t] = x] /\ UNCHANGED <<begun, handed>>
    BY <1>4 DEF Succeed, Goto, Returned
  <2>2. Directed(t, x) /\ Knows(x)' /\ Picks(r, x)
    BY <1>1, AppliesFacts
  <2>3. succeeded' \in [Threads -> SUBSET Calls]
    BY <1>1, <1>4, SucceedBooks DEF Succeed
  <2> QED
    BY <1>1, <1>2, <1>4, <2>1, <2>2, <2>3, EntryKeeps
<1>5. CASE Fail(t) /\ UNCHANGED entry
  BY <1>1, <1>5, ReturnsKeeps DEF TreeStays
<1> QED
  BY <1>3, <1>4, <1>5 DEF SetValue

LEMMA InsertValueKeeps ==
  ASSUME Inv, NEW t \in Threads, InsertValue(t)
  PROVE  Inv' /\ Cautious(t)
<1> PICK r : r = run[t]
  OBVIOUS
<1>1. /\ r.pc = "apply" /\ r.call.op = "Insert"
      /\ UNCHANGED <<kind, born, list, parent, name>>
  BY DEF InsertValue
<1>2. /\ r.node \in born /\ Key(r) \in Keys \ Kept /\ ~Links(r)
      /\ r.call.val \in Scalars
  BY <1>1, AppliesFacts
<1>3. CASE /\ entry' = [entry EXCEPT ![r.node][Key(r)] = r.call.val]
           /\ Succeed(t)
  <2> PICK x : x = Idle
    OBVIOUS
  <2>1. run' = [run EXCEPT ![t] = x] /\ UNCHANGED <<begun, handed>>
    BY <1>3 DEF Succeed, Goto, Returned
  <2>2. Directed(t, x) /\ Knows(x)' /\ Picks(r, x)
    BY <1>1, AppliesFacts
  <2>3. succeeded' \in [Threads -> SUBSET Calls]
    BY <1>1, <1>3, SucceedBooks DEF Succeed
  <2> QED
    BY <1>1, <1>2, <1>3, <2>1, <2>2, <2>3, EntryKeeps
<1>4. CASE Fail(t) /\ UNCHANGED entry
  BY <1>1, <1>4, ReturnsKeeps DEF TreeStays
<1> QED
  BY <1>3, <1>4 DEF InsertValue

LEMMA EraseValueKeeps ==
  ASSUME Inv, NEW t \in Threads, EraseValue(t)
  PROVE  Inv' /\ Cautious(t)
<1> PICK r : r = run[t]
  OBVIOUS
<1> PICK v : v = At(r.node, Key(r))
  OBVIOUS
<1>1. /\ r.pc = "apply" /\ r.call.op = "Erase"
      /\ UNCHANGED <<kind, born, list, parent, name>>
  BY DEF EraseValue
<1>2. /\ r.node \in born /\ Key(r) \in Keys \ Kept /\ ~AtKept(r) /\ ~Links(r)
      /\ v \in Nodes => v \in born /\ entry[r.node][Key(r)] = v
  BY <1>1, AppliesFacts
<1>3. CASE /\ entry' = [entry EXCEPT ![r.node][Key(r)] = Erased] /\ v \in Nodes
           /\ Continue(t, [r EXCEPT !.pc = "link", !.child = v, !.then = "return"])
  <2> PICK x : x = Detaching(r, v)
    OBVIOUS
  <2>1. run' = [run EXCEPT ![t] = x] /\ UNCHANGED callVars
    BY <1>3 DEF Continue, Goto, Detaching
  <2>2. Directed(t, x) /\ Knows(x)' /\ Picks(r, x)
    BY <1>1, <1>2, <1>3, TakesOut
  <2>3. succeeded' \in [Threads -> SUBSET Calls]
    BY <2>1 DEF callVars, Inv, Shape
  <2> QED
    BY <1>1, <1>2, <1>3, <2>1, <2>2, <2>3, EntryKeeps DEF callVars
<1>4. CASE entry' = [entry EXCEPT ![r.node][Key(r)] = Erased] /\ Succeed(t)
  <2> PICK x : x = Idle
    OBVIOUS
  <2>1. run' = [run EXCEPT ![t] = x] /\ UNCHANGED <<begun, handed>>
    BY <1>4 DEF Succeed, Goto, Returned
  <2>2. Directed(t, x) /\ Knows(x)' /\ Picks(r, x)
    BY <1>1, AppliesFacts
  <2>3. succeeded' \in [Threads -> SUBSET Calls]
    BY <1>1, <1>4, SucceedBooks DEF Succeed
  <2> QED
    BY <1>1, <1>2, <1>4, <2>1, <2>2, <2>3, EntryKeeps
<1>5. CASE Fail(t) /\ UNCHANGED entry
  BY <1>1, <1>5, ReturnsKeeps DEF TreeStays
<1> QED
  BY <1>3, <1>4, <1>5 DEF EraseValue

LEMMA OrphanKeeps ==
  ASSUME Inv, NEW t \in Threads, Orphan(t)
  PROVE  Inv' /\ Cautious(t)
<1> PICK r : r = run[t]
  OBVIOUS
<1> PICK x : x = Idle
  OBVIOUS
<1>1. /\ r.pc = "orphan" /\ parent' = [parent EXCEPT ![r.child] = NoNode]
      /\ UNCHANGED <<kind, born, entry, list, name, begun, handed>>
      /\ succeeded' = [succeeded EXCEPT ![t] = @ \cup {r.call}] /\ run' = [run EXCEPT ![t] = x]
  BY DEF Orphan, Succeed, Goto, Returned
<1>2. r.child \in born /\ born \subseteq Nodes
  BY <1>1, Where DEF Directed, CarriesBorn
<1>3. Moves(r, r.child) /\ ~Links(r)
  BY <1>1 DEF Moves, Links
<1>4. name[r.child] \notin Kept
  BY <1>2, <1>3 DEF Inv, Apart, KeptUse, FreeUse
<1>5. /\ parent' \in [Nodes -> born \cup {NoNode}]
      /\ \A c \in Nodes : c # r.child => parent'[c] = parent[c]
  BY <1>1, <1>2 DEF Inv, Shape
<1>6. succeeded' \in [Threads -> SUBSET Calls]
  BY <1>1, SucceedBooks
<1>7. Directed(t, x) /\ Knows(x)' /\ Picks(r, x)
  BY Where, IdleDirected, IdleKnows, SimpleKnows, SimplePicks
<1>8. Typed /\ Lasts /\ Elsewhere /\ Stores(r, x) /\ HandsTo(r)
  BY <1>1, <1>2, <1>5, <1>6 DEF Typed, Lasts, Elsewhere, Stores, HandsTo, Inv, Shape
<1>9. Relates(r)
  BY <1>1, <1>3, <1>4, <1>5 DEF Relates
<1> QED
  BY <1>1, <1>7, <1>8, <1>9, StepKeeps

(* EmplaceToArray does not find its own old node to move under a kept key. *)
LEMMA KeepOldKeeps ==
  ASSUME Inv, NEW t \in Threads, KeepOld(t)
  PROVE  Inv' /\ Cautious(t)
<1> PICK r : r = run[t]
  OBVIOUS
<1>1. /\ r.pc = "keepOld" /\ UNCHANGED <<kind, born, entry, parent, name, begun, succeeded, handed>>
      /\ succeeded' \in [Threads -> SUBSET Calls]
  BY DEF KeepOld, Continue, callVars, Inv, Shape
<1>2. /\ Directed(t, r) /\ Knows(r) /\ CarriesBorn(r) /\ r.pc # "idle" /\ Fills(r) /\ ~Links(r)
      /\ r.array /\ r.fresh = NoNode /\ r.node \in Nodes
      /\ NoNode \notin Nodes
      /\ r.old \in Values
      /\ r.old \in Nodes => r.old \in born
  <2>1. /\ Directed(t, r) /\ Knows(r) /\ CarriesBorn(r) /\ r \in Locals
        /\ r.node \in Nodes /\ NoNode \notin Nodes
    BY <1>1, Where DEF Directed
  <2>2. ~Walks(r) /\ Fills(r) /\ ~Links(r) /\ r.array /\ r.fresh = NoNode /\ r.old # NoEntry
    BY <1>1, <2>1 DEF Directed, Fills, Walks, Links
  <2>3. r.old \in Values
    BY <2>1, <2>2 DEF Locals
  <2>4. r.old \in Nodes => r.old \in born
    BY <2>1 DEF CarriesBorn
  <2> QED
    BY <1>1, <2>1, <2>2, <2>3, <2>4
<1>3. r.old \in born \cup Scalars \cup {Blank}
  BY <1>2 DEF Values
<1>4. list \in [Nodes -> Seq(born \cup Scalars \cup {Blank})]
  BY DEF Inv, Shape
<1>5. CASE /\ Continue(t, [r EXCEPT !.pc = "append"])
           /\ list' = list \/ list' = [list EXCEPT ![r.node] = Append(@, r.old)]
  <2> PICK x : x = Appending(r)
    OBVIOUS
  <2>1. run' = [run EXCEPT ![t] = x]
    BY <1>5 DEF Continue, Goto, Appending
  <2>2. /\ Directed(t, x) /\ Same(x, r)
        /\ x.pc = "append" /\ x.fresh = NoNode /\ x.seen = r.seen /\ x.child = r.child
        /\ x.prev = r.prev
    BY <1>1, <1>2, AppendsDirected
  <2>3. Key(x) = Key(r) /\ (AtKept(x) <=> AtKept(r)) /\ Simple(x)
    BY <1>2, <2>2, SameKey DEF Simple
  <2>4. CarriesBorn(x)'
    BY <1>1, <1>2, <2>2 DEF CarriesBorn, Same
  <2>5. AtKept(x) => x.old \notin Nodes
    BY <1>1, <1>2, <2>2, <2>3 DEF Same, Knows
  <2>6. Knows(x)'
    BY <2>3, <2>4, <2>5, SimpleKnows
  <2>7. Picks(r, x)
    BY <1>2, <2>2, <2>3, SimplePicks DEF Same
  <2>8. list' \in [Nodes -> Seq(born \cup Scalars \cup {Blank})]
    <3>1. r.node \in Nodes
      BY <1>2
    <3>2. [list EXCEPT ![r.node] = Append(@, r.old)] \in [Nodes -> Seq(born \cup Scalars \cup {Blank})]
      BY <1>3, <3>1, ListAppend
    <3> QED
      BY <1>4, <1>5, <3>2
  <2> QED
    BY <1>1, <1>2, <2>1, <2>2, <2>6, <2>7, <2>8, ListKeeps
<1>6. CASE /\ r.old \in Nodes /\ list' = [list EXCEPT ![r.node] = Append(@, r.old)]
           /\ Continue(t, [r EXCEPT !.pc = "link", !.child = r.old, !.then = "append"])
  <2> PICK x : x = MovingOld(r)
    OBVIOUS
  <2>1. run' = [run EXCEPT ![t] = x]
    BY <1>6 DEF Continue, Goto, MovingOld
  <2>2. /\ Directed(t, x) /\ Same(x, r)
        /\ x.pc = "link" /\ x.then = "append" /\ x.child = r.old /\ x.fresh = NoNode
        /\ x.seen = r.seen /\ x.prev = r.prev
    BY <1>1, <1>2, <1>6, MovesOldDirected
  <2>3. ~AtKept(r)
    BY <1>1, <1>2, <1>6 DEF Knows
  <2>4. ~AtKept(x)
    BY <1>2, <2>2, <2>3, SameKey
  <2>5. CarriesBorn(x)'
    BY <1>1, <1>2, <1>6, <2>2 DEF CarriesBorn, Same
  <2>6. Knows(x)'
    BY <2>2, <2>4, <2>5 DEF Knows, AtKept, Key
  <2>7. Picks(r, x)
    BY <1>2, <2>2, <2>3 DEF Picks, Moves, Same
  <2>8. list' \in [Nodes -> Seq(born \cup Scalars \cup {Blank})]
    BY <1>2, <1>3, <1>6, ListAppend
  <2> QED
    BY <1>1, <1>2, <2>1, <2>2, <2>6, <2>7, <2>8, ListKeeps
<1> QED
  BY <1>5, <1>6 DEF KeepOld

(* A thread that has created the node it will try to put in.               *)
LEMMA TryingKnows ==
  ASSUME Inv, NEW t \in Threads, NEW r, r = run[t], r.pc = "test",
         ~Fits(r.seen, Want(r)), r.fresh = NoNode,
         NEW n \in Nodes \ born, born' = born \cup {n},
         kind' = [kind EXCEPT ![n] = IF Want(r) = "Array" THEN "Array" ELSE "Map"],
         UNCHANGED nodeVars,
         NEW x, x = Trying(r, n)
  PROVE  Directed(t, x) /\ Knows(x)' /\ Picks(r, x)
<1>1. /\ Directed(t, r) /\ Knows(r) /\ CarriesBorn(r) /\ r.pc # "idle" /\ Walks(r)
      /\ r.node \in Nodes /\ r.node \in born /\ Key(r) \in Keys
      /\ NoNode \notin Nodes /\ NoEntry \notin Nodes /\ born \subseteq Nodes /\ Root \in born
  BY Where DEF Walks, Inv, Shape
<1>2. /\ Directed(t, x) /\ Same(x, r)
      /\ x.pc = "exchange" /\ x.seen = r.seen /\ x.fresh = n /\ x.child = r.child /\ x.prev = r.prev
  BY <1>1, TriesDirected
<1>3. Key(x) = Key(r) /\ (AtKept(x) <=> AtKept(r)) /\ Want(x) = Want(r)
  BY <1>1, <1>2, SameKey
<1>4. UNCHANGED <<entry, list, parent, name>>
  BY DEF nodeVars
<1>5. /\ \A m \in Nodes \ {n} : kind'[m] = kind[m]
      /\ kind'[n] = IF Want(r) = "Array" THEN "Array" ELSE "Map"
  BY DEF Inv, Shape
<1>6. CarriesBorn(x)'
  BY <1>1, <1>2 DEF CarriesBorn, Same
<1>7. ~Fits(x.seen, Want(x))'
  <2>1. r.seen \in Nodes => kind'[r.seen] = kind[r.seen]
    BY <1>1, <1>5 DEF CarriesBorn
  <2>2. Want(x)' = Want(r)
    BY <1>3 DEF Want
  <2> QED
    BY <1>2, <2>1, <2>2 DEF Fits
<1>8. ASSUME AtKept(r)
      PROVE  r.seen \notin Nodes /\ ~(r.array /\ r.old \in Nodes)
  <2>1. r.seen \notin Nodes
    BY <1>8, SeenFits
  <2> QED
    BY <1>1, <1>8, <2>1 DEF Knows
<1>9. ASSUME AtKept(r)
      PROVE  kind'[n] = KindAt[Key(r)]
  BY <1>1, <1>5, <1>9, KeptWant
<1>10. parent[n] = NoNode /\ \A m \in Nodes, k \in Keys : entry[m][k] # n
  BY ValuesAssumption DEF Inv, Shape, Unborn
<1>11. Knows(x)'
  BY <1>1, <1>2, <1>3, <1>4, <1>6, <1>7, <1>8, <1>9, <1>10 DEF Knows, AtKept, Key, Same
<1>12. Picks(r, x)
  BY <1>1, <1>2, <1>3 DEF Picks, Moves, Same
<1> QED
  BY <1>2, <1>11, <1>12

LEMMA CreateKeeps ==
  ASSUME Inv, NEW t \in Threads, Create(t)
  PROVE  Inv' /\ Cautious(t)
<1> PICK r : r = run[t]
  OBVIOUS
<1>1. /\ r.pc = "test" /\ ~Fits(r.seen, Want(r)) /\ UNCHANGED nodeVars /\ UNCHANGED callVars
  BY DEF Create, Continue
<1>2. /\ Directed(t, r) /\ Knows(r) /\ CarriesBorn(r) /\ r.pc # "idle"
      /\ NoNode \notin Nodes /\ born \subseteq Nodes /\ Root \in born
  BY <1>1, Where DEF Inv, Shape
<1>3. /\ begun' \in [Threads -> SUBSET Calls] /\ succeeded' \in [Threads -> SUBSET Calls]
      /\ HandsTo(r) /\ ~Links(r)
  BY <1>1 DEF callVars, HandsTo, Links, Inv, Shape
<1>4. CASE r.fresh # NoNode /\ Continue(t, [r EXCEPT !.pc = "exchange"]) /\ UNCHANGED <<kind, born>>
  <2> PICK x : x = Retrying(r)
    OBVIOUS
  <2>1. run' = [run EXCEPT ![t] = x] /\ TreeStays
    BY <1>1, <1>4 DEF Continue, Goto, Retrying, TreeStays, nodeVars
  <2>2. /\ Directed(t, x) /\ Same(x, r)
        /\ x.pc = "exchange" /\ x.seen = r.seen /\ x.fresh = r.fresh
        /\ x.child = r.child /\ x.prev = r.prev
    BY <1>1, <1>2, <1>4, RetriesDirected
  <2>3. Key(x) = Key(r) /\ (AtKept(x) <=> AtKept(r)) /\ Want(x) = Want(r)
    BY <1>2, <2>2, SameKey
  <2>4. CarriesBorn(x)'
    BY <1>2, <2>1, <2>2 DEF CarriesBorn, Same, TreeStays
  <2>5. ~Fits(x.seen, Want(x))'
    BY <1>1, <2>1, <2>2, <2>3 DEF Fits, Want, TreeStays
  <2>6. ASSUME AtKept(r)
        PROVE  r.seen \notin Nodes /\ ~(r.array /\ r.old \in Nodes)
    <3>1. r.seen \notin Nodes
      BY <1>1, <2>6, SeenFits
    <3> QED
      BY <1>1, <1>2, <2>6, <3>1 DEF Knows
  <2>7. AtKept(x) =>
          /\ x.fresh # Root
          /\ kind'[x.fresh] = KindAt[Key(x)]
          /\ parent'[x.fresh] = NoNode
          /\ \A n \in Nodes, k \in Keys : entry'[n][k] # x.fresh
    BY <1>1, <1>2, <1>4, <2>1, <2>2, <2>3 DEF Knows, TreeStays
  <2>8. Knows(x)'
    BY <2>2, <2>3, <2>4, <2>5, <2>6, <2>7 DEF Knows, AtKept, Key, Same
  <2>9. Picks(r, x)
    BY <1>1, <1>2, <2>2, <2>3 DEF Picks, Moves, Same
  <2> QED
    BY <1>3, <2>1, <2>2, <2>8, <2>9, QuietKeeps
<1>5. CASE Create(t) /\ ~(r.fresh # NoNode /\ UNCHANGED <<kind, born>>)
  <2> PICK n : n = CHOOSE u \in Nodes : u \notin born
    OBVIOUS
  <2> PICK x : x = Trying(r, n)
    OBVIOUS
  <2>1. /\ r.fresh = NoNode /\ born # Nodes /\ born' = born \cup {n}
        /\ kind' = [kind EXCEPT ![n] = IF Want(r) = "Array" THEN "Array" ELSE "Map"]
        /\ run' = [run EXCEPT ![t] = x]
    BY <1>5 DEF Create, Continue, Goto, Trying
  <2>2. n \in Nodes \ born
    BY <1>2, <2>1
  <2>3. Directed(t, x) /\ Knows(x)' /\ Picks(r, x)
    BY <1>1, <2>1, <2>2, TryingKnows
  <2>4. UNCHANGED <<entry, list, parent, name>> /\ handed' = handed
    BY <1>1 DEF nodeVars, callVars
  <2>5. Steady /\ Stores(r, x) /\ Relates(r) /\ OnlyBorn
    <3>1. \A m \in born : kind'[m] = kind[m]
      BY <1>2, <2>1, <2>2 DEF Inv, Shape
    <3> QED
      BY <1>3, <2>1, <2>4, <3>1 DEF Steady, Lasts, Stores, Relates, OnlyBorn
  <2>6. Hands
    BY <1>3, HandsToHands
  <2>7. Careful(t, x)
    BY <2>1, <2>3, <2>5, <2>6 DEF Careful
  <2>8. Shape'
    <3>1. /\ born' \subseteq Nodes /\ born \subseteq born' /\ Root \in born' /\ kind'[Root] = "Map"
          /\ kind' \in [Nodes -> {"Map", "Array"}]
      BY <1>2, <2>1, <2>2 DEF Inv, Shape
    <3>2. list' \in [Nodes -> Seq(born' \cup Scalars \cup {Blank})]
      <4> DEFINE S == born \cup Scalars \cup {Blank}
                 T == born' \cup Scalars \cup {Blank}
      <4>1. S \subseteq T
        BY <3>1
      <4>2. Seq(S) \subseteq Seq(T)
        BY <4>1, SeqMonotonic
      <4>3. list \in [Nodes -> Seq(S)]
        BY DEF Inv, Shape
      <4> QED
        BY <2>4, <4>2, <4>3
    <3>3. entry' \in [Nodes -> [Keys -> born' \cup Scalars \cup {Blank, NoEntry, Erased}]]
      BY <2>4, <3>1 DEF Inv, Shape
    <3>4. parent' \in [Nodes -> born' \cup {NoNode}] /\ name' \in [Nodes -> Keys \cup {NoName}]
      BY <2>4, <3>1 DEF Inv, Shape
    <3>5. handed' \in [Nodes -> [Kept -> SUBSET born']]
      BY <2>4, <3>1 DEF Inv, Shape
    <3>6. run' \in [Threads -> Locals]
      BY <2>1, <2>3 DEF Directed, Inv, Shape
    <3> QED
      BY <1>3, <3>1, <3>2, <3>3, <3>4, <3>5, <3>6 DEF Shape
  <2> QED
    BY <2>3, <2>7, <2>8, CarefulKeeps
<1> QED
  BY <1>4, <1>5 DEF Create

-----------------------------------------------------------------------------
(* Parents and names. *)

(* r carries what the thread carries, but for the parent its child leaves. *)
Alike(x, r) ==
  /\ Same(x, r) /\ x.pc = r.pc /\ x.then = r.then /\ x.child = r.child /\ x.fresh = r.fresh

(* Where the thread is after its child has changed its parent, and what it *)
(* knows there.                                                            *)
Follows(t, r, x) ==
  /\ run' = [run EXCEPT ![t] = x] /\ Directed(t, x) /\ Knows(x)' /\ Picks(r, x) /\ HandsTo(r)
  /\ begun' \in [Threads -> SUBSET Calls] /\ succeeded' \in [Threads -> SUBSET Calls]

LEMMA AlikePicks ==
  ASSUME NEW r, NEW y, Alike(y, r), NEW x, Picks(y, x)
  PROVE  Picks(r, x)
<1>1. (AtKept(y) <=> AtKept(r)) /\ \A c : Moves(y, c) <=> Moves(r, c)
  BY DEF Alike, Same, AtKept, Key, Moves
<1> QED
  BY <1>1 DEF Picks, Alike

LEMMA LinkedFollows ==
  ASSUME Inv, born' = born, NEW t \in Threads, NEW r, r = run[t], r.pc \in {"link", "leave"},
         entry' = entry \/ r.pc = "leave",
         NEW y, Alike(y, r), Directed(t, y), CarriesBorn(y), Linked(t, y)
  PROVE  \E x : Follows(t, r, x)
<1>1. /\ Directed(t, r) /\ Knows(r) /\ CarriesBorn(r) /\ r.pc # "idle" /\ r \in Locals
      /\ r.node \in Nodes /\ r.node \in born /\ Key(r) \in Keys
      /\ NoNode \notin Nodes /\ NoEntry \notin Nodes /\ born \subseteq Nodes /\ Root \in born
  BY Where DEF Inv, Shape
<1>2. /\ y.pc = r.pc /\ y.pc # "idle" /\ y.then = r.then /\ y.fresh = r.fresh /\ y.child = r.child
      /\ y.array = r.array /\ y.old = r.old /\ y.node = r.node /\ y.call = r.call
      /\ Key(y) = Key(r) /\ (AtKept(y) <=> AtKept(r))
  BY <1>1, SameKey DEF Alike, Same
<1>3. AtKept(r) => ~(r.array /\ r.old \in Nodes)
  BY <1>1 DEF Knows
<1>4. begun \in [Threads -> SUBSET Calls] /\ succeeded \in [Threads -> SUBSET Calls]
  BY DEF Inv, Shape
<1>5. CASE r.then = "arrive"
  <2> PICK n : n = r.fresh
    OBVIOUS
  <2> PICK x : x = Arrived(y, n)
    OBVIOUS
  <2>1. Arrive(t, y, n) /\ Walks(y) /\ Walks(r)
    BY <1>2, <1>5 DEF Linked, Walks
  <2>2. n \in born /\ n \in Nodes
    BY <1>1, <1>5, <2>1 DEF Directed, CarriesBorn
  <2>3. AtKept(y) /\ y.array /\ y.old \in Nodes => y.old = n /\ entry'[Root][Key(y)] = y.old
    BY <1>2, <1>3
  <2>4. Directed(t, x) /\ Knows(x)' /\ Picks(y, x)
    BY <2>1, <2>2, <2>3, ArrivedKnows
  <2>5. Picks(r, x)
    BY <2>4, AlikePicks
  <2>6. /\ run' = [run EXCEPT ![t] = x]
        /\ handed' = Handed(y, n)
        /\ begun' = begun /\ succeeded' \in [Threads -> SUBSET Calls]
    BY <2>1, ArriveMoves
  <2>7. Handed(y, n) = Handed(r, n)
    BY <1>2 DEF Handed
  <2>8. AtKept(r) /\ kind[r.node] = "Map" => entry'[r.node][Key(r)] = n
    BY <1>1, <1>5 DEF Knows
  <2>9. HandsTo(r)
    BY <1>1, <2>2, <2>6, <2>7, <2>8 DEF HandsTo
  <2> QED
    BY <1>4, <2>4, <2>5, <2>6, <2>9 DEF Follows
<1>6. CASE r.then = "append"
  <2> PICK x : x = Appending(y)
    OBVIOUS
  <2>1. run' = [run EXCEPT ![t] = x] /\ UNCHANGED callVars
    BY <1>2, <1>6 DEF Linked, Continue, Goto, Appending
  <2>2. Fills(y)
    BY <1>2, <1>6 DEF Fills
  <2>3. /\ Directed(t, x) /\ Same(x, y)
        /\ x.pc = "append" /\ x.fresh = NoNode /\ x.seen = y.seen /\ x.child = y.child
        /\ x.prev = y.prev
    BY <1>2, <2>2, AppendsDirected
  <2>4. (AtKept(x) <=> AtKept(y)) /\ Simple(x)
    BY <1>2, <2>3, SameKey DEF Simple
  <2>5. CarriesBorn(x)'
    BY <2>3 DEF CarriesBorn, Same
  <2>6. Knows(x)'
    BY <1>2, <1>3, <2>3, <2>4, <2>5, SimpleKnows DEF Same
  <2>7. Picks(r, x)
    BY <1>1, <1>2, <2>3, <2>4, SimplePicks DEF Same
  <2> QED
    BY <1>4, <2>1, <2>3, <2>6, <2>7 DEF Follows, callVars, HandsTo
<1>7. CASE r.then = "return"
  <2> PICK x : x = Idle
    OBVIOUS
  <2>1. Succeed(t)
    BY <1>2, <1>7 DEF Linked
  <2>2. /\ run' = [run EXCEPT ![t] = x] /\ UNCHANGED <<begun, handed>>
        /\ succeeded' \in [Threads -> SUBSET Calls]
    BY <1>1, <2>1, SucceedBooks DEF Succeed, Goto, Returned
  <2>3. Directed(t, x) /\ Knows(x)' /\ Picks(r, x)
    BY <1>1, IdleDirected, IdleKnows, SimpleKnows, SimplePicks
  <2> QED
    BY <1>4, <2>2, <2>3 DEF Follows, HandsTo
<1>8. r.then \in {"arrive", "append", "return"}
  BY <1>1 DEF Directed, Locals
<1> QED
  BY <1>5, <1>6, <1>7, <1>8

(* A thread with a child to link or to take out of its former parent.      *)
LEMMA ChildFacts ==
  ASSUME Inv, NEW t \in Threads, NEW r, r = run[t], r.pc \in {"link", "leave"}
  PROVE  /\ r.child \in born /\ r.child \in Nodes
         /\ r.then = "arrive" => r.fresh = r.child /\ r.fresh # NoNode
         /\ r.then # "arrive" => r.fresh = NoNode
         /\ Moves(r, r.child) \/ (r.then = "arrive" /\ AtKept(r))
         /\ Moves(r, r.child) =>
              name[r.child] \notin Kept /\ \A n \in Nodes, k \in Kept : entry[n][k] # r.child
<1>1. Directed(t, r) /\ CarriesBorn(r) /\ NoNode \notin Nodes /\ born \subseteq Nodes
  BY Where
<1>2. r.child \in born /\ r.child \in Nodes
  BY <1>1 DEF Directed, CarriesBorn
<1>3. /\ r.then = "arrive" => r.fresh = r.child /\ r.fresh # NoNode
      /\ r.then # "arrive" => r.fresh = NoNode
  BY <1>1 DEF Directed, Walks
<1>4. Moves(r, r.child) \/ (r.then = "arrive" /\ AtKept(r))
  BY <1>3 DEF Moves
<1>5. Moves(r, r.child) => name[r.child] \notin Kept /\ \A n \in Nodes, k \in Kept : entry[n][k] # r.child
  BY <1>2 DEF Inv, Apart, KeptUse, FreeUse
<1> QED
  BY <1>2, <1>3, <1>4, <1>5

(* The child has a parent to leave first; a node under a kept key has none. *)
LEMMA LeavingKnows ==
  ASSUME Inv, NEW t \in Threads, NEW r, r = run[t], r.pc = "link",
         NEW p \in born, parent[r.child] = p, p # NoNode, born' = born,
         NEW x, x = Leaving(r, p)
  PROVE  Directed(t, x) /\ Knows(x)' /\ Picks(r, x)
<1>1. /\ Directed(t, r) /\ Knows(r) /\ CarriesBorn(r) /\ r.pc # "idle" /\ p \in Nodes
  BY Where
<1>2. /\ Directed(t, x) /\ Same(x, r)
      /\ x.pc = "leave" /\ x.prev = p /\ x.then = r.then /\ x.child = r.child /\ x.fresh = r.fresh
      /\ x.seen = r.seen
  BY <1>1, LeavesDirected
<1>3. Key(x) = Key(r) /\ (AtKept(x) <=> AtKept(r))
  BY <1>1, <1>2, SameKey
<1>4. AtKept(r) => r.then # "arrive" /\ r.fresh = NoNode
  BY <1>1, ChildFacts DEF Knows
<1>5. CarriesBorn(x)'
  BY <1>1, <1>2 DEF CarriesBorn, Same
<1>6. Knows(x)'
  BY <1>1, <1>2, <1>3, <1>4, <1>5 DEF Knows, AtKept, Key, Same
<1>7. Picks(r, x)
  BY <1>1, <1>2, <1>3 DEF Picks, Moves, Same
<1> QED
  BY <1>2, <1>6, <1>7

LEMMA LinkKeeps ==
  ASSUME Inv, NEW t \in Threads, Link(t)
  PROVE  Inv' /\ Cautious(t)
<1> PICK r : r = run[t]
  OBVIOUS
<1> DEFINE into == IF r.then = "return" THEN NoNode ELSE r.node
           was == parent[r.child]
<1>1. r.pc = "link" /\ UNCHANGED <<kind, born, entry, list>>
  BY DEF Link
<1>2. /\ Directed(t, r) /\ Knows(r) /\ CarriesBorn(r) /\ r.pc # "idle"
      /\ r.node \in Nodes /\ r.node \in born /\ Key(r) \in Keys
      /\ NoNode \notin Nodes /\ born \subseteq Nodes
  BY <1>1, Where
<1>3. /\ r.child \in born /\ r.child \in Nodes
      /\ r.then = "arrive" => r.fresh = r.child /\ r.fresh # NoNode
      /\ Moves(r, r.child) \/ (r.then = "arrive" /\ AtKept(r))
      /\ Moves(r, r.child) => name[r.child] \notin Kept
  BY <1>1, ChildFacts
<1>4. was \in born \cup {NoNode} /\ into \in born \cup {NoNode}
  BY <1>2, <1>3 DEF Inv, Shape
<1>5. Links(r) => was = NoNode /\ into = r.node
  BY <1>2, <1>3 DEF Knows, Links
<1>6. ASSUME Linked(t, r)
      PROVE  \E x : Follows(t, r, x)
  <2> PICK y : y = r
    OBVIOUS
  <2>1. Alike(y, r) /\ Directed(t, y) /\ CarriesBorn(y) /\ Linked(t, y)
    BY <1>2, <1>6 DEF Alike, Same
  <2> QED
    BY <1>1, <2>1, LinkedFollows
<1>7. CASE was = into /\ Linked(t, r) /\ UNCHANGED <<parent, name>>
  <2>1. ~Links(r)
    BY <1>2, <1>5, <1>7
  <2>2. PICK x : Follows(t, r, x)
    BY <1>6, <1>7
  <2> QED
    BY <1>1, <1>7, <2>1, <2>2, QuietKeeps DEF Follows, TreeStays
<1>8. CASE /\ was # into
           /\ parent' = [parent EXCEPT ![r.child] = into]
           /\ name' = [name EXCEPT ![r.child] = NewName(r)]
           /\ IF was = NoNode THEN Linked(t, r)
              ELSE Continue(t, [r EXCEPT !.pc = "leave", !.prev = was])
  <2>1. NewName(r) = (IF r.then = "arrive" THEN Key(r) ELSE name[r.child])
    BY DEF NewName
  <2>2. NewName(r) \in Keys \cup {NoName}
    BY <1>2, <1>3, <2>1 DEF Inv, Shape
  <2>3. Moves(r, r.child) /\ ~Links(r) => NewName(r) \notin Kept
    BY <1>1, <1>2, <1>3, <2>1 DEF Links, AtKept
  <2>4. /\ parent' \in [Nodes -> born \cup {NoNode}] /\ name' \in [Nodes -> Keys \cup {NoName}]
        /\ \A c \in Nodes : c # r.child => parent'[c] = parent[c] /\ name'[c] = name[c]
        /\ parent'[r.child] = into /\ name'[r.child] = NewName(r)
    BY <1>3, <1>4, <1>8, <2>2 DEF Inv, Shape
  <2> HIDE DEF into
  <2>5. Relates(r)
    <3>1. ASSUME Links(r)
          PROVE  r.child = r.fresh /\ parent'[r.fresh] = r.node /\ name'[r.fresh] = Key(r)
      BY <1>3, <1>5, <2>1, <2>4, <3>1 DEF Links
    <3>2. ASSUME ~Links(r)
          PROVE  Moves(r, r.child) /\ name'[r.child] \notin Kept
      BY <1>1, <1>3, <2>3, <2>4, <3>2 DEF Links
    <3> QED
      BY <2>4, <3>1, <3>2 DEF Relates
  <2>6. PICK x : Follows(t, r, x)
    <3>1. CASE was = NoNode
      BY <1>6, <1>8, <3>1
    <3>2. CASE was # NoNode
      <4> PICK x : x = Leaving(r, was)
        OBVIOUS
      <4>1. was \in born
        BY <1>4, <3>2
      <4>2. Directed(t, x) /\ Knows(x)' /\ Picks(r, x)
        BY <1>1, <3>2, <4>1, LeavingKnows
      <4>3. run' = [run EXCEPT ![t] = x] /\ UNCHANGED callVars
        BY <1>8, <3>2 DEF Continue, Goto, Leaving
      <4>4. begun' \in [Threads -> SUBSET Calls] /\ succeeded' \in [Threads -> SUBSET Calls] /\ HandsTo(r)
        BY <4>3 DEF callVars, HandsTo, Inv, Shape
      <4> QED
        BY <4>2, <4>3, <4>4 DEF Follows
    <3> QED
      BY <3>1, <3>2
  <2>7. Typed
    BY <1>1, <2>4, <2>6 DEF Typed, Follows, Inv, Shape
  <2>8. Lasts /\ Elsewhere /\ Stores(r, x)
    BY <1>1, <1>3, <2>4 DEF Lasts, Elsewhere, Stores
  <2> QED
    BY <2>5, <2>6, <2>7, <2>8, StepKeeps DEF Follows
<1> QED
  BY <1>7, <1>8 DEF Link

(* PrivateErase takes entries of free keys away, whatever the child it is  *)
(* asked to erase: the child has no kept name and is under no kept key.    *)
LEMMA LeaveKeeps ==
  ASSUME Inv, NEW t \in Threads, Leave(t)
  PROVE  Inv' /\ Cautious(t)
<1> PICK r : r = run[t]
  OBVIOUS
<1> PICK p : p = r.prev
  OBVIOUS
<1>1. r.pc = "leave" /\ UNCHANGED <<kind, born, parent, name>>
  BY DEF Leave
<1>2. /\ Directed(t, r) /\ Knows(r) /\ CarriesBorn(r) /\ p \in born /\ p \in Nodes
      /\ NoNode \notin Nodes /\ born \subseteq Nodes
  BY <1>1, Where DEF Knows
<1>3. /\ r.child \in born /\ r.child \in Nodes /\ name[r.child] \notin Kept
      /\ \A n \in Nodes, k \in Kept : entry[n][k] # r.child
  <2>1. ~(r.then = "arrive" /\ AtKept(r))
    BY <1>1, <1>2 DEF Knows
  <2> QED
    BY <1>1, <2>1, ChildFacts
<1>4. /\ entry \in [Nodes -> [Keys -> born \cup Scalars \cup {Blank, NoEntry, Erased}]]
      /\ list \in [Nodes -> Seq(born \cup Scalars \cup {Blank})]
      /\ Erased \notin Nodes
  BY ValuesAssumption DEF Inv, Shape
<1>5. entry' = entry \/ \E k \in Keys \ Kept : entry' = [entry EXCEPT ![p][k] = Erased]
  <2> DEFINE named == {name[r.child]} \cap {k \in Keys : At(p, k) # NoEntry}
             here == IF named # {} THEN named ELSE {k \in Keys : At(p, k) = r.child}
  <2>1. \A k \in Keys : At(p, k) = r.child => entry[p][k] = r.child
    BY <1>2, <1>3, AtFacts
  <2>2. named \subseteq Keys \ Kept
    BY <1>3
  <2>3. here \subseteq Keys \ Kept
    BY <1>2, <1>3, <2>1, <2>2
  <2>4. entry' = entry \/ \E k \in here : entry' = [entry EXCEPT ![p][k] = Erased]
    BY DEF Leave
  <2> QED
    BY <2>3, <2>4
<1>6. /\ entry' \in [Nodes -> [Keys -> born \cup Scalars \cup {Blank, NoEntry, Erased}]]
      /\ \A m \in Nodes, j \in Keys :
           entry'[m][j] = entry[m][j] \/ (m = p /\ j \notin Kept /\ entry'[m][j] \notin Nodes)
  <2>1. CASE entry' = entry
    BY <1>4, <2>1
  <2>2. ASSUME NEW k \in Keys \ Kept, entry' = [entry EXCEPT ![p][k] = Erased]
        PROVE  <1>6!1 /\ <1>6!2
    BY <1>2, <1>4, <2>2
  <2> QED
    BY <1>5, <2>1, <2>2
<1>7. list' \in [Nodes -> Seq(born \cup Scalars \cup {Blank})]
  <2>1. list' = IF kind[p] = "Array" THEN [list EXCEPT ![p] = RemoveFirst(@, r.child)] ELSE list
    BY DEF Leave
  <2>2. RemoveFirst(list[p], r.child) \in Seq(born \cup Scalars \cup {Blank})
    BY <1>2, <1>4, RemoveFirstInSeq
  <2> QED
    BY <1>2, <1>4, <2>1, <2>2
<1>8. PICK x : Follows(t, r, x)
  <2> PICK y : y = HavingLeft(r)
    OBVIOUS
  <2>1. /\ Directed(t, y) /\ Same(y, r)
        /\ y.pc = "leave" /\ y.prev = NoNode /\ y.then = r.then /\ y.child = r.child
        /\ y.fresh = r.fresh /\ y.seen = r.seen
    BY <1>1, <1>2, HasLeftDirected
  <2>2. Alike(y, r)
    BY <1>1, <2>1 DEF Alike
  <2>3. CarriesBorn(y)
    BY <1>2, <2>1 DEF CarriesBorn, Same
  <2>4. Linked(t, y)
    BY DEF Leave, HavingLeft
  <2> QED
    BY <1>1, <2>1, <2>2, <2>3, <2>4, LinkedFollows
<1>9. Typed
  BY <1>1, <1>6, <1>7, <1>8 DEF Typed, Follows, Inv, Shape
<1>10. Lasts
  BY <1>6, KeptAssumption DEF Lasts
<1>11. Elsewhere /\ Stores(r, x) /\ Relates(r)
  BY <1>1, <1>2, <1>6 DEF Elsewhere, Stores, Relates, Links
<1> QED
  BY <1>8, <1>9, <1>10, <1>11, StepKeeps DEF Follows

-----------------------------------------------------------------------------
(* The invariant, and what it implies. *)

LEMMA InitInv == Init => Inv
<1> SUFFICES ASSUME Init
             PROVE  Inv
  OBVIOUS
<1>1. /\ NoNode \notin Nodes /\ NoEntry \notin Nodes /\ Erased \notin Nodes
      /\ Root \in Nodes /\ Root \in born /\ born \subseteq Nodes
      /\ Nodes \cap (Scalars \cup {Blank, NoEntry}) = {}
  BY ValuesAssumption DEF Init
<1>2. Idle \in Locals
  BY IdleDirected DEF Directed
<1>3. \A t \in Threads : run[t] = Idle
  BY DEF Init
<1>4. \A n \in Nodes, k \in Keys : entry[n][k] \in Scalars \cup {Blank, NoEntry} /\ entry[n][k] \notin Nodes
  BY <1>1, ValuesAssumption DEF Init
<1>5. Shape
  <2>1. entry \in [Nodes -> [Keys -> born \cup Scalars \cup {Blank, NoEntry, Erased}]]
    <3>1. entry = [n \in Nodes |-> [k \in Keys |-> IF n = Root THEN Present[k] ELSE NoEntry]]
      BY DEF Init
    <3>2. \A k \in Keys : Present[k] \in Scalars \cup {Blank, NoEntry}
      BY ValuesAssumption
    <3> QED
      BY <3>1, <3>2
  <2>2. list \in [Nodes -> Seq(born \cup Scalars \cup {Blank})]
    BY EmptySeq DEF Init
  <2>3. run \in [Threads -> Locals]
    BY <1>2 DEF Init
  <2>4. handed \in [Nodes -> [Kept -> SUBSET born]]
    BY DEF Init
  <2>5. /\ kind \in [Nodes -> {"Map", "Array"}] /\ kind[Root] = "Map"
        /\ parent \in [Nodes -> born \cup {NoNode}]
        /\ name \in [Nodes -> Keys \cup {NoName}]
        /\ begun \in [Threads -> SUBSET Calls] /\ succeeded \in [Threads -> SUBSET Calls]
    BY <1>1 DEF Init
  <2> QED
    BY <1>1, <2>1, <2>2, <2>3, <2>4, <2>5 DEF Shape
<1>6. \A t \in Threads : Directed(t, run[t]) /\ Knows(run[t])
  <2>1. \A t : Directed(t, Idle)
    BY IdleDirected
  <2>2. Knows(Idle)
    BY <1>1, IdleDirected, IdleKnows DEF Knows
  <2> QED
    BY <1>3, <2>1, <2>2
<1>7. \A c \in Nodes : ~KeptUse(c)
  <2> TAKE c \in Nodes
  <2>1. name[c] \notin Kept
    BY ValuesAssumption, KeptAssumption DEF Init
  <2>2. \A t \in Threads : ~AtKept(run[t])
    BY <1>3, IdleDirected
  <2> QED
    BY <1>4, <2>1, <2>2, KeptAssumption DEF KeptUse
<1>8. Apart /\ FreshIsOwn
  BY <1>3, <1>7, IdleDirected DEF Apart, FreshIsOwn
<1>9. Settled /\ Adopted
  BY <1>4, KeptAssumption DEF Settled, Adopted
<1>10. Unborn /\ HandedStays
  <2>1. \A n \in Nodes, k \in Kept : handed[n][k] = {}
    BY DEF Init
  <2>2. \A n \in Nodes : parent[n] = NoNode /\ name[n] = NoName
    BY DEF Init
  <2>3. \A n \in Nodes \ born, k \in Keys : entry[n][k] = NoEntry
    BY DEF Init
  <2> QED
    BY <2>1, <2>2, <2>3 DEF Unborn, HandedStays
<1> QED
  BY <1>5, <1>6, <1>8, <1>9, <1>10 DEF Inv

LEMMA StutterInv ==
  ASSUME Inv, UNCHANGED vars
  PROVE  Inv'
<1>1. UNCHANGED <<kind, born, entry, list, parent, name, run, begun, succeeded, handed>>
  BY DEF vars, nodeVars, callVars
<1>2. Shape'
  BY <1>1 DEF Inv, Shape
<1>3. \A t \in Threads : (Directed(t, run[t]) /\ Knows(run[t]))'
  <2> TAKE t \in Threads
  <2> PICK r : r = run[t]
    OBVIOUS
  <2>1. run'[t] = r
    BY <1>1
  <2>2. Directed(t, r) /\ Knows(r)
    BY DEF Inv
  <2>3. Knows(r)'
    BY <1>1, <2>2 DEF Knows, CarriesBorn, Fits, Want
  <2> QED
    BY <2>1, <2>2, <2>3
<1>4. Apart' /\ FreshIsOwn'
  BY <1>1 DEF Inv, Apart, KeptUse, FreeUse, FreshIsOwn, Moves, AtKept, Key
<1>5. Settled' /\ Adopted' /\ Unborn' /\ HandedStays'
  BY <1>1 DEF Inv, Settled, Adopted, Unborn, HandedStays, Key
<1> QED
  BY <1>2, <1>3, <1>4, <1>5 DEF Inv

LEMMA StepInv ==
  ASSUME Inv, NEW t \in Threads, Step(t) \/ \E c \in CallsOf[t] : Begin(t, c)
  PROVE  Inv' /\ Cautious(t)
<1>1. CASE Look(t) \/ Found(t) \/ GiveUp(t) \/ Create(t)
  BY <1>1, LookKeeps, FoundKeeps, GiveUpKeeps, CreateKeeps
<1>2. CASE ExchangeStores(t) \/ ExchangeFails(t) \/ ExchangeRefused(t) \/ ExchangeUnstored(t)
  BY <1>2, ExchangeStoresKeeps, ExchangeFailsKeeps, ExchangeUnstoredKeeps
<1>3. CASE Link(t) \/ Leave(t)
  BY <1>3, LinkKeeps, LeaveKeeps
<1>4. CASE ReadValue(t) \/ SetValue(t) \/ Orphan(t) \/ InsertValue(t) \/ EraseValue(t)
  BY <1>4, GiveUpKeeps, SetValueKeeps, OrphanKeeps, InsertValueKeeps, EraseValueKeeps
<1>5. CASE ReadExisted(t) \/ KeepOld(t) \/ AppendValue(t)
  BY <1>5, ReadExistedKeeps, KeepOldKeeps, AppendValueKeeps
<1>6. CASE \E c \in CallsOf[t] : Begin(t, c)
  BY <1>6, BeginKeeps
<1> QED
  BY <1>1, <1>2, <1>3, <1>4, <1>5, <1>6 DEF Step

LEMMA NextInv == Inv /\ [Next]_vars => Inv'
BY StepInv, StutterInv DEF Next

LEMMA InvTyped == Inv => TypeOK
<1> SUFFICES ASSUME Inv
             PROVE  TypeOK
  OBVIOUS
<1>1. ASSUME NEW t \in Threads, NEW r, r = run[t]
      PROVE  /\ r.pc \in Stages
             /\ r.pc # "idle" => r.call \in CallsOf[t] /\ r.node \in born /\ r.rest \in Seq(Keys) \ {<<>>}
             /\ r.pc = "exchange" => r.fresh \in born
             /\ r.pc \in {"link", "leave", "orphan"} => r.child \in born
             /\ r.pc = "leave" => r.prev \in born
  <2>1. r \in Locals /\ Directed(t, r) /\ Knows(r) /\ CarriesBorn(r) /\ NoNode \notin Nodes
    BY <1>1, Where
  <2>2. r.pc \in Stages /\ r.rest \in Seq(Keys)
    BY <2>1 DEF Locals
  <2>3. r.pc # "idle" => r.call \in CallsOf[t] /\ r.node \in born /\ r.rest # <<>>
    BY <2>1 DEF Directed, CarriesBorn
  <2>4. /\ r.pc = "exchange" => r.fresh \in born
        /\ r.pc \in {"link", "leave", "orphan"} => r.child \in born
        /\ r.pc = "leave" => r.prev \in born
    BY <2>1 DEF Directed, CarriesBorn, Knows
  <2> QED
    BY <2>2, <2>3, <2>4
<1> QED
  BY <1>1 DEF TypeOK, Inv, Shape

LEMMA InvAdopted == Inv => KeptIsAdopted
<1> SUFFICES ASSUME Inv, NEW n \in Nodes, NEW k \in Kept, entry[n][k] \in Nodes
             PROVE  \/ parent[entry[n][k]] = n /\ name[entry[n][k]] = k
                    \/ \E t \in Threads : /\ run[t].pc = "link" /\ run[t].child = entry[n][k]
                                          /\ run[t].node = n
  BY DEF KeptIsAdopted
<1>1. ASSUME NEW t \in Threads, run[t].pc = "link", run[t].then = "arrive"
      PROVE  run[t].child = run[t].fresh
  BY <1>1, Where DEF Directed, Walks
<1> QED
  BY <1>1 DEF Inv, Adopted

-----------------------------------------------------------------------------
(* Values set or inserted under a key that no other call touches.          *)

EveryCall == UNION {CallsOf[t] : t \in Threads}

Sole(c) == c.op \in {"Set", "Insert"} /\ Alone(c)

SoleKey(k) == \E c \in EveryCall : Sole(c) /\ Last(c.path) = k

(* f leads from the root along the first m keys of the path, over maps     *)
(* that NodeGetByKey has returned.                                         *)
Leads(f, path, m) ==
  /\ f[0] = Root
  /\ \A i \in 0 .. m : kind[f[i]] = "Map"
  /\ \A i \in 1 .. m : f[i] \in handed[f[i - 1]][path[i]]

Reached(n, path, m) == \E f \in [0 .. m -> born] : Leads(f, path, m) /\ f[m] = n

(* The keys are the last ones of the way of c, and n is where they start.  *)
Route(c, n, keys) ==
  /\ Len(keys) < Len(c.path)
  /\ \A i \in 1 .. Len(keys) : keys[i] = c.path[Len(c.path) - 1 - Len(keys) + i]
  /\ Reached(n, c.path, Len(c.path) - 1 - Len(keys))

Within(r) ==
  r.pc # "idle" => \A i \in 1 .. Len(r.rest) : \E j \in 1 .. Len(r.call.path) : r.rest[i] = r.call.path[j]

Routed(r) ==
  /\ r.pc \in {"link", "leave"} /\ r.then = "return" => r.call.op = "Erase"
  /\ r.pc # "idle" /\ Sole(r.call) =>
       /\ Walks(r) => Route(r.call, r.node, r.rest)
       /\ r.pc \in {"apply", "orphan"} => Route(r.call, r.node, <<>>)
       /\ r.pc = "orphan" => entry[r.node][Last(r.call.path)] = r.call.val

(* The value is where the call has put it. *)
Holds(c) ==
  \E n \in born : Reached(n, c.path, Len(c.path) - 1) /\ entry[n][Last(c.path)] = c.val

(* No node is named by such a key, so that no clean-up erases it. *)
Unnamed == \A n \in Nodes : ~SoleKey(name[n])

Sure ==
  /\ \A t \in Threads : Within(run[t]) /\ Routed(run[t])
  /\ \A t \in Threads : \A c \in succeeded[t] : c \in CallsOf[t] /\ (Sole(c) => Holds(c))
  /\ Unnamed

LEMMA SoleFacts ==
  ASSUME NEW c \in EveryCall, Sole(c)
  PROVE  /\ c.path \in Seq(Keys) /\ Len(c.path) \in Nat \ {0} /\ c.val \in Scalars
         /\ c.op \in {"Set", "Insert"}
         /\ Last(c.path) = c.path[Len(c.path)] /\ Last(c.path) \in Keys \ Kept /\ SoleKey(Last(c.path))
         /\ \A i \in 1 .. Len(c.path) - 1 : c.path[i] \in Kept
         /\ \A t \in Threads : \A d \in CallsOf[t] \ {c} :
              \A j \in 1 .. Len(d.path) : d.path[j] # Last(c.path)
<1> PICK u \in Threads : c \in CallsOf[u]
  BY DEF EveryCall
<1>1. /\ c.path \in Seq(Keys) /\ c.path # <<>> /\ Agrees(c)
      /\ c.op \in {"Set", "Insert"} /\ c.val \in Scalars
  BY CallFacts DEF Sole
<1>2. Len(c.path) \in Nat \ {0} /\ Last(c.path) = c.path[Len(c.path)] /\ Last(c.path) \in Keys
  BY <1>1, Ends
<1>3. Last(c.path) \notin Kept
  BY <1>1, <1>2 DEF Agrees
<1>4. /\ \A i \in 1 .. Len(c.path) - 1 : c.path[i] \in Kept
      /\ \A t \in Threads : \A d \in CallsOf[t] \ {c} : Last(c.path) \notin ToSet(d.path)
  BY DEF Sole, Alone
<1>5. ASSUME NEW t \in Threads, NEW d \in CallsOf[t] \ {c}, NEW j \in 1 .. Len(d.path)
      PROVE  d.path[j] # Last(c.path)
  <2>1. d.path \in Seq(Keys)
    BY CallFacts
  <2>2. d.path[j] \in ToSet(d.path)
    BY <2>1 DEF ToSet
  <2> QED
    BY <1>4, <2>2
<1> QED
  BY <1>1, <1>2, <1>3, <1>4, <1>5 DEF SoleKey

(* The keys ahead of a call that is on its way are kept. *)
LEMMA RouteKeys ==
  ASSUME NEW c \in EveryCall, Sole(c), NEW n, NEW keys \in Seq(Keys), Route(c, n, keys)
  PROVE  /\ Len(keys) \in Nat
         /\ Len(c.path) - 1 - Len(keys) \in 0 .. Len(c.path) - 1
         /\ \A i \in 1 .. Len(keys) : keys[i] \in Kept
         /\ \A i \in 1 .. Len(c.path) - 1 - Len(keys) : c.path[i] \in Kept
<1>1. Len(keys) \in Nat /\ Len(c.path) \in Nat \ {0} /\ Len(keys) < Len(c.path)
  BY SoleFacts DEF Route
<1>2. \A i \in 1 .. Len(c.path) - 1 : c.path[i] \in Kept
  BY SoleFacts
<1>3. ASSUME NEW i \in 1 .. Len(keys)
      PROVE  keys[i] \in Kept
  <2>1. keys[i] = c.path[Len(c.path) - 1 - Len(keys) + i]
    BY DEF Route
  <2>2. Len(c.path) - 1 - Len(keys) + i \in 1 .. Len(c.path) - 1
    BY <1>1
  <2> QED
    BY <1>2, <2>1, <2>2
<1> QED
  BY <1>1, <1>2, <1>3

(* Only the call itself is at a key of its own, once it has walked there.  *)
LEMMA SoleAtKey ==
  ASSUME Inv, Sure, NEW t \in Threads, NEW r, r = run[t], r.pc # "idle",
         NEW c \in EveryCall, Sole(c), Key(r) = Last(c.path)
  PROVE  r.call = c /\ ~Walks(r)
<1>1. /\ r \in Locals /\ Directed(t, r) /\ r.rest # <<>> /\ r.call \in CallsOf[t]
      /\ r.rest \in Seq(Keys)
  BY Where DEF Directed, Locals
<1>2. Key(r) = r.rest[1] /\ Len(r.rest) \in Nat \ {0}
  BY <1>1, AtKeys
<1>3. PICK j \in 1 .. Len(r.call.path) : r.rest[1] = r.call.path[j]
  BY <1>2 DEF Sure, Within
<1>4. r.call = c
  BY <1>1, <1>2, <1>3, SoleFacts
<1>5. ASSUME Walks(r)
      PROVE  FALSE
  <2>1. Route(c, r.node, r.rest)
    BY <1>4, <1>5 DEF Sure, Routed
  <2>2. r.rest[1] \in Kept
    BY <1>1, <1>2, <2>1, RouteKeys
  <2> QED
    BY <1>2, <2>2, SoleFacts
<1> QED
  BY <1>4, <1>5

(* Nodes are created, but do not change their type, and what NodeGetByKey  *)
(* has returned is not forgotten.                                          *)
Grown ==
  /\ born \subseteq born'
  /\ \A n \in born : kind'[n] = kind[n]
  /\ \A n \in Nodes, k \in Kept : handed[n][k] \subseteq handed'[n][k]

LEMMA HandedGrows ==
  ASSUME Inv, NEW r, NEW n
  PROVE  /\ \A m \in Nodes, k \in Kept : handed[m][k] \subseteq Handed(r, n)[m][k]
         /\ r.node \in Nodes /\ Key(r) \in Kept => n \in Handed(r, n)[r.node][Key(r)]
<1>1. handed \in [Nodes -> [Kept -> SUBSET born]]
  BY DEF Inv, Shape
<1> QED
  BY <1>1 DEF Handed

LEMMA ReachedStays ==
  ASSUME Inv, Grown, NEW path, NEW m \in Nat, \A i \in 1 .. m : path[i] \in Kept,
         NEW n, Reached(n, path, m)
  PROVE  Reached(n, path, m)'
<1> PICK f \in [0 .. m -> born] : Leads(f, path, m) /\ f[m] = n
  BY DEF Reached
<1>1. f \in [0 .. m -> born']
  BY DEF Grown
<1>2. \A i \in 0 .. m : kind'[f[i]] = "Map"
  BY DEF Grown, Leads
<1>3. ASSUME NEW i \in 1 .. m
      PROVE  f[i] \in handed'[f[i - 1]][path[i]]
  <2>1. i - 1 \in 0 .. m
    OBVIOUS
  <2>2. f[i - 1] \in Nodes
    BY <2>1 DEF Inv, Shape
  <2> QED
    BY <2>2 DEF Grown, Leads
<1>4. Leads(f, path, m)'
  BY <1>2, <1>3 DEF Leads
<1> QED
  BY <1>1, <1>4 DEF Reached

LEMMA RouteStays ==
  ASSUME Inv, Grown, NEW c \in EveryCall, Sole(c), NEW n, NEW keys \in Seq(Keys), Route(c, n, keys)
  PROVE  Route(c, n, keys)'
<1> PICK m : m = Len(c.path) - 1 - Len(keys)
  OBVIOUS
<1>1. m \in Nat /\ \A i \in 1 .. m : c.path[i] \in Kept
  BY RouteKeys, SoleFacts
<1>2. Reached(n, c.path, m)'
  BY <1>1, ReachedStays DEF Route
<1> QED
  BY <1>2 DEF Route


(* g is f with v for the number that follows. *)
Continues(g, f, m, v) == g[m + 1] = v /\ g[0] = f[0] /\ \A i \in 0 .. m : g[i] = f[i]

LEMMA OneMore ==
  ASSUME NEW V, NEW m \in Nat, NEW f \in [0 .. m -> V], NEW v \in V
  PROVE  \E g \in [0 .. m + 1 -> V] : Continues(g, f, m, v)
<1> DEFINE g == [i \in 0 .. m + 1 |-> IF i = m + 1 THEN v ELSE f[i]]
<1>1. \A i \in 0 .. m + 1 : i = m + 1 \/ i \in 0 .. m
  OBVIOUS
<1>2. g \in [0 .. m + 1 -> V]
  BY <1>1
<1>3. m + 1 \in 0 .. m + 1 /\ 0 \in 0 .. m /\ \A i \in 0 .. m : i \in 0 .. m + 1 /\ i # m + 1
  OBVIOUS
<1>4. g[m + 1] = v /\ \A i \in 0 .. m : g[i] = f[i]
  BY <1>3, Zenon
<1> QED
  BY <1>2, <1>3, <1>4 DEF Continues

LEMMA ReachedOn ==
  ASSUME NEW path, NEW m \in Nat, NEW a, Reached(a, path, m)',
         NEW n \in born', kind'[n] = "Map", n \in handed'[a][path[m + 1]]
  PROVE  Reached(n, path, m + 1)'
<1> PICK V : V = born'
  OBVIOUS
<1> PICK f \in [0 .. m -> V] : Leads(f, path, m)' /\ f[m] = a
  BY DEF Reached
<1> PICK g \in [0 .. m + 1 -> V] : Continues(g, f, m, n)
  <2>1. n \in V
    OBVIOUS
  <2> QED
    BY ONLY <2>1, m \in Nat, f \in [0 .. m -> V], OneMore
<1>1. g[m + 1] = n /\ g[0] = f[0] /\ \A i \in 0 .. m : g[i] = f[i]
  BY DEF Continues
<1>2. ASSUME NEW i \in 0 .. m + 1
      PROVE  kind'[g[i]] = "Map"
  <2>1. CASE i = m + 1
    BY <1>1, <2>1
  <2>2. CASE i # m + 1
    <3>1. i \in 0 .. m
      BY <2>2
    <3> QED
      BY <1>1, <3>1 DEF Leads
  <2> QED
    BY <2>1, <2>2
<1>3. ASSUME NEW i \in 1 .. m + 1
      PROVE  g[i] \in handed'[g[i - 1]][path[i]]
  <2>1. i - 1 \in 0 .. m /\ (i = m + 1 => i - 1 = m) /\ (i # m + 1 => i \in 1 .. m /\ i \in 0 .. m)
    OBVIOUS
  <2>2. g[i - 1] = f[i - 1]
    BY <1>1, <2>1
  <2>3. CASE i = m + 1
    BY <1>1, <2>1, <2>2, <2>3
  <2>4. CASE i # m + 1
    <3>1. i \in 1 .. m /\ g[i] = f[i]
      BY <1>1, <2>1, <2>4
    <3> QED
      BY <2>2, <3>1 DEF Leads
  <2> QED
    BY <2>3, <2>4
<1>4. Leads(g, path, m + 1)'
  BY <1>1, <1>2, <1>3 DEF Leads
<1> QED
  BY <1>1, <1>4 DEF Reached

(* The node that NodeGetByKey returns is the next on the route. *)
LEMMA RouteOn ==
  ASSUME NEW c \in EveryCall, Sole(c), NEW a, NEW keys \in Seq(Keys), keys # <<>>,
         Route(c, a, keys)', NEW n \in born', kind'[n] = "Map", n \in handed'[a][keys[1]]
  PROVE  Route(c, n, Tail(keys))'
<1> PICK m : m = Len(c.path) - 1 - Len(keys)
  OBVIOUS
<1> PICK rest : rest = Tail(keys)
  OBVIOUS
<1>1. /\ Len(keys) \in Nat \ {0} /\ Len(c.path) \in Nat \ {0} /\ Len(keys) < Len(c.path)
      /\ Len(rest) = Len(keys) - 1
      /\ \A i \in 1 .. Len(keys) - 1 : rest[i] = keys[i + 1]
  BY SoleFacts, Ends DEF Route
<1>2. m \in Nat /\ Len(c.path) - 1 - Len(rest) = m + 1 /\ Len(rest) < Len(c.path)
  BY <1>1
<1>3. \A i \in 1 .. Len(keys) : keys[i] = c.path[m + i]
  BY DEF Route
<1>4. ASSUME NEW i \in 1 .. Len(rest)
      PROVE  rest[i] = c.path[m + 1 + i]
  <2>1. i + 1 \in 1 .. Len(keys) /\ m + (i + 1) = m + 1 + i
    <3>1. Len(keys) \in Nat /\ Len(rest) = Len(keys) - 1 /\ m \in Nat
      BY <1>1, <1>2
    <3> QED
      BY ONLY <3>1, i \in 1 .. Len(rest)
  <2>2. rest[i] = keys[i + 1]
    BY <1>1
  <2> QED
    BY <1>3, <2>1, <2>2
<1>5. keys[1] = c.path[m + 1]
  BY <1>1, <1>3
<1>6. Reached(n, c.path, m + 1)'
  <2>1. Reached(a, c.path, m)'
    BY DEF Route
  <2> QED
    BY <1>2, <1>5, <2>1, ReachedOn
<1> QED
  BY <1>2, <1>4, <1>6 DEF Route

(* A value that was put under a key of its own stays. *)
SoleStays ==
  \A c \in EveryCall, n \in born :
    Sole(c) /\ entry[n][Last(c.path)] = c.val => entry'[n][Last(c.path)] = c.val

(* What a thread may add to the calls that have succeeded. *)
Books(t, c) ==
  \/ succeeded' = succeeded
  \/ /\ succeeded' = [succeeded EXCEPT ![t] = @ \cup {c}]
     /\ c \in CallsOf[t]
     /\ Sole(c) => Holds(c)'

LEMMA HoldsStays ==
  ASSUME Inv, Grown, SoleStays, NEW c \in EveryCall, Sole(c), Holds(c)
  PROVE  Holds(c)'
<1> PICK n \in born : Reached(n, c.path, Len(c.path) - 1) /\ entry[n][Last(c.path)] = c.val
  BY DEF Holds
<1> PICK m : m = Len(c.path) - 1
  OBVIOUS
<1>1. m \in Nat /\ \A i \in 1 .. m : c.path[i] \in Kept
  BY SoleFacts
<1>2. Reached(n, c.path, m)'
  BY <1>1, ReachedStays
<1>3. n \in born' /\ entry'[n][Last(c.path)] = c.val
  BY DEF Grown, SoleStays
<1> QED
  BY <1>2, <1>3 DEF Holds

(* What another thread knows of its route stays true. *)
LEMMA OthersRouted ==
  ASSUME Inv, Grown, SoleStays, NEW u \in Threads, NEW r, r = run[u], Routed(r)
  PROVE  Routed(r)'
<1> SUFFICES ASSUME r.pc # "idle", Sole(r.call)
             PROVE  /\ Walks(r) => Route(r.call, r.node, r.rest)'
                    /\ r.pc \in {"apply", "orphan"} => Route(r.call, r.node, <<>>)'
                    /\ r.pc = "orphan" => entry'[r.node][Last(r.call.path)] = r.call.val
  BY DEF Routed
<1>1. r.call \in EveryCall /\ r.rest \in Seq(Keys) /\ <<>> \in Seq(Keys) /\ r.node \in born
  BY Where, EmptySeq DEF Directed, Locals, EveryCall
<1> QED
  BY <1>1, RouteStays DEF Routed, SoleStays

LEMMA SureKeeps ==
  ASSUME Inv, Sure, Grown, SoleStays, NEW t \in Threads, NEW x, run' = [run EXCEPT ![t] = x],
         Within(x), Routed(x)', NEW d, Books(t, d), Unnamed'
  PROVE  Sure'
<1>1. ASSUME NEW u \in Threads
      PROVE  (Within(run[u]) /\ Routed(run[u]))'
  <2>1. CASE u = t
    BY <2>1 DEF Inv, Shape
  <2>2. CASE u # t
    <3> PICK r : r = run[u]
      OBVIOUS
    <3>1. run'[u] = r
      BY <2>2 DEF Inv, Shape
    <3>2. Within(r) /\ Routed(r)'
      BY OthersRouted DEF Sure
    <3> QED
      BY <3>1, <3>2
  <2> QED
    BY <2>1, <2>2
<1>2. ASSUME NEW u \in Threads, NEW c \in succeeded'[u]
      PROVE  c \in CallsOf[u] /\ (Sole(c) => Holds(c)')
  <2>1. CASE c \in succeeded[u]
    <3>1. c \in CallsOf[u] /\ c \in EveryCall
      BY <2>1 DEF Sure, EveryCall
    <3> QED
      BY <2>1, <3>1, HoldsStays DEF Sure
  <2>2. CASE c \notin succeeded[u]
    <3>1. succeeded \in [Threads -> SUBSET Calls]
      BY DEF Inv, Shape
    <3>2. CASE succeeded' = succeeded
      BY <2>2, <3>2
    <3>3. CASE /\ succeeded' = [succeeded EXCEPT ![t] = @ \cup {d}]
               /\ d \in CallsOf[t]
               /\ Sole(d) => Holds(d)'
      <4>1. u = t /\ c = d
        BY <2>2, <3>1, <3>3
      <4> QED
        BY <3>3, <4>1
    <3> QED
      BY <3>2, <3>3 DEF Books
  <2> QED
    BY <2>1, <2>2
<1> QED
  BY <1>1, <1>2 DEF Sure


LEMMA GrownIf ==
  ASSUME Inv, UNCHANGED <<kind, born>>, handed' = handed \/ \E r, n : handed' = Handed(r, n)
  PROVE  Grown
<1>1. CASE handed' = handed
  BY <1>1 DEF Grown
<1>2. ASSUME NEW r, NEW n, handed' = Handed(r, n)
      PROVE  Grown
  BY <1>2, HandedGrows DEF Grown
<1> QED
  BY <1>1, <1>2

(* A thread that stays at its key of the way, or whose call sets nothing.  *)
LEMMA StaysRouted ==
  ASSUME Inv, Sure, Grown, NEW t \in Threads, NEW r, r = run[t], r.pc # "idle",
         NEW x, Same(x, r), x.pc # "idle",
         \/ Walks(r) /\ Walks(x)
         \/ /\ r.call.op \notin {"Set", "Insert"}
            /\ x.pc \in {"link", "leave"} /\ x.then = "return" => r.call.op = "Erase"
  PROVE  Within(x) /\ Routed(x)'
<1>1. r.call \in EveryCall /\ r.rest \in Seq(Keys)
  BY Where DEF Directed, Locals, EveryCall
<1>2. x.call = r.call /\ x.node = r.node /\ x.rest = r.rest
  BY DEF Same
<1>3. Within(r) /\ Routed(r)
  BY DEF Sure
<1>4. Within(x)
  BY ONLY <1>2, <1>3, r.pc # "idle" DEF Within
<1>5. CASE Walks(r) /\ Walks(x)
  <2>1. ~(x.pc \in {"link", "leave"} /\ x.then = "return") /\ x.pc \notin {"apply", "orphan"}
    BY ONLY <1>5 DEF Walks
  <2>2. ASSUME Sole(r.call)
        PROVE  Route(r.call, r.node, r.rest)'
    <3>1. Route(r.call, r.node, r.rest)
      BY ONLY <1>3, <1>5, <2>2, r.pc # "idle" DEF Routed
    <3> QED
      BY <1>1, <2>2, <3>1, RouteStays
  <2>3. Routed(x)'
    BY ONLY <1>2, <2>1, <2>2 DEF Routed
  <2> QED
    BY <1>4, <2>3
<1>6. CASE /\ r.call.op \notin {"Set", "Insert"}
           /\ x.pc \in {"link", "leave"} /\ x.then = "return" => r.call.op = "Erase"
  <2>1. ~Sole(r.call)
    BY ONLY <1>6 DEF Sole
  <2>2. Routed(x)'
    BY ONLY <1>2, <1>6, <2>1 DEF Routed
  <2> QED
    BY <1>4, <2>2
<1> QED
  BY <1>5, <1>6

LEMMA IdleRouted == Within(Idle) /\ Routed(Idle)'
<1> PICK x : x = Idle
  OBVIOUS
<1>1. x.pc = "idle"
  BY DEF Idle
<1>2. Within(x) /\ Routed(x)'
  BY <1>1 DEF Within, Routed, Walks
<1> QED
  BY <1>2

(* Where a thread goes from the node that NodeGetByKey has returned. *)
LEMMA ArrivedRouted ==
  ASSUME Inv, Grown, NEW t \in Threads, NEW r, Directed(t, r), Walks(r), Within(r),
         Sole(r.call) => Route(r.call, r.node, r.rest)',
         NEW n \in born', handed' = Handed(r, n), r.node \in Nodes,
         Sole(r.call) => kind'[n] = "Map",
         NEW x, x = Arrived(r, n)
  PROVE  Within(x) /\ Routed(x)'
<1>1. /\ r \in Locals /\ r.pc # "idle" /\ r.call \in CallsOf[t] /\ r.call \in EveryCall
      /\ r.rest # <<>> /\ r.rest \in Seq(Keys) /\ r.array \in BOOLEAN
      /\ Len(r.rest) \in Nat \ {0}
  BY AtKeys DEF Directed, Walks, Locals, EveryCall
<1>2. /\ r.call.path \in Seq(Keys) /\ r.call.path # <<>>
      /\ Len(r.call.path) \in Nat \ {0} /\ Last(r.call.path) = r.call.path[Len(r.call.path)]
  BY <1>1, CallFacts, Ends
<1> PICK rest : rest = Tail(r.rest)
  OBVIOUS
<1>3. /\ rest \in Seq(Keys) /\ Len(rest) = Len(r.rest) - 1
      /\ \A i \in 1 .. Len(r.rest) - 1 : rest[i] = r.rest[i + 1]
  BY <1>1, Ends
<1>4. ASSUME Sole(r.call)
      PROVE  Route(r.call, n, rest)'
  <2>1. Key(r) = r.rest[1] /\ Key(r) \in Kept
    <3>1. Key(r) = r.rest[1]
      BY <1>1, AtKeys
    <3>2. Route(r.call, r.node, r.rest)'
      BY <1>4
    <3>3. /\ Len(r.rest) < Len(r.call.path)
          /\ \A i \in 1 .. Len(r.rest) : r.rest[i] = r.call.path[Len(r.call.path) - 1 - Len(r.rest) + i]
      BY ONLY <3>2 DEF Route
    <3> PICK p, q : p = Len(r.call.path) /\ q = Len(r.rest)
      OBVIOUS
    <3>4. p \in Nat \ {0} /\ q \in Nat \ {0} /\ q < p
      BY <1>1, <1>2, <3>3
    <3>5. 1 \in 1 .. q /\ p - 1 - q + 1 \in 1 .. p - 1
      BY ONLY <3>4
    <3>6. r.rest[1] = r.call.path[p - 1 - q + 1]
      BY <3>3, <3>5
    <3>7. r.rest[1] \in Kept
      BY <1>1, <1>4, <3>5, <3>6, SoleFacts
    <3> QED
      BY <3>1, <3>7
  <2>2. n \in handed'[r.node][r.rest[1]]
    BY <2>1, HandedGrows
  <2> QED
    BY <1>1, <1>4, <2>2, RouteOn
<1>5. CASE r.array
  <2>1. x = WithArray(r, n) /\ r.call.op = "EmplaceToArray"
    BY <1>1, <1>5 DEF Arrived, Directed
  <2>2. x.call = r.call /\ x.rest = r.rest /\ x.pc \in {"append", "keepOld"}
    BY <1>1, <2>1 DEF WithArray, Locals
  <2> QED
    BY <1>1, <2>1, <2>2 DEF Within, Routed, Sole
<1>6. CASE ~r.array /\ Len(r.rest) > 1
  <2>1. x = Walking(r, n, rest)
    BY <1>6 DEF Arrived
  <2>2. x.call = r.call /\ x.rest = rest /\ x.pc = "look" /\ x.node = n
    BY <1>1, <2>1 DEF Walking, Locals
  <2>3. Within(x)
    <3> SUFFICES ASSUME NEW i \in 1 .. Len(rest)
                 PROVE  \E j \in 1 .. Len(r.call.path) : rest[i] = r.call.path[j]
      BY <2>2 DEF Within
    <3>1. i + 1 \in 1 .. Len(r.rest) /\ rest[i] = r.rest[i + 1]
      BY <1>1, <1>3
    <3> QED
      BY <1>1, <3>1 DEF Within
  <2> QED
    BY <1>4, <2>2, <2>3 DEF Routed
<1>7. CASE ~r.array /\ ~(Len(r.rest) > 1) /\ r.call.op # "NodeGet"
  <2>1. x = AtEnd(r, n)
    BY <1>7 DEF Arrived
  <2>2. x.call = r.call /\ x.rest = <<Last(r.call.path)>> /\ x.pc \in {"existed", "apply"} /\ x.node = n
    BY <1>1, <2>1 DEF AtEnd, Locals
  <2>3. Within(x)
    BY <1>2, <2>2 DEF Within
  <2>4. rest = <<>>
    BY <1>1, <1>3, <1>7, OneOrMore
  <2> QED
    BY <1>4, <2>2, <2>3, <2>4 DEF Routed, Walks
<1>8. CASE ~r.array /\ ~(Len(r.rest) > 1) /\ r.call.op = "NodeGet"
  BY <1>8, IdleRouted DEF Arrived, Returned
<1> QED
  BY <1>5, <1>6, <1>7, <1>8

LEMMA StartedRouted ==
  ASSUME Inv, Grown, NEW t \in Threads, NEW c \in CallsOf[t], NEW x, x = Started(c)
  PROVE  Within(x) /\ Routed(x)'
<1> PICK r : r = [Idle EXCEPT !.call = c]
  OBVIOUS
<1> PICK way : way = IF c.op = "NodeGet" THEN c.path ELSE Front(c.path)
  OBVIOUS
<1>1. /\ c.path \in Seq(Keys) /\ c.path # <<>> /\ Len(c.path) \in Nat \ {0}
      /\ Last(c.path) = c.path[Len(c.path)]
      /\ Front(c.path) \in Seq(Keys) /\ Len(Front(c.path)) = Len(c.path) - 1
      /\ \A i \in 1 .. Len(c.path) - 1 : Front(c.path)[i] = c.path[i]
      /\ Front(c.path) = <<>> <=> Len(c.path) = 1
  BY CallFacts, Ends
<1>2. r \in Locals /\ r.call = c
  <2>1. Idle \in Locals /\ c \in Calls
    BY IdleDirected, CallFacts DEF Directed
  <2> QED
    BY <2>1 DEF Locals
<1>3. ASSUME NEW i \in 1 .. Len(way)
      PROVE  \E j \in 1 .. Len(c.path) : way[i] = c.path[j]
  BY <1>1
<1>4. ASSUME Sole(c)
      PROVE  way = Front(c.path) /\ Route(c, Root, way)'
  <2>1. way = Front(c.path)
    BY <1>4 DEF Sole
  <2>2. Reached(Root, c.path, 0)'
    <3> DEFINE f == [i \in 0 .. 0 |-> Root]
    <3>1. f \in [0 .. 0 -> born'] /\ f[0] = Root
      BY DEF Grown, Inv, Shape
    <3>2. kind'[Root] = "Map"
      BY DEF Grown, Inv, Shape
    <3> HIDE DEF f
    <3>3. \A i \in 0 .. 0 : i = 0
      OBVIOUS
    <3>4. ~(\E i : i \in 1 .. 0)
      OBVIOUS
    <3>5. Leads(f, c.path, 0)'
      BY <3>1, <3>2, <3>3, <3>4 DEF Leads
    <3> QED
      BY <3>1, <3>5 DEF Reached
  <2>3. Len(way) = Len(c.path) - 1 /\ Len(c.path) - 1 - Len(way) = 0 /\ Len(way) < Len(c.path)
    BY <1>1, <2>1
  <2>4. ASSUME NEW i \in 1 .. Len(way)
        PROVE  way[i] = c.path[Len(c.path) - 1 - Len(way) + i]
    <3> PICK p, q : p = Len(c.path) /\ q = Len(way)
      OBVIOUS
    <3>1. p \in Nat \ {0} /\ q = p - 1 /\ i \in 1 .. q
      BY <1>1, <2>3
    <3>2. i \in 1 .. p - 1 /\ p - 1 - q + i = i
      BY ONLY <3>1
    <3> QED
      BY <1>1, <2>1, <3>2
  <2> QED
    BY <2>1, <2>2, <2>3, <2>4 DEF Route
<1>5. CASE way = <<>>
  <2>1. x = AtEnd(r, Root)
    BY <1>5 DEF Started
  <2>2. x.call = c /\ x.rest = <<Last(c.path)>> /\ x.pc \in {"existed", "apply"} /\ x.node = Root
    BY <1>2, <2>1 DEF AtEnd, Locals
  <2>3. Within(x)
    BY <1>1, <2>2 DEF Within
  <2> QED
    BY <1>4, <1>5, <2>2, <2>3 DEF Routed, Walks
<1>6. CASE way # <<>>
  <2>1. x = Walking(r, Root, way)
    BY <1>6 DEF Started
  <2>2. x.call = c /\ x.rest = way /\ x.pc = "look" /\ x.node = Root
    BY <1>2, <2>1 DEF Walking, Locals
  <2>3. Within(x)
    BY <1>3, <2>2 DEF Within
  <2> QED
    BY <1>4, <2>2, <2>3 DEF Routed
<1> QED
  BY <1>5, <1>6

(* A thread whose call sets nothing has no route to keep to. *)
LEMMA PassesRouted ==
  ASSUME NEW r, Within(r), r.pc # "idle", r.call.op \notin {"Set", "Insert"},
         NEW x, x.call = r.call, x.rest = r.rest, x.pc # "idle",
         x.pc \in {"link", "leave"} /\ x.then = "return" => r.call.op = "Erase"
  PROVE  Within(x) /\ Routed(x)'
<1>1. ~Sole(x.call)
  BY DEF Sole
<1>2. Within(x)
  BY DEF Within
<1>3. Routed(x)'
  BY <1>1 DEF Routed
<1> QED
  BY <1>2, <1>3

(* On the way of such a call only maps are asked for. *)
LEMMA SoleWants ==
  ASSUME NEW t \in Threads, NEW r, Directed(t, r), Walks(r), Sole(r.call)
  PROVE  Want(r) = "Map" /\ ~r.array /\ r.call \in EveryCall /\ r.rest \in Seq(Keys)
<1>1. r.call.op \in {"Set", "Insert"}
  BY DEF Sole
<1>2. r.pc # "idle"
  BY DEF Walks
<1>3. ~r.array
  BY <1>1, <1>2 DEF Directed
<1>4. TypeFor(r.call) = "Map"
  BY <1>1 DEF TypeFor
<1>5. r.call \in EveryCall /\ r.rest \in Seq(Keys)
  BY <1>2 DEF Directed, Locals, EveryCall
<1> QED
  BY <1>3, <1>4, <1>5 DEF Want

(* Where the thread is after its step, and what it may have booked. *)
Proceeds(t) ==
  \E x, d : run' = [run EXCEPT ![t] = x] /\ Within(x) /\ Routed(x)' /\ Books(t, d)

LEMMA ProceedsSure ==
  ASSUME Inv, Sure, Grown, SoleStays, Unnamed', NEW t \in Threads, Proceeds(t)
  PROVE  Sure'
<1> PICK x, d : run' = [run EXCEPT ![t] = x] /\ Within(x) /\ Routed(x)' /\ Books(t, d)
  BY DEF Proceeds
<1> QED
  BY SureKeeps

LEMMA ContinuesProceed ==
  ASSUME NEW t, NEW x, Continue(t, x), Within(x), Routed(x)'
  PROVE  Proceeds(t)
<1>1. run' = [run EXCEPT ![t] = x] /\ succeeded' = succeeded
  BY DEF Continue, Goto, callVars
<1>2. Books(t, NoCall)
  BY <1>1 DEF Books
<1> QED
  BY <1>1, <1>2 DEF Proceeds

LEMMA ReturnsProceed ==
  ASSUME Inv, NEW t \in Threads, NEW r, r = run[t], r.pc # "idle",
         Fail(t) \/ (Succeed(t) /\ (Sole(r.call) => Holds(r.call)'))
  PROVE  Proceeds(t)
<1> PICK x : x = Idle
  OBVIOUS
<1>1. Within(x) /\ Routed(x)'
  <2>1. Within(Idle) /\ Routed(Idle)'
    BY IdleRouted
  <2>2. Routed(x)' <=> Routed(Idle)'
    OBVIOUS
  <2> QED
    BY <2>1, <2>2
<1>2. r.call \in CallsOf[t]
  BY Where DEF Directed
<1>3. run' = [run EXCEPT ![t] = x]
  BY DEF Fail, Succeed, Goto, Returned
<1>4. Books(t, r.call)
  BY <1>2 DEF Books, Fail, Succeed, callVars
<1> QED
  BY <1>1, <1>3, <1>4 DEF Proceeds

(* What a thread writes under the key it is at. *)
LEMMA WritesSole ==
  ASSUME Inv, Sure, NEW t \in Threads, NEW r, r = run[t], r.pc # "idle", NEW w,
         entry' = [entry EXCEPT ![r.node][Key(r)] = w],
         Walks(r) \/ r.call.op \notin {"Set", "Insert"} \/ w = r.call.val
  PROVE  SoleStays
<1> SUFFICES ASSUME NEW c \in EveryCall, NEW n \in born, Sole(c), entry[n][Last(c.path)] = c.val
             PROVE  entry'[n][Last(c.path)] = c.val
  BY DEF SoleStays
<1>1. Last(c.path) \in Keys /\ n \in Nodes
  BY SoleFacts DEF Inv, Shape
<1>2. entry \in [Nodes -> [Keys -> born \cup Scalars \cup {Blank, NoEntry, Erased}]]
  BY DEF Inv, Shape
<1>3. CASE Key(r) = Last(c.path)
  <2>1. r.call = c /\ ~Walks(r)
    BY <1>3, SoleAtKey
  <2>2. w = c.val
    BY <2>1 DEF Sole
  <2> QED
    BY <1>1, <1>2, <2>2
<1>4. CASE Key(r) # Last(c.path)
  BY <1>1, <1>2, <1>4
<1> QED
  BY <1>3, <1>4

LEMMA UnwrittenSole ==
  ASSUME UNCHANGED entry
  PROVE  SoleStays
BY DEF SoleStays

LEMMA UnnamedStays ==
  ASSUME Sure, UNCHANGED name
  PROVE  Unnamed'
BY DEF Sure, Unnamed

(* Steps that go on within NodeGetByKey. *)
LEMMA WalksSure ==
  ASSUME Inv, Sure, NEW t \in Threads, NEW r, r = run[t], Walks(r), Grown, SoleStays, UNCHANGED name,
         NEW x, Continue(t, x), Same(x, r), Walks(x)
  PROVE  Sure'
<1>1. r.pc # "idle" /\ x.pc # "idle"
  BY DEF Walks
<1>2. Within(x) /\ Routed(x)'
  BY <1>1, StaysRouted
<1>3. Proceeds(t)
  BY <1>2, ContinuesProceed
<1> QED
  BY <1>3, UnnamedStays, ProceedsSure

LEMMA LookSure ==
  ASSUME Inv, Sure, NEW t \in Threads, Look(t) \/ ExchangeFails(t) \/ ExchangeRefused(t)
  PROVE  Sure'
<1> PICK r : r = run[t]
  OBVIOUS
<1> PICK v : v = At(r.node, Key(r))
  OBVIOUS
<1> PICK x : x = Seeing(r, v)
  OBVIOUS
<1>1. /\ r.pc \in {"look", "exchange"} /\ Continue(t, x)
      /\ UNCHANGED <<kind, born, entry, name>>
  BY DEF Look, ExchangeFails, ExchangeRefused, LookAgain, Seeing, nodeVars
<1>2. r \in Locals
  BY Where
<1>3. Same(x, r) /\ Walks(x) /\ Walks(r)
  BY <1>1, <1>2 DEF Seeing, Same, Walks, Locals
<1>4. Grown
  BY <1>1, GrownIf DEF Continue, callVars
<1> QED
  BY <1>1, <1>3, <1>4, UnwrittenSole, WalksSure

LEMMA ExchangeSure ==
  ASSUME Inv, Sure, NEW t \in Threads, ExchangeStores(t) \/ ExchangeUnstored(t)
  PROVE  Sure'
<1> PICK r : r = run[t]
  OBVIOUS
<1> PICK x : x = Attaching(r)
  OBVIOUS
<1>1. /\ r.pc = "exchange" /\ Continue(t, x) /\ UNCHANGED <<kind, born, name>>
      /\ entry' = entry \/ entry' = [entry EXCEPT ![r.node][Key(r)] = r.fresh]
  BY DEF ExchangeStores, ExchangeUnstored, nodeVars
<1>2. r \in Locals
  BY Where
<1>3. Same(x, r) /\ Walks(x) /\ Walks(r) /\ r.pc # "idle"
  BY <1>1, <1>2 DEF Attaching, Same, Walks, Locals
<1>4. Grown
  BY <1>1, GrownIf DEF Continue, callVars
<1>5. SoleStays
  BY <1>1, <1>3, UnwrittenSole, WritesSole
<1> QED
  BY <1>1, <1>3, <1>4, <1>5, WalksSure

LEMMA CreateSure ==
  ASSUME Inv, Sure, NEW t \in Threads, Create(t)
  PROVE  Sure'
<1> PICK r : r = run[t]
  OBVIOUS
<1>1. r.pc = "test" /\ UNCHANGED nodeVars /\ r \in Locals
  BY Where DEF Create
<1>2. PICK n : Continue(t, Trying(r, n)) \/ Continue(t, Retrying(r))
  BY DEF Create, Trying, Retrying
<1> PICK x : Continue(t, x) /\ (x = Trying(r, n) \/ x = Retrying(r))
  BY <1>2
<1>3. Same(x, r) /\ Walks(x) /\ Walks(r)
  BY <1>1 DEF Trying, Retrying, Same, Walks, Locals
<1>4. Grown
  <2>1. handed' = handed
    BY DEF Continue, callVars
  <2>2. CASE UNCHANGED <<kind, born>>
    BY <2>1, <2>2, GrownIf
  <2>3. CASE born # Nodes /\ LET m == CHOOSE u \in Nodes : u \notin born
                             IN  /\ born' = born \cup {m}
                                 /\ kind' = [kind EXCEPT ![m] = IF Want(r) = "Array" THEN "Array" ELSE "Map"]
    <3> DEFINE m == CHOOSE u \in Nodes : u \notin born
    <3>1. born \subseteq Nodes /\ kind \in [Nodes -> {"Map", "Array"}]
      BY DEF Inv, Shape
    <3>2. m \in Nodes \ born
      BY <2>3, <3>1
    <3>3. born' = born \cup {m} /\ kind' = [kind EXCEPT ![m] = IF Want(r) = "Array" THEN "Array" ELSE "Map"]
      BY <2>3
    <3> HIDE DEF m
    <3> QED
      BY <2>1, <3>1, <3>2, <3>3 DEF Grown
  <2> QED
    BY <2>2, <2>3 DEF Create
<1>5. UNCHANGED <<entry, name>>
  BY <1>1 DEF nodeVars
<1> QED
  BY <1>3, <1>4, <1>5, UnwrittenSole, WalksSure


(* NodeGetByKey returns; only NodeGet returns with it. *)
LEMMA ArrivesProceed ==
  ASSUME NEW t \in Threads, NEW r, Directed(t, r), r.pc # "idle", NEW n, Arrive(t, r, n),
         NEW x, x = Arrived(r, n), Within(x), Routed(x)'
  PROVE  Proceeds(t)
<1>1. run' = [run EXCEPT ![t] = x]
  BY DEF Arrive, Arrived, Goto
<1>2. r.call \in CallsOf[t]
  BY DEF Directed
<1>3. \/ succeeded' = succeeded
      \/ r.call.op = "NodeGet" /\ succeeded' = [succeeded EXCEPT ![t] = @ \cup {r.call}]
  BY DEF Arrive
<1>4. Books(t, r.call)
  BY <1>2, <1>3 DEF Books, Sole
<1> QED
  BY <1>1, <1>4 DEF Proceeds

LEMMA FoundSure ==
  ASSUME Inv, Sure, NEW t \in Threads, Found(t)
  PROVE  Sure'
<1> PICK r : r = run[t]
  OBVIOUS
<1> PICK n : n = r.seen
  OBVIOUS
<1> PICK x : x = Arrived(r, n)
  OBVIOUS
<1>1. /\ r.pc = "test" /\ Fits(n, Want(r)) /\ Arrive(t, r, n)
      /\ UNCHANGED <<kind, born, entry, name>>
  BY DEF Found, nodeVars
<1>2. Walks(r) /\ r.pc # "idle"
  BY <1>1 DEF Walks
<1>3. Directed(t, r) /\ CarriesBorn(r) /\ r.node \in Nodes /\ Within(r) /\ Routed(r)
  BY <1>2, Where DEF Sure
<1>4. n \in born
  BY <1>1, <1>3 DEF Fits, CarriesBorn
<1>5. handed' = Handed(r, n)
  BY <1>1 DEF Arrive
<1>6. Grown
  BY <1>1, <1>5, GrownIf
<1>7. ASSUME Sole(r.call)
      PROVE  Route(r.call, r.node, r.rest)' /\ kind'[n] = "Map"
  <2>1. Want(r) = "Map" /\ r.call \in EveryCall /\ r.rest \in Seq(Keys)
    BY <1>2, <1>3, <1>7, SoleWants
  <2>2. Route(r.call, r.node, r.rest)
    BY <1>2, <1>3, <1>7 DEF Routed
  <2> QED
    BY <1>1, <1>6, <1>7, <2>1, <2>2, RouteStays DEF Fits
<1>8. Within(x) /\ Routed(x)'
  BY <1>1, <1>2, <1>3, <1>4, <1>5, <1>6, <1>7, ArrivedRouted
<1>9. Proceeds(t)
  BY <1>1, <1>2, <1>3, <1>8, ArrivesProceed
<1> QED
  BY <1>1, <1>6, <1>9, UnwrittenSole, UnnamedStays, ProceedsSure

(* A child that is not put under a key belongs to EmplaceToArray or Erase. *)
LEMMA ChildOfOthers ==
  ASSUME Inv, Sure, NEW t \in Threads, NEW r, r = run[t], r.pc \in {"link", "leave"},
         r.then # "arrive"
  PROVE  /\ r.call.op \notin {"Set", "Insert"} /\ ~Sole(r.call) /\ Within(r)
         /\ r.then = "return" => r.call.op = "Erase"
<1>1. Directed(t, r) /\ Within(r) /\ Routed(r) /\ r.pc # "idle" /\ r \in Locals
  BY Where DEF Sure
<1>2. r.then = "return" => r.call.op = "Erase"
  BY <1>1 DEF Routed
<1>3. r.then = "append" => r.call.op = "EmplaceToArray"
  BY <1>1 DEF Directed, Fills
<1>4. r.then \in {"append", "return"}
  BY <1>1 DEF Directed, Locals
<1> QED
  BY <1>1, <1>2, <1>3, <1>4 DEF Sole

LEMMA LinkedSure ==
  ASSUME Inv, Sure, UNCHANGED <<kind, born>>, NEW t \in Threads, NEW r, r = run[t],
         r.pc \in {"link", "leave"},
         NEW y, Alike(y, r), Directed(t, y), Linked(t, y)
  PROVE  Grown /\ Proceeds(t)
<1>1. /\ Directed(t, r) /\ Knows(r) /\ CarriesBorn(r) /\ r.node \in Nodes /\ r.pc # "idle"
      /\ Within(r) /\ Routed(r) /\ NoNode \notin Nodes /\ r \in Locals
  BY Where DEF Sure
<1>2. /\ y.pc = r.pc /\ y.then = r.then /\ y.fresh = r.fresh /\ y.child = r.child
      /\ y.call = r.call /\ y.rest = r.rest /\ y.node = r.node
  BY DEF Alike, Same
<1>3. CASE r.then = "arrive"
  <2> PICK n : n = r.fresh
    OBVIOUS
  <2> PICK x : x = Arrived(y, n)
    OBVIOUS
  <2>1. Arrive(t, y, n) /\ Walks(y) /\ Walks(r)
    BY <1>2, <1>3 DEF Linked, Walks
  <2>2. n \in born
    BY <1>1, <1>3, <2>1 DEF Directed, CarriesBorn
  <2>3. handed' = Handed(y, n)
    BY <2>1 DEF Arrive
  <2>4. Grown
    BY <2>3, GrownIf
  <2>5. Within(y)
    BY <1>1, <1>2 DEF Within
  <2>6. ASSUME Sole(r.call)
        PROVE  Route(y.call, y.node, y.rest)' /\ kind'[n] = "Map"
    <3>1. Want(r) = "Map" /\ r.call \in EveryCall /\ r.rest \in Seq(Keys)
      BY <1>1, <2>1, <2>6, SoleWants
    <3>2. Route(r.call, r.node, r.rest)
      BY <1>1, <2>1, <2>6 DEF Routed
    <3>3. Route(r.call, r.node, r.rest)'
      BY <2>4, <2>6, <3>1, <3>2, RouteStays
    <3>4. AtKept(r)
      <4>1. r.rest # <<>>
        BY <1>1 DEF Directed
      <4>2. Key(r) = r.rest[1] /\ Len(r.rest) \in Nat \ {0}
        BY <1>1, <4>1, AtKeys
      <4>3. r.rest[1] \in Kept
        BY <2>6, <3>1, <3>2, <4>2, RouteKeys
      <4> QED
        BY <1>1, <4>2, <4>3 DEF AtKept
    <3>5. KindAt[Key(r)] = "Map"
      BY <1>1, <2>1, <3>1, <3>4, KeptWant
    <3>6. kind[n] = KindAt[Key(r)]
      <4>1. n # NoNode
        BY <1>1, <1>3 DEF Directed, Walks
      <4> QED
        BY ONLY <1>1, <3>4, <4>1, n = r.fresh DEF Knows
    <3>7. y.call = r.call /\ y.rest = r.rest /\ y.node = r.node
      BY <1>2
    <3>8. Route(y.call, y.node, y.rest)'
      BY ONLY <3>3, <3>7
    <3> QED
      BY <3>5, <3>6, <3>8
  <2>7. Within(x) /\ Routed(x)'
    BY <1>1, <1>2, <2>1, <2>2, <2>3, <2>4, <2>5, <2>6, ArrivedRouted
  <2>8. Proceeds(t)
    BY <1>1, <1>2, <2>1, <2>7, ArrivesProceed
  <2> QED
    BY <2>4, <2>8
<1>4. CASE r.then = "append"
  <2> PICK x : x = Appending(y)
    OBVIOUS
  <2>1. Continue(t, x)
    BY <1>2, <1>4 DEF Linked, Appending
  <2>2. y \in Locals
    BY DEF Directed
  <2>3. x.call = r.call /\ x.rest = r.rest /\ x.pc = "append"
    BY <1>2, <2>2 DEF Appending, Locals
  <2>4. r.call.op \notin {"Set", "Insert"}
    BY <1>4, ChildOfOthers
  <2>5. Within(x) /\ Routed(x)'
    BY <1>1, <2>3, <2>4, PassesRouted
  <2>6. Grown
    BY <2>1, GrownIf DEF Continue, callVars
  <2> QED
    BY <2>1, <2>5, <2>6, ContinuesProceed
<1>5. CASE r.then = "return"
  <2>1. Succeed(t)
    BY <1>2, <1>5 DEF Linked
  <2>2. ~Sole(r.call)
    BY <1>5, ChildOfOthers
  <2>3. Grown
    BY <2>1, GrownIf DEF Succeed
  <2> QED
    BY <1>1, <2>1, <2>2, <2>3, ReturnsProceed
<1>6. r.then \in {"arrive", "append", "return"}
  BY <1>1 DEF Directed, Locals
<1> QED
  BY <1>3, <1>4, <1>5, <1>6

(* A child that is linked gets the name of a key of somebody's way, or     *)
(* keeps its own.                                                          *)
LEMMA LinkSure ==
  ASSUME Inv, Sure, NEW t \in Threads, Link(t)
  PROVE  Sure'
<1> PICK r : r = run[t]
  OBVIOUS
<1> DEFINE into == IF r.then = "return" THEN NoNode ELSE r.node
           was == parent[r.child]
<1>1. r.pc = "link" /\ UNCHANGED <<kind, born, entry>> /\ r.pc # "idle"
  BY DEF Link
<1>2. /\ Directed(t, r) /\ r.child \in Nodes /\ r \in Locals /\ r.rest # <<>>
      /\ name \in [Nodes -> Keys \cup {NoName}]
  BY <1>1, Where, ChildFacts DEF Inv, Shape
<1>3. ASSUME Linked(t, r)
      PROVE  Grown /\ Proceeds(t)
  <2> PICK y : y = r
    OBVIOUS
  <2>1. Alike(y, r) /\ Directed(t, y) /\ Linked(t, y)
    BY <1>2, <1>3 DEF Alike, Same
  <2> QED
    BY <1>1, <2>1, LinkedSure
<1>4. ASSUME NEW p, Continue(t, Leaving(r, p))
      PROVE  Grown /\ Proceeds(t)
  <2> PICK x : x = Leaving(r, p)
    OBVIOUS
  <2>1. Same(x, r) /\ x.pc = "leave" /\ x.then = r.then
    BY <1>2 DEF Leaving, Same, Locals
  <2>2. Grown
    BY <1>1, <1>4, GrownIf DEF Continue, callVars
  <2>3. Within(x) /\ Routed(x)'
    <3>1. CASE r.then = "arrive"
      <4>1. Walks(r) /\ Walks(x)
        BY <1>1, <2>1, <3>1 DEF Walks
      <4> QED
        BY <1>1, <2>1, <2>2, <4>1, StaysRouted
    <3>2. CASE r.then # "arrive"
      <4>1. /\ r.call.op \notin {"Set", "Insert"} /\ Within(r)
            /\ r.then = "return" => r.call.op = "Erase"
        BY <1>1, <3>2, ChildOfOthers
      <4>2. x.call = r.call /\ x.rest = r.rest /\ x.pc # "idle"
        BY <2>1 DEF Same
      <4> QED
        BY <1>1, <2>1, <4>1, <4>2, PassesRouted
    <3> QED
      BY <3>1, <3>2
  <2> QED
    BY <1>4, <2>2, <2>3, ContinuesProceed
<1>5. Grown /\ Proceeds(t)
  <2>1. Linked(t, r) \/ Continue(t, Leaving(r, was))
    BY DEF Link, Leaving
  <2> QED
    BY <1>3, <1>4, <2>1
<1>6. Unnamed'
  <2>1. CASE name' = name
    BY <2>1, UnnamedStays
  <2>2. CASE name' = [name EXCEPT ![r.child] = NewName(r)]
    <3>1. ~SoleKey(NewName(r))
      <4>1. CASE r.then = "arrive"
        <5>1. Walks(r) /\ NewName(r) = Key(r)
          BY <1>1, <4>1 DEF Walks, NewName
        <5> QED
          BY <1>1, <5>1, SoleAtKey DEF SoleKey
      <4>2. CASE r.then # "arrive"
        BY <1>2, <4>2 DEF NewName, Sure, Unnamed
      <4> QED
        BY <4>1, <4>2
    <3> QED
      BY <1>2, <2>2, <3>1 DEF Sure, Unnamed
  <2> QED
    BY <2>1, <2>2 DEF Link
<1> QED
  BY <1>1, <1>5, <1>6, UnwrittenSole, ProceedsSure

(* The clean-up erases nothing under such a key: no node is named by it,   *)
(* and what is under it is not a node.                                     *)
LEMMA LeaveSure ==
  ASSUME Inv, Sure, NEW t \in Threads, Leave(t)
  PROVE  Sure'
<1> PICK r : r = run[t]
  OBVIOUS
<1> PICK p : p = r.prev
  OBVIOUS
<1>1. r.pc = "leave" /\ UNCHANGED <<kind, born, name>>
  BY DEF Leave
<1>2. /\ Directed(t, r) /\ Knows(r) /\ p \in Nodes /\ r.child \in Nodes /\ r \in Locals
  BY <1>1, Where, ChildFacts DEF Knows
<1>3. Grown /\ Proceeds(t)
  <2> PICK y : y = HavingLeft(r)
    OBVIOUS
  <2>1. Directed(t, y)
    BY <1>1, <1>2, HasLeftDirected
  <2>2. Alike(y, r)
    BY <1>2 DEF HavingLeft, Alike, Same, Locals
  <2>3. Linked(t, y)
    BY DEF Leave, HavingLeft
  <2> QED
    BY <1>1, <2>1, <2>2, <2>3, LinkedSure
<1>4. SoleStays
  <2> DEFINE named == {name[r.child]} \cap {k \in Keys : At(p, k) # NoEntry}
             here == IF named # {} THEN named ELSE {k \in Keys : At(p, k) = r.child}
  <2>1. entry' = entry \/ \E k \in here : entry' = [entry EXCEPT ![p][k] = Erased]
    BY DEF Leave
  <2>2. here \subseteq Keys /\ \A k \in here : ~SoleKey(k) \/ At(p, k) = r.child
    BY <1>2 DEF Sure, Unnamed
  <2> HIDE DEF here
  <2>3. ASSUME NEW k \in here, entry' = [entry EXCEPT ![p][k] = Erased]
        PROVE  SoleStays
    <3> SUFFICES ASSUME NEW c \in EveryCall, NEW n \in born, Sole(c), entry[n][Last(c.path)] = c.val
                 PROVE  entry'[n][Last(c.path)] = c.val
      BY DEF SoleStays
    <3>1. /\ Last(c.path) \in Keys /\ n \in Nodes /\ SoleKey(Last(c.path)) /\ c.val \in Scalars
          /\ entry \in [Nodes -> [Keys -> born \cup Scalars \cup {Blank, NoEntry, Erased}]]
      BY SoleFacts DEF Inv, Shape
    <3>2. ASSUME k = Last(c.path), n = p
          PROVE  FALSE
      <4>1. At(p, k) = r.child
        BY <2>2, <3>1, <3>2
      <4>2. entry[p][k] = r.child
        BY <1>2, <2>2, <4>1, AtFacts
      <4> QED
        BY <1>2, <3>1, <3>2, <4>2, ValuesAssumption
    <3> QED
      BY <1>2, <2>2, <2>3, <3>1, <3>2
  <2> QED
    BY <2>1, <2>3, UnwrittenSole
<1> QED
  BY <1>1, <1>3, <1>4, UnnamedStays, ProceedsSure


LEMMA ReturnsSure ==
  ASSUME Inv, Sure, NEW t \in Threads, NEW r, r = run[t], r.pc # "idle",
         UNCHANGED <<kind, born, name>>, SoleStays,
         Fail(t) \/ (Succeed(t) /\ (Sole(r.call) => Holds(r.call)'))
  PROVE  Sure'
<1>1. Grown
  BY GrownIf DEF Fail, Succeed, callVars
<1>2. Proceeds(t)
  BY ReturnsProceed
<1> QED
  BY <1>1, <1>2, UnnamedStays, ProceedsSure

LEMMA GiveUpSure ==
  ASSUME Inv, Sure, NEW t \in Threads, GiveUp(t) \/ ReadValue(t)
  PROVE  Sure'
<1> PICK r : r = run[t]
  OBVIOUS
<1>1. /\ r.pc # "idle" /\ UNCHANGED <<kind, born, entry, name>>
      /\ Fail(t) \/ (Succeed(t) /\ r.call.op = "At")
  BY DEF GiveUp, ReadValue, nodeVars
<1>2. r.call.op = "At" => ~Sole(r.call)
  BY DEF Sole
<1> QED
  BY <1>1, <1>2, UnwrittenSole, ReturnsSure

(* Where Set and Insert have come to. *)
LEMMA AtPlace ==
  ASSUME Inv, Sure, NEW t \in Threads, NEW r, r = run[t], r.pc \in {"apply", "orphan"},
         Sole(r.call)
  PROVE  /\ r.call \in EveryCall /\ Key(r) = Last(r.call.path) /\ r.node \in born
         /\ Route(r.call, r.node, <<>>)
         /\ r.pc = "orphan" => entry[r.node][Last(r.call.path)] = r.call.val
<1>1. Directed(t, r) /\ Routed(r) /\ r.node \in born /\ r.pc # "idle"
  BY Where DEF Sure
<1>2. r.call \in EveryCall /\ r.rest = <<Last(r.call.path)>>
  BY <1>1 DEF Directed, EveryCall
<1>3. Key(r) = Last(r.call.path)
  BY <1>2 DEF Key
<1> QED
  BY <1>1, <1>2, <1>3 DEF Routed

LEMMA PlaceHolds ==
  ASSUME Inv, Grown, NEW c \in EveryCall, Sole(c), NEW n \in born, Route(c, n, <<>>),
         entry'[n][Last(c.path)] = c.val
  PROVE  Holds(c)'
<1> PICK keys : keys = <<>>
  OBVIOUS
<1>1. keys \in Seq(Keys) /\ Len(keys) = 0
  BY EmptySeq
<1>2. Route(c, n, keys)'
  BY <1>1, RouteStays
<1>3. Len(c.path) - 1 - Len(keys) = Len(c.path) - 1
  BY <1>1, SoleFacts
<1>4. Reached(n, c.path, Len(c.path) - 1)'
  BY <1>2, <1>3 DEF Route
<1>5. n \in born'
  BY DEF Grown
<1> QED
  BY <1>4, <1>5 DEF Holds

LEMMA SetValueSure ==
  ASSUME Inv, Sure, NEW t \in Threads, SetValue(t) \/ InsertValue(t)
  PROVE  Sure'
<1> PICK r : r = run[t]
  OBVIOUS
<1>1. /\ r.pc = "apply" /\ r.pc # "idle" /\ r.call.op \in {"Set", "Insert"}
      /\ UNCHANGED <<kind, born, name>>
  BY DEF SetValue, InsertValue
<1>2. /\ Directed(t, r) /\ r \in Locals /\ Within(r) /\ r.node \in born /\ r.node \in Nodes
      /\ Key(r) \in Keys /\ entry \in [Nodes -> [Keys -> born \cup Scalars \cup {Blank, NoEntry, Erased}]]
  BY <1>1, Where DEF Sure, Inv, Shape
<1>3. CASE Fail(t) /\ UNCHANGED entry
  BY <1>1, <1>3, UnwrittenSole, ReturnsSure
<1>4. ASSUME entry' = [entry EXCEPT ![r.node][Key(r)] = r.call.val], UNCHANGED handed
      PROVE  /\ Grown /\ SoleStays
             /\ Sole(r.call) => /\ Route(r.call, r.node, <<>>)'
                                /\ entry'[r.node][Last(r.call.path)] = r.call.val
                                /\ Holds(r.call)'
  <2>1. Grown
    BY <1>1, <1>4, GrownIf
  <2>2. SoleStays
    BY <1>1, <1>4, WritesSole
  <2>3. ASSUME Sole(r.call)
        PROVE  /\ Route(r.call, r.node, <<>>)'
               /\ entry'[r.node][Last(r.call.path)] = r.call.val
               /\ Holds(r.call)'
    <3>1. r.call \in EveryCall /\ Key(r) = Last(r.call.path) /\ Route(r.call, r.node, <<>>)
      BY <1>1, <2>3, AtPlace
    <3>2. entry'[r.node][Last(r.call.path)] = r.call.val
      BY <1>2, <1>4, <3>1
    <3>3. Route(r.call, r.node, <<>>)'
      BY <2>1, <2>3, <3>1, RouteStays, EmptySeq
    <3>4. Holds(r.call)'
      BY <1>2, <2>1, <2>3, <3>1, <3>2, PlaceHolds
    <3> QED
      BY <3>2, <3>3, <3>4
  <2> QED
    BY <2>1, <2>2, <2>3
<1>5. CASE entry' = [entry EXCEPT ![r.node][Key(r)] = r.call.val] /\ Succeed(t)
  <2>1. SoleStays /\ (Sole(r.call) => Holds(r.call)')
    BY <1>4, <1>5 DEF Succeed
  <2> QED
    BY <1>1, <1>5, <2>1, ReturnsSure
<1>6. ASSUME NEW v, entry' = [entry EXCEPT ![r.node][Key(r)] = r.call.val],
             Continue(t, Orphaning(r, v))
      PROVE  Sure'
  <2> PICK x : x = Orphaning(r, v)
    OBVIOUS
  <2>1. x.call = r.call /\ x.rest = r.rest /\ x.node = r.node /\ x.pc = "orphan"
    BY <1>2 DEF Orphaning, Locals
  <2>2. /\ Grown /\ SoleStays
        /\ Sole(r.call) => /\ Route(r.call, r.node, <<>>)'
                           /\ entry'[r.node][Last(r.call.path)] = r.call.val
    BY <1>4, <1>6 DEF Continue, callVars
  <2>3. Within(x)
    BY ONLY <1>1, <1>2, <2>1 DEF Within
  <2>4. ~Walks(x) /\ x.pc \notin {"link", "leave"}
    BY ONLY <2>1 DEF Walks
  <2>5. Routed(x)'
    BY ONLY <2>1, <2>2, <2>4 DEF Routed
  <2>6. Proceeds(t)
    BY <1>6, <2>3, <2>5, ContinuesProceed
  <2> QED
    BY <1>1, <2>2, <2>6, UnnamedStays, ProceedsSure
<1> QED
  BY <1>3, <1>5, <1>6 DEF SetValue, InsertValue, Orphaning

LEMMA OrphanSure ==
  ASSUME Inv, Sure, NEW t \in Threads, Orphan(t)
  PROVE  Sure'
<1> PICK r : r = run[t]
  OBVIOUS
<1>1. r.pc = "orphan" /\ r.pc # "idle" /\ UNCHANGED <<kind, born, entry, name, handed>> /\ Succeed(t)
  BY DEF Orphan, Succeed
<1>2. Sole(r.call) => Holds(r.call)'
  BY <1>1, AtPlace, PlaceHolds, GrownIf
<1> QED
  BY <1>1, <1>2, UnwrittenSole, ReturnsSure

LEMMA EraseValueSure ==
  ASSUME Inv, Sure, NEW t \in Threads, EraseValue(t)
  PROVE  Sure'
<1> PICK r : r = run[t]
  OBVIOUS
<1>1. /\ r.pc = "apply" /\ r.pc # "idle" /\ r.call.op = "Erase"
      /\ UNCHANGED <<kind, born, name>>
      /\ entry' = entry \/ entry' = [entry EXCEPT ![r.node][Key(r)] = Erased]
  BY DEF EraseValue
<1>2. r \in Locals /\ Within(r) /\ r.call.op \notin {"Set", "Insert"} /\ ~Sole(r.call)
  BY <1>1, Where DEF Sure, Sole
<1>3. SoleStays
  BY <1>1, <1>2, UnwrittenSole, WritesSole
<1>4. CASE Fail(t) \/ Succeed(t)
  BY <1>1, <1>2, <1>3, <1>4, ReturnsSure
<1>5. ASSUME NEW v, Continue(t, Detaching(r, v))
      PROVE  Sure'
  <2> PICK x : x = Detaching(r, v)
    OBVIOUS
  <2>1. x.call = r.call /\ x.rest = r.rest /\ x.pc # "idle"
    BY <1>2 DEF Detaching, Locals
  <2>2. Within(x) /\ Routed(x)'
    BY <1>1, <1>2, <2>1, PassesRouted
  <2>3. Proceeds(t) /\ Grown
    BY <1>1, <1>5, <2>2, ContinuesProceed, GrownIf DEF Continue, callVars
  <2> QED
    BY <1>1, <1>3, <2>3, UnnamedStays, ProceedsSure
<1> QED
  BY <1>4, <1>5 DEF EraseValue, Detaching

(* EmplaceToArray, which sets nothing under a key of its own. *)
LEMMA EmplaceSure ==
  ASSUME Inv, Sure, NEW t \in Threads, ReadExisted(t) \/ KeepOld(t) \/ AppendValue(t)
  PROVE  Sure'
<1> PICK r : r = run[t]
  OBVIOUS
<1>1. /\ r.pc \in {"existed", "keepOld", "append"} /\ r.pc # "idle"
      /\ UNCHANGED <<kind, born, entry, name>>
  BY DEF ReadExisted, KeepOld, AppendValue, nodeVars
<1>2. /\ r \in Locals /\ Within(r) /\ Directed(t, r)
      /\ r.call.op = "EmplaceToArray"
  BY <1>1, Where DEF Sure, Directed, Fills
<1>3. r.call.op \notin {"Set", "Insert"} /\ ~Sole(r.call)
  BY <1>2 DEF Sole
<1>4. CASE Succeed(t)
  BY <1>1, <1>3, <1>4, UnwrittenSole, ReturnsSure
<1>5. ASSUME NEW x, Continue(t, x), x.call = r.call, x.rest = r.rest, x.pc # "idle",
             ~(x.pc \in {"link", "leave"} /\ x.then = "return")
      PROVE  Sure'
  <2>1. Within(x) /\ Routed(x)'
    BY <1>1, <1>2, <1>3, <1>5, PassesRouted
  <2>2. Proceeds(t) /\ Grown
    BY <1>1, <1>5, <2>1, ContinuesProceed, GrownIf DEF Continue, callVars
  <2> QED
    BY <1>1, <2>2, UnwrittenSole, UnnamedStays, ProceedsSure
<1>6. ASSUME NEW v, Continue(t, Remembering(r, v))
      PROVE  Sure'
  <2> PICK x : x = Remembering(r, v)
    OBVIOUS
  <2>1. x.call = r.call /\ x.rest = r.rest /\ x.pc = "look"
    BY <1>2 DEF Remembering, Walking, Locals
  <2> QED
    BY <1>5, <1>6, <2>1
<1>7. CASE Continue(t, Appending(r)) \/ Continue(t, MovingOld(r))
  <2> PICK x : Continue(t, x) /\ (x = Appending(r) \/ x = MovingOld(r))
    BY <1>7
  <2>1. x.call = r.call /\ x.rest = r.rest /\ (x.pc = "append" \/ (x.pc = "link" /\ x.then = "append"))
    BY <1>2 DEF Appending, MovingOld, Locals
  <2> QED
    BY <1>5, <2>1
<1> QED
  BY <1>4, <1>6, <1>7 DEF ReadExisted, KeepOld, AppendValue, Remembering, Appending, MovingOld

LEMMA BeginSure ==
  ASSUME Inv, Sure, NEW t \in Threads, NEW c \in CallsOf[t], Begin(t, c)
  PROVE  Sure'
<1> PICK x : x = Started(c)
  OBVIOUS
<1>1. /\ UNCHANGED <<kind, born, entry, name, succeeded, handed>>
      /\ run' = [run EXCEPT ![t] = x]
  BY DEF Begin, Goto, nodeVars
<1>2. Grown
  BY <1>1, GrownIf
<1>3. Within(x) /\ Routed(x)'
  BY <1>2, StartedRouted
<1>4. Books(t, NoCall)
  BY <1>1 DEF Books
<1>5. Proceeds(t)
  BY <1>1, <1>3, <1>4 DEF Proceeds
<1> QED
  BY <1>1, <1>2, <1>5, UnwrittenSole, UnnamedStays, ProceedsSure

LEMMA InitSure == Init => Sure
<1> SUFFICES ASSUME Init
             PROVE  Sure
  OBVIOUS
<1>1. \A t \in Threads : run[t] = Idle /\ succeeded[t] = {}
  BY DEF Init
<1>2. Within(Idle) /\ Routed(Idle)
  BY DEF Idle, Within, Routed
<1>3. Unnamed
  <2>1. \A n \in Nodes : name[n] = NoName
    BY DEF Init
  <2>2. NoName \notin Keys
    BY ValuesAssumption
  <2>3. ~SoleKey(NoName)
    BY <2>2, SoleFacts DEF SoleKey
  <2> QED
    BY <2>1, <2>3 DEF Unnamed
<1> QED
  BY <1>1, <1>2, <1>3 DEF Sure

LEMMA StutterSure ==
  ASSUME Inv, Sure, UNCHANGED vars
  PROVE  Sure'
<1>1. UNCHANGED <<kind, born, entry, name, run, succeeded, handed>>
  BY DEF vars, nodeVars, callVars
<1>2. Grown /\ SoleStays
  BY <1>1, GrownIf, UnwrittenSole
<1>3. ASSUME NEW t \in Threads
      PROVE  (Within(run[t]) /\ Routed(run[t]))'
  <2> PICK r : r = run[t]
    OBVIOUS
  <2>1. run'[t] = r /\ Within(r) /\ Routed(r)
    BY <1>1 DEF Sure
  <2>2. Routed(r)'
    BY <1>2, <2>1, OthersRouted
  <2> QED
    BY <2>1, <2>2
<1>4. ASSUME NEW t \in Threads, NEW c \in succeeded'[t]
      PROVE  c \in CallsOf[t] /\ (Sole(c) => Holds(c)')
  <2>1. c \in CallsOf[t] /\ (Sole(c) => Holds(c)) /\ c \in EveryCall
    BY <1>1, <1>4 DEF Sure, EveryCall
  <2> QED
    BY <1>2, <2>1, HoldsStays
<1> QED
  BY <1>1, <1>3, <1>4, UnnamedStays DEF Sure

LEMMA NextSure == Inv /\ Sure /\ [Next]_vars => Sure'
<1> SUFFICES ASSUME Inv, Sure, [Next]_vars
             PROVE  Sure'
  OBVIOUS
<1>1. ASSUME NEW t \in Threads, Step(t)
      PROVE  Sure'
  <2>1. CASE Look(t) \/ Found(t) \/ GiveUp(t) \/ Create(t)
    BY <2>1, LookSure, FoundSure, GiveUpSure, CreateSure
  <2>2. CASE ExchangeStores(t) \/ ExchangeFails(t) \/ ExchangeRefused(t) \/ ExchangeUnstored(t)
    BY <2>2, ExchangeSure, LookSure
  <2>3. CASE Link(t) \/ Leave(t)
    BY <2>3, LinkSure, LeaveSure
  <2>4. CASE ReadValue(t) \/ SetValue(t) \/ Orphan(t) \/ InsertValue(t) \/ EraseValue(t)
    BY <2>4, GiveUpSure, SetValueSure, OrphanSure, EraseValueSure
  <2>5. CASE ReadExisted(t) \/ KeepOld(t) \/ AppendValue(t)
    BY <2>5, EmplaceSure
  <2> QED
    BY <1>1, <2>1, <2>2, <2>3, <2>4, <2>5 DEF Step
<1>2. ASSUME NEW t \in Threads, NEW c \in CallsOf[t], Begin(t, c)
      PROVE  Sure'
  BY <1>2, BeginSure
<1>3. CASE UNCHANGED vars
  BY <1>3, StutterSure
<1> QED
  BY <1>1, <1>2, <1>3 DEF Next


(* A value at a path is known by the values on the way to it. *)
LEMMA ValueAtIs ==
  ASSUME NEW path, NEW n \in Nat, n = Len(path), NEW V, NEW g \in [0 .. n -> V],
         g[0] = Root, \A i \in 1 .. n : g[i] = Onward(g[i - 1], path[i])
  PROVE  ValueAt(path) = g[n]
<1> DEFINE h == CHOOSE h : h = [i \in 0 .. n |-> IF i = 0 THEN Root ELSE Onward(h[i - 1], path[i])]
<1>1. ValueAt(path) = h[n]
  BY DEF ValueAt
<1>2. g = [i \in 0 .. n |-> IF i = 0 THEN Root ELSE Onward(g[i - 1], path[i])]
  <2>1. \A i \in 0 .. n : i = 0 \/ i \in 1 .. n
    OBVIOUS
  <2>2. \A i \in 0 .. n : g[i] = IF i = 0 THEN Root ELSE Onward(g[i - 1], path[i])
    BY <2>1
  <2> QED
    BY <2>2
<1>3. h = [i \in 0 .. n |-> IF i = 0 THEN Root ELSE Onward(h[i - 1], path[i])]
  BY <1>2
<1> HIDE DEF h
<1>4. h[0] = Root /\ \A i \in 1 .. n : h[i] = Onward(h[i - 1], path[i])
  <2>1. 0 \in 0 .. n /\ \A i \in 1 .. n : i \in 0 .. n /\ i # 0
    OBVIOUS
  <2> QED
    BY <1>3, <2>1
<1> DEFINE S == {i \in 0 .. n : h[i] = g[i]}
<1>5. 0 \in S
  BY <1>4
<1>6. ASSUME NEW i \in 1 .. n, i - 1 \in S
      PROVE  i \in S
  <2>1. i \in 0 .. n /\ h[i - 1] = g[i - 1]
    BY <1>6
  <2> QED
    BY <1>4, <2>1
<1> HIDE DEF S
<1>7. n \in S
  <2>1. \A i \in 0 .. n : i \in S
    BY <1>5, <1>6, InductionUpTo
  <2> QED
    BY <2>1
<1> QED
  BY <1>1, <1>7 DEF S

(* Along kept keys the nodes that have been returned are those found now.  *)
LEMMA HoldsValue ==
  ASSUME Inv, NEW c \in EveryCall, Sole(c), Holds(c)
  PROVE  ValueAt(c.path) = c.val
<1> PICK n \in born : Reached(n, c.path, Len(c.path) - 1) /\ entry[n][Last(c.path)] = c.val
  BY DEF Holds
<1> PICK m : m = Len(c.path) - 1
  OBVIOUS
<1>1. /\ m \in Nat /\ Len(c.path) = m + 1 /\ m + 1 \in Nat /\ \A i \in 1 .. m : c.path[i] \in Kept
      /\ Last(c.path) = c.path[m + 1] /\ Last(c.path) \in Keys /\ c.val \in Scalars
  <2>1. Len(c.path) \in Nat \ {0}
    BY SoleFacts
  <2>2. m \in Nat /\ Len(c.path) = m + 1 /\ m + 1 \in Nat
    BY <2>1
  <2> QED
    BY <2>2, SoleFacts
<1> PICK f \in [0 .. m -> born] : Leads(f, c.path, m) /\ f[m] = n
  BY DEF Reached
<1> PICK V : V = born \cup {c.val}
  OBVIOUS
<1> PICK g \in [0 .. m + 1 -> V] : Continues(g, f, m, c.val)
  <2>1. f \in [0 .. m -> V] /\ c.val \in V /\ m \in Nat
    BY <1>1
  <2> QED
    BY ONLY <2>1, OneMore
<1>2. g[m + 1] = c.val /\ g[0] = f[0] /\ \A i \in 0 .. m : g[i] = f[i]
  BY DEF Continues
<1>3. born \subseteq Nodes /\ Kept \subseteq Keys /\ Erased \notin Scalars
  BY ValuesAssumption, KeptAssumption DEF Inv, Shape
<1>4. ASSUME NEW i \in 1 .. m + 1
      PROVE  g[i] = Onward(g[i - 1], c.path[i])
  <2>1. i - 1 \in 0 .. m /\ (i = m + 1 => i - 1 = m) /\ (i # m + 1 => i \in 1 .. m /\ i \in 0 .. m)
    BY <1>1
  <2>2. g[i - 1] = f[i - 1] /\ f[i - 1] \in born /\ f[i - 1] \in Nodes /\ kind[f[i - 1]] = "Map"
    BY <1>2, <1>3, <2>1 DEF Leads
  <2>3. Onward(g[i - 1], c.path[i]) = At(f[i - 1], c.path[i])
    BY <2>2 DEF Onward
  <2>4. CASE i = m + 1
    BY <1>1, <1>2, <1>3, <2>1, <2>2, <2>3, <2>4 DEF At
  <2>5. CASE i # m + 1
    <3>1. i \in 1 .. m /\ g[i] = f[i] /\ f[i] \in Nodes /\ c.path[i] \in Kept
      BY <1>1, <1>2, <1>3, <2>1, <2>5
    <3>2. f[i] \in handed[f[i - 1]][c.path[i]]
      BY <3>1 DEF Leads
    <3>3. entry[f[i - 1]][c.path[i]] = f[i]
      BY <2>2, <3>1, <3>2 DEF Inv, HandedStays
    <3>4. At(f[i - 1], c.path[i]) = f[i]
      BY <1>3, <2>2, <3>1, <3>3, AtFacts
    <3> QED
      BY <2>3, <3>1, <3>4
  <2> QED
    BY <2>4, <2>5
<1>5. g[0] = Root
  BY <1>2 DEF Leads
<1>6. ValueAt(c.path) = g[m + 1]
  <2> PICK e, path : e = m + 1 /\ path = c.path
    OBVIOUS
  <2>1. /\ e \in Nat /\ e = Len(path) /\ g \in [0 .. e -> V] /\ g[0] = Root
        /\ \A i \in 1 .. e : g[i] = Onward(g[i - 1], path[i])
    BY <1>1, <1>4, <1>5
  <2>2. ValueAt(path) = g[e]
    BY ONLY <2>1, ValueAtIs
  <2> QED
    BY <2>2
<1> QED
  BY <1>2, <1>6

LEMMA SureSets == Inv /\ Sure => SetsAreKept
<1> SUFFICES ASSUME Inv, Sure, NEW t \in Threads, NEW c \in succeeded[t], Sole(c)
             PROVE  ValueAt(c.path) = c.val
  BY DEF SetsAreKept, Sole
<1>1. c \in EveryCall /\ Holds(c)
  BY DEF Sure, EveryCall
<1> QED
  BY <1>1, HoldsValue


-----------------------------------------------------------------------------
(* Values emplaced into the array under a kept key of the root.            *)

(* What a call of thread t knows of arrays: its old value is the first one *)
(* under the key, its array is the one under the key, and what it sees or  *)
(* fills under another key is none that a kept key stands for.             *)
Filed(t, r) ==
  /\ r.pc # "idle" => r.call \in begun[t] \ succeeded[t]
  /\ r.pc = "orphan" => r.call.op = "Set"
  /\ AtKept(r) /\ r.array /\ r.old \notin Nodes => r.old = Present[Key(r)]
  /\ ~AtKept(r) /\ r.pc \in {"test", "exchange"} /\ r.seen \in Nodes => ~KeptUse(r.seen)
  /\ ~AtKept(r) /\ Fills(r) => ~KeptUse(r.node)
  /\ AtKept(r) /\ Fills(r) => r.node \in Nodes /\ entry[Root][Key(r)] = r.node
  /\ AtKept(r) /\ r.fresh # NoNode /\ r.pc # "link" => list[r.fresh] = <<>>

(* It has made the array for the key, and has the first value to put in.   *)
Brings(r, k) ==
  /\ r.pc = "keepOld" \/ (r.pc = "link" /\ r.then = "arrive")
  /\ r.array /\ Key(r) = k /\ r.old = Present[k]

Done(k, v) == {q \in Emplacing(k) : q[2].val = v}

Plain == Seq(Scalars \cup {Blank})

Tallied(k, s) ==
  /\ s \in Plain
  /\ \A v \in Scalars \ {Present[k]} :
       IsFiniteSet(Done(k, v)) /\ Times(v, s) = Cardinality(Done(k, v))
  /\ OnlyEmplaced(k) /\ Present[k] # NoEntry =>
       Times(Present[k], s) > 0 \/ \E t \in Threads : Brings(run[t], k)

KeptArrays == {k \in Kept : KindAt[k] = "Array"}

Counted ==
  \A k \in KeptArrays :
    IF entry[Root][k] \in Nodes THEN Tallied(k, list[entry[Root][k]]) ELSE Emplacing(k) = {}

Tally ==
  /\ \A t \in Threads : succeeded[t] \subseteq begun[t] /\ Filed(t, run[t])
  /\ \A n \in Nodes \ born : list[n] = <<>>
  /\ \A k \in Kept : entry[Root][k] \in Nodes \cup {Present[k]}
  /\ Counted

LEMMA TimesFacts ==
  ASSUME NEW S, NEW s \in Seq(S), NEW v, NEW w \in S
  PROVE  /\ Times(v, s) \in Nat
         /\ Times(v, Append(s, w)) = IF w = v THEN Times(v, s) + 1 ELSE Times(v, s)
<1> PICK u : u = Append(s, w)
  OBVIOUS
<1> PICK I : I = {i \in DOMAIN s : s[i] = v}
  OBVIOUS
<1> PICK J : J = {i \in DOMAIN u : u[i] = v}
  OBVIOUS
<1>1. /\ Len(s) \in Nat /\ DOMAIN s = 1 .. Len(s) /\ DOMAIN u = 1 .. Len(s) + 1
      /\ u[Len(s) + 1] = w /\ \A i \in 1 .. Len(s) : u[i] = s[i]
  <2>1. u \in Seq(S) /\ Len(u) = Len(s) + 1 /\ u[Len(s) + 1] = w /\ \A i \in 1 .. Len(s) : u[i] = s[i]
    BY AppendProperties
  <2> QED
    BY <2>1
<1>2. IsFiniteSet(I) /\ Cardinality(I) \in Nat
  <2>1. IsFiniteSet(1 .. Len(s))
    BY <1>1, FS_Interval
  <2>2. I \in SUBSET (1 .. Len(s))
    BY <1>1
  <2> QED
    BY <2>1, <2>2, FS_Subset, FS_CardinalityType
<1>3. Len(s) + 1 \notin I /\ J = IF w = v THEN I \cup {Len(s) + 1} ELSE I
  <2>1. \A i : i \in 1 .. Len(s) + 1 <=> (i \in 1 .. Len(s) \/ i = Len(s) + 1)
    BY <1>1
  <2>2. Len(s) + 1 \notin 1 .. Len(s)
    BY <1>1
  <2> QED
    BY <1>1, <2>1, <2>2
<1>4. Cardinality(J) = IF w = v THEN Cardinality(I) + 1 ELSE Cardinality(I)
  BY <1>2, <1>3, FS_AddElement
<1> QED
  BY <1>2, <1>4 DEF Times

LEMMA TimesNone ==
  ASSUME NEW v
  PROVE  Times(v, <<>>) = 0
<1>1. {i \in DOMAIN <<>> : <<>>[i] = v} = {}
  OBVIOUS
<1> QED
  BY <1>1, FS_EmptySet DEF Times

(* A node is under one kept key only. *)
LEMMA KeptOnce ==
  ASSUME Inv, NEW k \in Kept, NEW j \in Kept, NEW n \in Nodes, NEW m \in Nodes,
         entry[n][k] \in Nodes, entry[n][k] = entry[m][j]
  PROVE  n = m /\ k = j
<1> PICK c \in Nodes : c = entry[n][k] /\ c = entry[m][j]
  OBVIOUS
<1>1. ASSUME NEW t \in Threads, NEW r, r = run[t], r.pc = "link", r.fresh = c, Key(r) \in Kept
      PROVE  \A a \in Nodes, i \in Kept : entry[a][i] = c => a = r.node /\ i = Key(r)
  <2>1. Knows(r) /\ AtKept(r) /\ r.fresh # NoNode
    BY <1>1, Where DEF AtKept
  <2>2. \A a \in Nodes, i \in Keys : entry[a][i] = r.fresh => a = r.node /\ i = Key(r)
    BY <2>1 DEF Knows
  <2> QED
    BY <1>1, <2>2, KeptAssumption
<1>2. ASSUME NEW i \in Kept, NEW a \in Nodes, entry[a][i] = c
      PROVE  \/ parent[c] = a /\ name[c] = i
             \/ \E t \in Threads : LET r == run[t] IN
                  r.pc = "link" /\ r.then = "arrive" /\ r.fresh = c /\ r.node = a /\ Key(r) = i
  BY <1>2 DEF Inv, Adopted
<1> QED
  BY <1>1, <1>2


(* What a step of a thread with locals r may do to the arrays that kept    *)
(* keys stand for: append to its own.                                      *)
Writes(r) ==
  \A c \in Nodes : KeptUse(c) /\ list[c] \in Plain =>
    list'[c] = list[c] \/ (AtKept(r) /\ Fills(r) /\ c = r.node)

LEMMA FreshStays ==
  ASSUME Inv, Tally, NEW t \in Threads, Writes(run[t]),
         NEW u \in Threads, NEW r, r = run[u], AtKept(r), r.fresh # NoNode, r.pc # "link"
  PROVE  list'[r.fresh] = <<>>
<1> PICK q : q = run[t]
  OBVIOUS
<1>1. Filed(u, r) /\ Filed(t, q) /\ Knows(r) /\ Kept \subseteq Keys /\ Root \in Nodes
  BY Where, KeptAssumption DEF Tally
<1>2. r.fresh \in Nodes
  BY Where DEF CarriesBorn
<1>3. list[r.fresh] = <<>> /\ list[r.fresh] \in Plain
  BY <1>1, EmptySeq DEF Filed, Plain
<1>4. KeptUse(r.fresh)
  BY KeptFresh
<1>5. ~(AtKept(q) /\ Fills(q) /\ r.fresh = q.node)
  <2> SUFFICES ASSUME AtKept(q), Fills(q), r.fresh = q.node
               PROVE  FALSE
    OBVIOUS
  <2>1. entry[Root][Key(q)] = r.fresh /\ Key(q) \in Keys
    BY <1>1 DEF Filed, AtKept
  <2> QED
    BY <1>1, <2>1 DEF Knows
<1> QED
  BY <1>2, <1>3, <1>4, <1>5 DEF Writes

LEMMA OthersFiled ==
  ASSUME Inv, Tally, NEW t \in Threads, NEW x, Careful(t, x), Writes(run[t]),
         NEW u \in Threads \ {t}, NEW r, r = run[u],
         begun'[u] = begun[u], succeeded'[u] = succeeded[u]
  PROVE  Filed(u, r)'
<1>1. /\ Filed(u, r) /\ CarriesBorn(r) /\ Root \in Nodes /\ NoNode \notin Nodes
      /\ r.pc # "idle" => r.node \in born
      /\ born \subseteq Nodes
  BY Where DEF Tally
<1>2. \A c \in born : KeptUse(c)' => KeptUse(c)
  BY <1>1, KeptUseBack
<1>3. ~AtKept(r) /\ r.pc \in {"test", "exchange"} /\ r.seen \in Nodes => ~KeptUse(r.seen)'
  <2>1. r.seen \in Nodes => r.seen \in born
    BY <1>1 DEF CarriesBorn
  <2> QED
    BY <1>1, <1>2, <2>1 DEF Filed
<1>4. ~AtKept(r) /\ Fills(r) => ~KeptUse(r.node)'
  <2>1. Fills(r) => r.pc # "idle"
    BY DEF Fills
  <2> QED
    BY <1>1, <1>2, <2>1 DEF Filed
<1>5. AtKept(r) /\ Fills(r) => r.node \in Nodes /\ entry'[Root][Key(r)] = r.node
  BY <1>1 DEF Filed, AtKept, Careful, Steady, Lasts
<1>6. AtKept(r) /\ r.fresh # NoNode /\ r.pc # "link" => list'[r.fresh] = <<>>
  BY FreshStays
<1>7. /\ r.pc # "idle" => r.call \in begun'[u] \ succeeded'[u]
      /\ r.pc = "orphan" => r.call.op = "Set"
      /\ AtKept(r) /\ r.array /\ r.old \notin Nodes => r.old = Present[Key(r)]
  BY <1>1 DEF Filed
<1> QED
  BY ONLY <1>3, <1>4, <1>5, <1>6, <1>7 DEF Filed

(* A thread that stays at its key. *)
LEMMA FiledOn ==
  ASSUME Inv, Tally, NEW t \in Threads, NEW r, r = run[t], r.pc # "idle",
         NEW x, Careful(t, x), Same(x, r), x.pc # "idle", Writes(r),
         begun'[t] = begun[t], succeeded'[t] = succeeded[t],
         x.pc = "orphan" => r.call.op = "Set",
         ~AtKept(r) /\ x.pc \in {"test", "exchange"} /\ x.seen \in Nodes =>
           x.seen \in born /\ ~KeptUse(x.seen),
         Fills(x) => Fills(r),
         x.fresh # NoNode /\ x.pc # "link" =>
           (x.fresh = r.fresh /\ r.pc # "link") \/ list'[x.fresh] = <<>>
  PROVE  Filed(t, x)'
<1>1. /\ Filed(t, r) /\ CarriesBorn(r) /\ Root \in Nodes /\ r.node \in born
      /\ born \subseteq Nodes
  BY Where DEF Tally
<1>2. \A c \in born : KeptUse(c)' => KeptUse(c)
  BY <1>1, KeptUseBack
<1>3. /\ Key(x) = Key(r) /\ (AtKept(x) <=> AtKept(r))
      /\ x.call = r.call /\ x.node = r.node /\ x.array = r.array /\ x.old = r.old
  BY SameKey DEF Same
<1>4. ~AtKept(x) /\ x.pc \in {"test", "exchange"} /\ x.seen \in Nodes => ~KeptUse(x.seen)'
  BY <1>2, <1>3
<1>5. ~AtKept(x) /\ Fills(x) => ~KeptUse(x.node)'
  BY <1>1, <1>2, <1>3 DEF Filed
<1>6. AtKept(x) /\ Fills(x) => x.node \in Nodes /\ entry'[Root][Key(x)] = x.node
  BY <1>1, <1>3 DEF Filed, AtKept, Careful, Steady, Lasts
<1>7. AtKept(x) /\ x.fresh # NoNode /\ x.pc # "link" => list'[x.fresh] = <<>>
  BY <1>3, FreshStays
<1>8. /\ x.pc # "idle" => x.call \in begun'[t] \ succeeded'[t]
      /\ x.pc = "orphan" => x.call.op = "Set"
      /\ AtKept(x) /\ x.array /\ x.old \notin Nodes => x.old = Present[Key(x)]
  BY <1>1, <1>3 DEF Filed
<1> QED
  BY ONLY <1>4, <1>5, <1>6, <1>7, <1>8 DEF Filed

(* A thread that has come to a node by itself, or to the array n.          *)
LEMMA AnewFiled ==
  ASSUME Inv, NEW t \in Threads, NEW r, NEW x, NEW n, Careful(t, x), Anew(t, x, r, n),
         x.call \in begun'[t] \ succeeded'[t],
         Fills(x) => x.rest = r.rest /\ r.pc # "idle",
         AtKept(x) /\ x.array /\ x.old \notin Nodes => x.old = Present[Key(x)],
         Fills(x) /\ AtKept(r) => n \in Nodes /\ entry'[Root][Key(r)] = n,
         Fills(x) /\ ~AtKept(r) => n \in born /\ ~KeptUse(n)
  PROVE  Filed(t, x)'
<1>1. /\ x.fresh = NoNode /\ x.pc \notin {"test", "exchange", "orphan"} /\ x.node = n
  BY DEF Anew, Simple
<1>2. \A c \in born : KeptUse(c)' => KeptUse(c)
  BY KeptUseBack DEF Inv, Shape
<1>3. Fills(x) => Key(x) = Key(r) /\ (AtKept(x) <=> AtKept(r))
  BY DEF Fills, Key, AtKept
<1>4. ~AtKept(x) /\ Fills(x) => ~KeptUse(x.node)'
  BY <1>1, <1>2, <1>3
<1>5. AtKept(x) /\ Fills(x) => x.node \in Nodes /\ entry'[Root][Key(x)] = x.node
  BY <1>1, <1>3
<1> QED
  BY ONLY <1>1, <1>4, <1>5, x.call \in begun'[t] \ succeeded'[t],
          AtKept(x) /\ x.array /\ x.old \notin Nodes => x.old = Present[Key(x)] DEF Filed


(* Where an array is put under a kept key of the root that only            *)
(* EmplaceToArray goes to, the thread has the first value to put in.       *)
LEMMA PutsArray ==
  ASSUME Inv, Sure, Tally, NEW t \in Threads, NEW r, r = run[t], NEW x, Careful(t, x),
         NEW k \in KeptArrays, entry[Root][k] \notin Nodes, entry'[Root][k] \in Nodes
  PROVE  /\ AtKept(r) /\ r.pc = "exchange" /\ entry'[Root][k] = r.fresh /\ r.fresh # NoNode
         /\ OnlyEmplaced(k) => Brings(x, k)
<1>1. /\ Directed(t, r) /\ Knows(r) /\ Within(r) /\ Filed(t, r) /\ r \in Locals
      /\ Root \in Nodes /\ k \in Kept /\ k \in Keys /\ KindAt[k] = "Array"
  BY Where, KeptAssumption DEF Sure, Tally, KeptArrays
<1>2. Puts(r, x, Root, k)
  BY <1>1 DEF Careful, Stores
<1>3. /\ r.pc = "exchange" /\ Key(r) = k /\ entry'[Root][k] = r.fresh /\ Walks(r) /\ AtKept(r)
      /\ x.pc = "link" /\ x.then = "arrive" /\ Same(x, r)
  BY <1>1, <1>2 DEF Puts, Walks, AtKept
<1>4. r.fresh # NoNode /\ r.rest # <<>> /\ r.call \in CallsOf[t]
  BY <1>1, <1>3 DEF Directed
<1>5. Key(r) = r.rest[1] /\ Len(r.rest) \in Nat \ {0}
  BY <1>1, <1>4, AtKeys
<1>6. ASSUME OnlyEmplaced(k)
      PROVE  r.array
  <2> SUFFICES ASSUME ~r.array
               PROVE  FALSE
    OBVIOUS
  <2>1. KindAt[Key(r)] = WantedAt(r, r.rest, 1)
    BY <1>1, <1>3, <1>5 DEF Directed, OnTheWay
  <2>2. r.call.op = "NodeGet"
    BY <1>1, <1>3, <2>1 DEF WantedAt
  <2>3. \E j \in 1 .. Len(r.call.path) : k = r.call.path[j]
    BY <1>1, <1>3, <1>5 DEF Within
  <2>4. r.call.path \in Seq(Keys)
    BY <1>4, CallFacts
  <2>5. k \in ToSet(r.call.path)
    BY <2>3, <2>4 DEF ToSet
  <2> QED
    BY <1>4, <1>6, <2>2, <2>5 DEF OnlyEmplaced
<1>7. ASSUME r.array
      PROVE  r.old = Present[k]
  <2>1. r.old \notin Nodes
    BY <1>1, <1>3, <1>7 DEF Knows
  <2> QED
    BY <1>1, <1>3, <1>7, <2>1 DEF Filed
<1>8. OnlyEmplaced(k) => Brings(x, k)
  BY <1>3, <1>6, <1>7 DEF Brings, Same, Key
<1> QED
  BY <1>3, <1>4, <1>8

(* What a step leaves to do: to count in the arrays there are. *)
LEMMA TallyKeeps ==
  ASSUME Inv, Sure, Tally, NEW t \in Threads, NEW x, Careful(t, x), Filed(t, x)',
         succeeded'[t] \subseteq begun'[t], Writes(run[t]),
         \A u \in Threads \ {t} : begun'[u] = begun[u] /\ succeeded'[u] = succeeded[u],
         \A n \in Nodes \ born' : list'[n] = list[n],
         \A k \in KeptArrays, a \in Nodes : entry[Root][k] = a => Tallied(k, list[a])',
         \A k \in KeptArrays : entry[Root][k] \notin Nodes => Emplacing(k)' = Emplacing(k)
  PROVE  Tally'
<1>1. ASSUME NEW u \in Threads
      PROVE  (succeeded[u] \subseteq begun[u] /\ Filed(u, run[u]))'
  <2>1. CASE u = t
    <3>1. run'[t] = x
      BY RunAfter
    <3>2. Filed(t, run[t])'
      BY <3>1
    <3> QED
      BY <2>1, <3>2
  <2>2. CASE u # t
    <3> PICK r : r = run[u]
      OBVIOUS
    <3>1. run'[u] = r
      BY <2>2, RunAfter
    <3>2. Filed(u, r)'
      BY <2>2, OthersFiled
    <3>3. Filed(u, run[u])'
      BY <3>1, <3>2
    <3>4. succeeded'[u] \subseteq begun'[u]
      BY <2>2 DEF Tally
    <3> QED
      BY <3>3, <3>4
  <2> QED
    BY <2>1, <2>2
<1>2. \A n \in Nodes \ born' : list'[n] = <<>>
  BY DEF Careful, Steady, Tally
<1>3. Root \in Nodes
  BY ValuesAssumption
<1>4. \A k \in Kept : entry'[Root][k] = entry[Root][k] \/ (entry[Root][k] \notin Nodes /\ entry'[Root][k] \in Nodes)
  BY <1>3 DEF Careful, Steady, Lasts
<1>5. \A k \in Kept : entry'[Root][k] \in Nodes \cup {Present[k]}
  BY <1>4 DEF Tally
<1>6. ASSUME NEW k \in KeptArrays
      PROVE  (IF entry[Root][k] \in Nodes THEN Tallied(k, list[entry[Root][k]]) ELSE Emplacing(k) = {})'
  <2>1. CASE entry[Root][k] \in Nodes
    <3> PICK a \in Nodes : a = entry[Root][k]
      BY <2>1
    <3>1. entry'[Root][k] = a
      BY <1>4 DEF KeptArrays
    <3>2. Tallied(k, list[a])'
      OBVIOUS
    <3> QED
      BY <3>1, <3>2
  <2>2. CASE entry[Root][k] \notin Nodes
    <3>1. Emplacing(k)' = {}
      BY <2>2 DEF Tally, Counted
    <3>2. CASE entry'[Root][k] \notin Nodes
      BY <3>1, <3>2
    <3>3. CASE entry'[Root][k] \in Nodes
      <4> PICK r : r = run[t]
        OBVIOUS
      <4>1. /\ AtKept(r) /\ r.pc = "exchange" /\ entry'[Root][k] = r.fresh /\ r.fresh # NoNode
            /\ OnlyEmplaced(k) => Brings(x, k)
        BY <2>2, <3>3, PutsArray
      <4>2. list'[r.fresh] = <<>>
        BY <4>1, FreshStays
      <4>3. run'[t] = x
        BY RunAfter
      <4>4. OnlyEmplaced(k) => \E u \in Threads : Brings(run'[u], k)
        BY <4>1, <4>3
      <4>5. Tallied(k, <<>>)'
        <5>1. \A v : Done(k, v)' = {}
          BY <3>1 DEF Done
        <5>2. \A v : IsFiniteSet(Done(k, v)') /\ Times(v, <<>>) = Cardinality(Done(k, v)')
          BY <5>1, TimesNone, FS_EmptySet
        <5>3. <<>> \in Plain
          BY EmptySeq DEF Plain
        <5>4. (OnlyEmplaced(k) /\ Present[k] # NoEntry => \E u \in Threads : Brings(run[u], k))'
          BY <4>4 DEF OnlyEmplaced
        <5> QED
          BY ONLY <5>2, <5>3, <5>4 DEF Tallied
      <4>6. list'[entry'[Root][k]] = <<>>
        BY <4>1, <4>2
      <4> QED
        BY <3>3, <4>5, <4>6
    <3> QED
      BY <3>2, <3>3
  <2> QED
    BY <2>1, <2>2
<1>7. Counted'
  BY <1>6 DEF Counted
<1> QED
  BY <1>1, <1>2, <1>5, <1>7 DEF Tally



(* What a step of thread t may do that emplaces nothing. *)
TellsNothing(t) ==
  /\ \A u \in Threads \ {t} : begun'[u] = begun[u] /\ succeeded'[u] = succeeded[u]
  /\ succeeded'[t] \subseteq begun'[t]
  /\ \A k \in Kept : Emplacing(k)' = Emplacing(k)

Unfilled ==
  /\ \A c \in Nodes : KeptUse(c) /\ list[c] \in Plain => list'[c] = list[c]
  /\ \A c \in Nodes \ born' : list'[c] = list[c]

LEMMA SameCalls ==
  ASSUME Tally, NEW t \in Threads, succeeded' = succeeded,
         begun' = begun \/ \E c \in CallsOf[t] : begun' = [begun EXCEPT ![t] = @ \cup {c}],
         Inv
  PROVE  TellsNothing(t)
<1>1. \A k \in Kept : Emplacing(k)' = Emplacing(k)
  BY DEF Emplacing
<1>2. begun \in [Threads -> SUBSET Calls]
  BY DEF Inv, Shape
<1>3. \A u \in Threads : succeeded[u] \subseteq begun[u]
  BY DEF Tally
<1>4. /\ \A u \in Threads \ {t} : begun'[u] = begun[u]
      /\ begun[t] \subseteq begun'[t]
  BY <1>2
<1> QED
  BY <1>1, <1>3, <1>4 DEF TellsNothing

LEMMA EmplacingOn ==
  ASSUME Inv, NEW t \in Threads, NEW c \in CallsOf[t], NEW k,
         succeeded' = [succeeded EXCEPT ![t] = @ \cup {c}]
  PROVE  Emplacing(k)' = IF c.op = "EmplaceToArray" /\ c.path = <<k>>
                         THEN Emplacing(k) \cup {<<t, c>>} ELSE Emplacing(k)
<1> PICK C : C = UNION {CallsOf[u] : u \in Threads}
  OBVIOUS
<1>1. c \in C
  OBVIOUS
<1>2. succeeded \in [Threads -> SUBSET Calls]
  BY DEF Inv, Shape
<1>3. \A u \in Threads : succeeded'[u] = IF u = t THEN succeeded[u] \cup {c} ELSE succeeded[u]
  BY <1>2
<1>4. Emplacing(k) = {p \in Threads \X C :
                        p[2] \in succeeded[p[1]] /\ p[2].op = "EmplaceToArray" /\ p[2].path = <<k>>}
  BY DEF Emplacing
<1>5. Emplacing(k)' = {p \in Threads \X C :
                        p[2] \in succeeded'[p[1]] /\ p[2].op = "EmplaceToArray" /\ p[2].path = <<k>>}
  BY DEF Emplacing
<1>6. ASSUME NEW u \in Threads, NEW d \in C
      PROVE  /\ <<u, d>> \in Emplacing(k) <=>
                  d \in succeeded[u] /\ d.op = "EmplaceToArray" /\ d.path = <<k>>
             /\ <<u, d>> \in Emplacing(k)' <=>
                  d \in succeeded'[u] /\ d.op = "EmplaceToArray" /\ d.path = <<k>>
  BY <1>4, <1>5
<1>7. \A p \in Threads \X C :
        p \in Emplacing(k)' <=>
          p \in Emplacing(k) \/ (c.op = "EmplaceToArray" /\ c.path = <<k>> /\ p = <<t, c>>)
  <2> SUFFICES ASSUME NEW u \in Threads, NEW d \in C
               PROVE  <<u, d>> \in Emplacing(k)' <=>
                        \/ <<u, d>> \in Emplacing(k)
                        \/ c.op = "EmplaceToArray" /\ c.path = <<k>> /\ u = t /\ d = c
    OBVIOUS
  <2>1. d \in succeeded'[u] <=> d \in succeeded[u] \/ (u = t /\ d = c)
    BY <1>3
  <2> QED
    BY <1>6, <2>1
<1>8. <<t, c>> \in Threads \X C
  BY <1>1
<1>9. Emplacing(k) \subseteq Threads \X C /\ Emplacing(k)' \subseteq Threads \X C
  BY <1>4, <1>5
<1> PICK E : E = Emplacing(k)'
  OBVIOUS
<1>10. CASE c.op = "EmplaceToArray" /\ c.path = <<k>>
  <2>1. E = Emplacing(k) \cup {<<t, c>>}
    BY ONLY <1>7, <1>8, <1>9, <1>10, E = Emplacing(k)'
  <2> QED
    BY <1>10, <2>1
<1>11. CASE ~(c.op = "EmplaceToArray" /\ c.path = <<k>>)
  <2>1. E = Emplacing(k)
    BY ONLY <1>7, <1>9, <1>11, E = Emplacing(k)'
  <2> QED
    BY <1>11, <2>1
<1> QED
  BY <1>10, <1>11

LEMMA OtherCalls ==
  ASSUME Inv, Tally, NEW t \in Threads, run[t].pc # "idle", run[t].call.op # "EmplaceToArray",
         begun' = begun, succeeded' = [succeeded EXCEPT ![t] = @ \cup {run[t].call}]
  PROVE  TellsNothing(t)
<1>1. run[t].call \in CallsOf[t] /\ run[t].call \in begun[t] /\ succeeded[t] \subseteq begun[t]
  BY Where DEF Directed, Tally, Filed
<1>2. succeeded \in [Threads -> SUBSET Calls]
  BY DEF Inv, Shape
<1>3. \A k \in Kept : Emplacing(k)' = Emplacing(k)
  BY <1>1, EmplacingOn
<1> QED
  BY <1>1, <1>2, <1>3 DEF TellsNothing

LEMMA TalliedStays ==
  ASSUME Inv, NEW t \in Threads, NEW x, Careful(t, x), NEW k, NEW s, Tallied(k, s),
         Emplacing(k)' = Emplacing(k),
         Present[k] # NoEntry /\ Brings(run[t], k) => Times(Present[k], s) > 0 \/ Brings(x, k)
  PROVE  Tallied(k, s)'
<1>1. \A v : Done(k, v)' = Done(k, v)
  BY DEF Done
<1>2. \A u \in Threads : run'[u] = IF u = t THEN x ELSE run[u]
  BY RunAfter
<1>3. \A u \in Threads : Present[k] # NoEntry /\ Brings(run[u], k) =>
                           Times(Present[k], s) > 0 \/ Brings(run'[u], k)
  BY <1>2
<1>4. \A v \in Scalars \ {Present[k]} :
        IsFiniteSet(Done(k, v)') /\ Times(v, s) = Cardinality(Done(k, v)')
  BY <1>1 DEF Tallied
<1>5. OnlyEmplaced(k) /\ Present[k] # NoEntry =>
        Times(Present[k], s) > 0 \/ \E u \in Threads : Brings(run'[u], k)
  BY <1>3 DEF Tallied
<1>6. (OnlyEmplaced(k) /\ Present[k] # NoEntry =>
        Times(Present[k], s) > 0 \/ \E u \in Threads : Brings(run[u], k))'
  BY <1>5 DEF OnlyEmplaced
<1>7. s \in Plain
  BY DEF Tallied
<1> QED
  BY ONLY <1>4, <1>6, <1>7 DEF Tallied

LEMMA QuietTally ==
  ASSUME Inv, Sure, Tally, NEW t \in Threads, NEW x, Careful(t, x), Filed(t, x)',
         TellsNothing(t), Unfilled,
         \A k \in Kept : Present[k] # NoEntry /\ Brings(run[t], k) => Brings(x, k)
  PROVE  Tally'
<1>1. Writes(run[t])
  BY DEF Unfilled, Writes
<1>2. ASSUME NEW k \in KeptArrays, NEW a \in Nodes, entry[Root][k] = a
      PROVE  Tallied(k, list[a])'
  <2>1. Tallied(k, list[a]) /\ k \in Kept /\ Root \in Nodes
    BY <1>2, ValuesAssumption DEF Tally, Counted, KeptArrays
  <2>2. KeptUse(a)
    BY <1>2, <2>1 DEF KeptUse
  <2>3. list'[a] = list[a]
    BY <2>1, <2>2 DEF Unfilled, Tallied
  <2> PICK s : s = list[a]
    OBVIOUS
  <2>4. Tallied(k, s)'
    BY <2>1, TalliedStays DEF TellsNothing
  <2> QED
    BY <2>3, <2>4
<1>3. \A k \in KeptArrays : Emplacing(k)' = Emplacing(k)
  BY DEF TellsNothing, KeptArrays
<1> QED
  BY <1>1, <1>2, <1>3, TallyKeeps DEF TellsNothing, Unfilled


LEMMA CautiousAt ==
  ASSUME Inv, NEW t \in Threads, Cautious(t), NEW x, run' = [run EXCEPT ![t] = x]
  PROVE  Careful(t, x)
<1> PICK y : Careful(t, y)
  BY DEF Cautious
<1>1. run'[t] = y /\ run'[t] = x
  BY RunAfter DEF Inv, Shape
<1> QED
  BY <1>1

(* A thread returns without having emplaced anything. *)
LEMMA ReturnsTally ==
  ASSUME Inv, Sure, Tally, NEW t \in Threads, Cautious(t), run[t].pc \notin {"idle", "keepOld"},
         run[t].pc = "link" => run[t].then # "arrive",
         list' = list, Fail(t) \/ (Succeed(t) /\ run[t].call.op # "EmplaceToArray")
  PROVE  Tally'
<1> PICK x : x = Idle
  OBVIOUS
<1>1. run' = [run EXCEPT ![t] = x]
  BY DEF Fail, Succeed, Goto, Returned
<1>2. Careful(t, x)
  BY <1>1, CautiousAt
<1>3. Filed(t, x)'
  <2>1. ~AtKept(x) /\ x.pc = "idle" /\ ~Fills(x)
    BY IdleDirected DEF Fills
  <2> QED
    BY <2>1 DEF Filed
<1>4. TellsNothing(t)
  BY SameCalls, OtherCalls DEF Fail, Succeed, callVars
<1>5. Unfilled
  BY DEF Unfilled
<1>6. \A k \in Kept : ~Brings(run[t], k)
  BY DEF Brings
<1> QED
  BY <1>2, <1>3, <1>4, <1>5, <1>6, QuietTally

(* A thread goes on at its key, and fills no array. *)
LEMMA GoesOnTally ==
  ASSUME Inv, Sure, Tally, NEW t \in Threads, Cautious(t), NEW r, r = run[t], r.pc # "idle",
         NEW x, Continue(t, x), Same(x, r), x.pc # "idle", Unfilled,
         x.pc = "orphan" => r.call.op = "Set",
         ~AtKept(r) /\ x.pc \in {"test", "exchange"} /\ x.seen \in Nodes =>
           x.seen \in born /\ ~KeptUse(x.seen),
         Fills(x) => Fills(r),
         x.fresh # NoNode /\ x.pc # "link" =>
           (x.fresh = r.fresh /\ r.pc # "link") \/ list'[x.fresh] = <<>>,
         \A k \in Kept : ~Brings(r, k)
  PROVE  Tally'
<1>1. run' = [run EXCEPT ![t] = x] /\ begun' = begun /\ succeeded' = succeeded
  BY DEF Continue, Goto, callVars
<1>2. Careful(t, x)
  BY <1>1, CautiousAt
<1>3. Writes(r)
  BY DEF Unfilled, Writes
<1>4. Filed(t, x)'
  BY <1>1, <1>2, <1>3, FiledOn
<1>5. TellsNothing(t)
  BY <1>1, SameCalls
<1> QED
  BY <1>2, <1>4, <1>5, QuietTally

(* What is under another key stands for no kept key. *)
LEMMA SeenFree ==
  ASSUME Inv, NEW t \in Threads, NEW r, r = run[t], r.pc # "idle", ~AtKept(r),
         NEW v \in Nodes, v = At(r.node, Key(r))
  PROVE  v \in born /\ ~KeptUse(v)
<1>1. r.node \in Nodes /\ Key(r) \in Keys
  BY Where
<1>2. v \in born /\ entry[r.node][Key(r)] = v
  BY <1>1, AtFacts
<1>3. FreeUse(v)
  BY <1>1, <1>2 DEF FreeUse, AtKept
<1> QED
  BY <1>2, <1>3 DEF Inv, Apart

LEMMA LookTally ==
  ASSUME Inv, Sure, Tally, NEW t \in Threads, Cautious(t),
         Look(t) \/ ExchangeFails(t) \/ ExchangeRefused(t)
  PROVE  Tally'
<1> PICK r : r = run[t]
  OBVIOUS
<1> PICK v : v = At(r.node, Key(r))
  OBVIOUS
<1> PICK x : x = Seeing(r, v)
  OBVIOUS
<1>1. r.pc \in {"look", "exchange"} /\ Continue(t, x) /\ list' = list
  BY DEF Look, ExchangeFails, ExchangeRefused, LookAgain, Seeing, nodeVars
<1>2. r \in Locals
  BY Where
<1>3. Same(x, r) /\ x.pc = "test" /\ x.seen = v /\ x.fresh = r.fresh /\ r.pc # "idle"
  BY <1>1, <1>2 DEF Seeing, Same, Locals
<1>4. ~AtKept(r) /\ x.seen \in Nodes => x.seen \in born /\ ~KeptUse(x.seen)
  BY <1>3, SeenFree
<1>5. Unfilled /\ \A k \in Kept : ~Brings(r, k)
  BY <1>1 DEF Unfilled, Brings
<1>6. ~Fills(x)
  BY <1>3 DEF Fills
<1> QED
  BY <1>1, <1>3, <1>4, <1>5, <1>6, GoesOnTally

LEMMA CreateTally ==
  ASSUME Inv, Sure, Tally, NEW t \in Threads, Cautious(t), Create(t)
  PROVE  Tally'
<1> PICK r : r = run[t]
  OBVIOUS
<1>1. /\ r.pc = "test" /\ r.pc # "idle" /\ list' = list /\ r \in Locals
      /\ Filed(t, r) /\ CarriesBorn(r) /\ NoNode \notin Nodes /\ NoEntry \notin Nodes
  BY Where DEF Create, nodeVars, Tally
<1>2. ~AtKept(r) /\ r.seen \in Nodes => r.seen \in born /\ ~KeptUse(r.seen)
  BY <1>1 DEF Filed, CarriesBorn
<1>3. Unfilled /\ \A k \in Kept : ~Brings(r, k)
  BY <1>1 DEF Unfilled, Brings
<1>4. CASE Continue(t, Retrying(r))
  <2> PICK x : x = Retrying(r)
    OBVIOUS
  <2>1. Same(x, r) /\ x.pc = "exchange" /\ x.seen = r.seen /\ x.fresh = r.fresh
    BY <1>1 DEF Retrying, Same, Locals
  <2>2. ~Fills(x)
    BY <2>1 DEF Fills
  <2> QED
    BY <1>1, <1>2, <1>3, <1>4, <2>1, <2>2, GoesOnTally
<1>5. ASSUME NEW n \in Nodes \ born, Continue(t, Trying(r, n))
      PROVE  Tally'
  <2> PICK x : x = Trying(r, n)
    OBVIOUS
  <2>1. Same(x, r) /\ x.pc = "exchange" /\ x.seen = r.seen /\ x.fresh = n
    BY <1>1 DEF Trying, Same, Locals
  <2>2. ~Fills(x)
    BY <2>1 DEF Fills
  <2>3. list'[n] = <<>>
    BY <1>1 DEF Tally
  <2> QED
    BY <1>1, <1>2, <1>3, <1>5, <2>1, <2>2, <2>3, GoesOnTally
<1>6. born \subseteq Nodes
  BY DEF Inv, Shape
<1>7. Continue(t, Retrying(r)) \/ \E n \in Nodes \ born : Continue(t, Trying(r, n))
  <2>1. CASE born # Nodes /\ Continue(t, Trying(r, CHOOSE u \in Nodes : u \notin born))
    <3> PICK m : m = CHOOSE u \in Nodes : u \notin born
      OBVIOUS
    <3>1. m \in Nodes \ born
      BY <1>6, <2>1
    <3> QED
      BY <2>1, <3>1
  <2> QED
    BY <2>1 DEF Create, Trying, Retrying
<1> QED
  BY <1>4, <1>5, <1>7

LEMMA ExchangeTally ==
  ASSUME Inv, Sure, Tally, NEW t \in Threads, Cautious(t), ExchangeStores(t) \/ ExchangeUnstored(t)
  PROVE  Tally'
<1> PICK r : r = run[t]
  OBVIOUS
<1> PICK x : x = Attaching(r)
  OBVIOUS
<1>1. r.pc = "exchange" /\ Continue(t, x) /\ list' = list /\ r.pc # "idle"
  BY DEF ExchangeStores, ExchangeUnstored, nodeVars
<1>2. r \in Locals
  BY Where
<1>3. Same(x, r) /\ x.pc = "link" /\ x.then = "arrive"
  BY <1>1, <1>2 DEF Attaching, Same, Locals
<1>4. Unfilled /\ \A k \in Kept : ~Brings(r, k)
  BY <1>1 DEF Unfilled, Brings
<1>5. ~Fills(x)
  BY <1>3 DEF Fills
<1> QED
  BY <1>1, <1>3, <1>4, <1>5, GoesOnTally


LEMMA ApplyTally ==
  ASSUME Inv, Sure, Tally, NEW t \in Threads, Cautious(t),
         GiveUp(t) \/ ReadValue(t) \/ SetValue(t) \/ InsertValue(t) \/ EraseValue(t)
  PROVE  Tally'
<1> PICK r : r = run[t]
  OBVIOUS
<1>1. /\ r.pc \in {"test", "apply"} /\ r.pc \notin {"idle", "keepOld", "link"} /\ list' = list
      /\ r.pc = "apply" => r.call.op # "EmplaceToArray"
      /\ r \in Locals
  BY Where DEF GiveUp, ReadValue, SetValue, InsertValue, EraseValue, nodeVars, Directed
<1>2. CASE Fail(t) \/ (Succeed(t) /\ r.pc = "apply")
  BY <1>1, <1>2, ReturnsTally
<1>3. ASSUME NEW v, NEW x, Continue(t, x),
             (x = Orphaning(r, v) /\ r.call.op = "Set") \/ x = Detaching(r, v)
      PROVE  Tally'
  <2>1. /\ Same(x, r) /\ x.pc \in {"orphan", "link"} /\ x.fresh = r.fresh
        /\ x.pc = "orphan" => r.call.op = "Set"
        /\ x.pc = "link" => x.then = "return"
    BY <1>1, <1>3 DEF Orphaning, Detaching, Same, Locals
  <2>2. ~Fills(x) /\ Unfilled /\ \A k \in Kept : ~Brings(r, k)
    BY <1>1, <2>1 DEF Fills, Unfilled, Brings
  <2> QED
    BY <1>1, <1>3, <2>1, <2>2, GoesOnTally
<1>4. CASE GiveUp(t) \/ ReadValue(t) \/ InsertValue(t)
  BY <1>2, <1>4 DEF GiveUp, ReadValue, InsertValue
<1>5. CASE SetValue(t)
  BY <1>2, <1>3, <1>5 DEF SetValue, Orphaning
<1>6. CASE EraseValue(t)
  BY <1>2, <1>3, <1>6 DEF EraseValue, Detaching
<1> QED
  BY <1>4, <1>5, <1>6

LEMMA OrphanTally ==
  ASSUME Inv, Sure, Tally, NEW t \in Threads, Cautious(t), Orphan(t)
  PROVE  Tally'
<1>1. run[t].pc = "orphan" /\ list' = list /\ Succeed(t)
  BY DEF Orphan
<1>2. run[t].call.op = "Set"
  BY <1>1 DEF Tally, Filed
<1> QED
  BY <1>1, <1>2, ReturnsTally

(* EmplaceToArray reads what is there before it asks for its array.        *)
LEMMA ReadExistedTally ==
  ASSUME Inv, Sure, Tally, NEW t \in Threads, Cautious(t), ReadExisted(t)
  PROVE  Tally'
<1> PICK r : r = run[t]
  OBVIOUS
<1> PICK v : v = At(r.node, Key(r))
  OBVIOUS
<1> PICK x : x = Remembering(r, v)
  OBVIOUS
<1>1. r.pc = "existed" /\ Continue(t, x) /\ list' = list /\ r.pc # "idle"
  BY DEF ReadExisted, Remembering, nodeVars
<1>2. r \in Locals /\ Directed(t, r) /\ Filed(t, r) /\ r.node \in Nodes /\ Key(r) \in Keys /\ NoNode \notin Nodes
  BY <1>1, Where DEF Tally
<1>3. /\ x.pc = "look" /\ x.call = r.call /\ x.rest = r.rest /\ x.old = v /\ x.fresh = NoNode
  BY <1>2 DEF Remembering, Walking, Locals
<1>4. ~Fills(x) /\ Unfilled /\ \A k \in Kept : ~Brings(r, k)
  BY <1>1, <1>3 DEF Fills, Unfilled, Brings
<1>5. run' = [run EXCEPT ![t] = x] /\ begun' = begun /\ succeeded' = succeeded
  BY <1>1 DEF Continue, Goto, callVars
<1>6. Careful(t, x) /\ TellsNothing(t)
  BY <1>5, CautiousAt, SameCalls
<1>7. ASSUME AtKept(x), v \notin Nodes
      PROVE  v = Present[Key(x)]
  <2>1. Key(x) = Key(r) /\ AtKept(r)
    BY <1>1, <1>3, <1>7 DEF Key, AtKept
  <2>2. r.node = Root
    BY <1>1, <1>2, <2>1, ExistedAtRoot
  <2>3. entry[Root][Key(r)] \in Nodes \cup {Present[Key(r)]} /\ kind[Root] = "Map"
    BY <2>1 DEF Tally, AtKept, Inv, Shape
  <2>4. entry[Root][Key(r)] \notin Nodes /\ Present[Key(r)] # Erased
    BY <1>2, <1>7, <2>2, <2>3, AtFacts, ValuesAssumption
  <2> QED
    BY <2>1, <2>2, <2>3, <2>4 DEF At
<1>8. Filed(t, x)'
  <2>1. x.call \in begun'[t] \ succeeded'[t]
    BY <1>1, <1>2, <1>3, <1>5 DEF Filed
  <2> QED
    BY ONLY <1>3, <1>4, <1>7, <2>1 DEF Filed
<1> QED
  BY <1>4, <1>6, <1>8, QuietTally


(* NodeGetByKey returns n: an array under the key of a call that emplaces, *)
(* a node under another key, or a node on the way.                         *)
LEMMA ArrivesTally ==
  ASSUME Inv, Sure, Tally, NEW t \in Threads, Cautious(t), NEW r, r = run[t], Walks(r),
         NEW y, Alike(y, r), Directed(t, y), NEW n \in born, Arrive(t, y, n), Unfilled,
         r.array /\ AtKept(r) => entry'[Root][Key(r)] = n,
         r.array /\ ~AtKept(r) => ~KeptUse(n)
  PROVE  Tally'
<1> PICK x : x = Arrived(y, n)
  OBVIOUS
<1>1. /\ r.pc # "idle" /\ Filed(t, r) /\ n \in Nodes /\ NoNode \notin Nodes
      /\ r.call \in begun[t] \ succeeded[t]
  BY Where DEF Tally, Filed, Walks
<1>2. /\ y.pc # "idle" /\ Walks(y) /\ y.call = r.call /\ y.array = r.array /\ y.old = r.old
      /\ y.rest = r.rest /\ y \in Locals
      /\ Key(y) = Key(r) /\ (AtKept(y) <=> AtKept(r))
  BY <1>1, SameKey DEF Alike, Same, Walks, Directed
<1>3. run' = [run EXCEPT ![t] = x] /\ Careful(t, x)
  <2>1. run' = [run EXCEPT ![t] = x]
    BY DEF Arrive, Arrived, Goto
  <2> QED
    BY <2>1, CautiousAt
<1>4. /\ x = Idle \/ Anew(t, x, y, n)
      /\ y.array => /\ Anew(t, x, y, n) /\ x.rest = y.rest
                    /\ x.pc = (IF y.old \in {NoEntry, n} THEN "append" ELSE "keepOld")
  BY <1>1, <1>2, ArrivedDirected
<1>5. Filed(t, x)' /\ TellsNothing(t)
  <2>1. CASE ~y.array /\ ~(Len(y.rest) > 1) /\ y.call.op = "NodeGet"
    <3>1. x = Idle /\ begun' = begun /\ succeeded' = [succeeded EXCEPT ![t] = @ \cup {r.call}]
      BY <1>2, <2>1 DEF Arrived, Arrive, Returned
    <3>2. ~AtKept(x) /\ x.pc = "idle" /\ ~Fills(x)
      BY <3>1, IdleDirected DEF Fills
    <3>3. Filed(t, x)'
      BY <3>2 DEF Filed
    <3>4. TellsNothing(t)
      BY <1>1, <1>2, <2>1, <3>1, OtherCalls
    <3> QED
      BY <3>3, <3>4
  <2>2. CASE ~(~y.array /\ ~(Len(y.rest) > 1) /\ y.call.op = "NodeGet")
    <3>1. begun' = begun /\ succeeded' = succeeded
      BY <2>2 DEF Arrive
    <3>2. x \in {WithArray(y, n), Walking(y, n, Tail(y.rest)), AtEnd(y, n)}
      BY <2>2 DEF Arrived
    <3>3. x.call = y.call /\ x.pc # "idle"
      BY <1>2, <3>2 DEF WithArray, Walking, AtEnd, Locals
    <3>4. Anew(t, x, y, n)
      BY <1>4, <3>3, IdleDirected
    <3>5. x.array = y.array /\ x.old = y.old /\ (Fills(x) => x.array)
      BY <3>4 DEF Anew, Directed
    <3>6. x.call \in begun'[t] \ succeeded'[t]
      BY <1>1, <1>2, <3>1, <3>3
    <3>7. Fills(x) => x.rest = y.rest /\ y.pc # "idle"
      BY <1>2, <1>4, <3>5
    <3>8. AtKept(x) /\ x.array /\ x.old \notin Nodes => x.old = Present[Key(x)]
      <4> SUFFICES ASSUME AtKept(x), x.array, x.old \notin Nodes
                   PROVE  x.old = Present[Key(x)]
        OBVIOUS
      <4>1. Key(x) = Key(y) /\ AtKept(y)
        BY <1>2, <1>4, <3>5 DEF Key, AtKept
      <4> QED
        BY <1>1, <1>2, <3>5, <4>1 DEF Filed
    <3>9. /\ Fills(x) /\ AtKept(y) => n \in Nodes /\ entry'[Root][Key(y)] = n
          /\ Fills(x) /\ ~AtKept(y) => n \in born /\ ~KeptUse(n)
      BY <1>1, <1>2, <3>5
    <3>10. Filed(t, x)'
      BY <1>3, <3>4, <3>6, <3>7, <3>8, <3>9, AnewFiled
    <3> QED
      BY <3>1, <3>10, SameCalls
  <2> QED
    BY <2>1, <2>2
<1>6. ASSUME NEW k \in Kept, Present[k] # NoEntry, Brings(r, k)
      PROVE  Brings(x, k)
  <2>1. r.array /\ Key(r) = k /\ r.old = Present[k]
    BY <1>6 DEF Brings
  <2>2. r.old \notin {NoEntry, n}
    BY <1>1, <1>6, <2>1, ValuesAssumption, KeptAssumption
  <2>3. x.pc = "keepOld" /\ x.rest = r.rest /\ x.array /\ x.old = r.old
    BY <1>2, <1>4, <2>1, <2>2 DEF Anew
  <2> QED
    BY <2>1, <2>3 DEF Brings, Key
<1> QED
  BY <1>3, <1>5, <1>6, QuietTally

LEMMA FoundTally ==
  ASSUME Inv, Sure, Tally, NEW t \in Threads, Cautious(t), Found(t)
  PROVE  Tally'
<1> PICK r : r = run[t]
  OBVIOUS
<1> PICK n : n = r.seen
  OBVIOUS
<1>1. r.pc = "test" /\ Fits(n, Want(r)) /\ Arrive(t, r, n) /\ UNCHANGED <<entry, list>>
  BY DEF Found, nodeVars
<1>2. /\ Directed(t, r) /\ Knows(r) /\ Filed(t, r) /\ CarriesBorn(r) /\ Walks(r)
  BY <1>1, Where DEF Walks, Tally
<1>3. n \in born /\ n \in Nodes
  BY <1>1, <1>2 DEF Fits, CarriesBorn
<1>4. r.array /\ AtKept(r) => entry'[Root][Key(r)] = n
  <2>1. r.array => r.node = Root
    BY <1>2 DEF Directed, OnTheWay
  <2> QED
    BY <1>1, <1>2, <1>3, <2>1 DEF Knows
<1>5. r.array /\ ~AtKept(r) => ~KeptUse(n)
  BY <1>1, <1>2, <1>3 DEF Filed
<1>6. Unfilled /\ Alike(r, r)
  BY <1>1 DEF Unfilled, Alike, Same
<1> QED
  BY <1>1, <1>2, <1>3, <1>4, <1>5, <1>6, ArrivesTally

(* A thread whose child has changed its parent. *)
LEMMA LinkedTally ==
  ASSUME Inv, Sure, Tally, NEW t \in Threads, Cautious(t), NEW r, r = run[t],
         r.pc \in {"link", "leave"}, entry' = entry \/ r.pc = "leave", Unfilled, born' = born,
         NEW y, Alike(y, r), Directed(t, y), Linked(t, y)
  PROVE  Tally'
<1>1. /\ Directed(t, r) /\ Knows(r) /\ CarriesBorn(r) /\ r.pc # "idle" /\ r \in Locals
      /\ NoNode \notin Nodes /\ born \subseteq Nodes /\ kind[Root] = "Map" /\ Root \in Nodes
  BY Where DEF Inv, Shape
<1>2. y.call = r.call /\ y.then = r.then /\ y.fresh = r.fresh /\ y.pc = r.pc /\ y \in Locals
  BY DEF Alike, Same, Directed
<1>3. CASE r.then = "arrive"
  <2> PICK n : n = r.fresh
    OBVIOUS
  <2>1. Arrive(t, y, n) /\ Walks(r)
    BY <1>2, <1>3 DEF Linked, Walks
  <2>2. n \in born /\ n # NoNode
    BY <1>1, <1>3, <2>1 DEF Directed, CarriesBorn
  <2>3. r.array /\ AtKept(r) => entry'[Root][Key(r)] = n
    <3> SUFFICES ASSUME r.array, AtKept(r)
                 PROVE  entry'[Root][Key(r)] = n
      OBVIOUS
    <3>1. r.pc = "link" /\ r.node = Root
      BY <1>1, <1>3, <2>1 DEF Knows, Directed, OnTheWay
    <3> QED
      BY <1>1, <1>3, <3>1 DEF Knows
  <2>4. ~AtKept(r) => ~KeptUse(n)
    <3> SUFFICES ASSUME ~AtKept(r)
                 PROVE  ~KeptUse(n)
      OBVIOUS
    <3>1. Moves(r, n)
      BY <1>1 DEF Moves
    <3>2. n \in Nodes
      BY <1>1, <2>2
    <3> QED
      BY <3>1, <3>2 DEF FreeUse, Inv, Apart
  <2> QED
    BY <2>1, <2>2, <2>3, <2>4, ArrivesTally
<1>4. CASE r.then = "append"
  <2> PICK x : x = Appending(y)
    OBVIOUS
  <2>1. Continue(t, x)
    BY <1>2, <1>4 DEF Linked, Appending
  <2>2. Same(x, r) /\ x.pc = "append" /\ x.fresh = NoNode /\ Fills(r)
    <3>1. r.fresh = NoNode /\ Fills(r)
      BY <1>4, ChildFacts DEF Fills
    <3> QED
      BY <1>2, <3>1 DEF Appending, Alike, Same, Locals
  <2>3. \A k \in Kept : ~Brings(r, k)
    BY <1>4 DEF Brings
  <2> QED
    BY <1>1, <2>1, <2>2, <2>3, GoesOnTally
<1>5. CASE r.then = "return"
  <2> PICK x : x = Idle
    OBVIOUS
  <2>1. Succeed(t)
    BY <1>2, <1>5 DEF Linked
  <2>2. r.call.op # "EmplaceToArray"
    BY <1>5, ChildOfOthers
  <2>3. Careful(t, x) /\ TellsNothing(t)
    BY <1>1, <2>1, <2>2, CautiousAt, OtherCalls DEF Succeed, Goto, Returned
  <2>4. ~AtKept(x) /\ x.pc = "idle" /\ ~Fills(x)
    BY IdleDirected DEF Fills
  <2>5. Filed(t, x)'
    BY <2>4 DEF Filed
  <2>6. \A k \in Kept : ~Brings(r, k)
    BY <1>5 DEF Brings
  <2> QED
    BY <2>3, <2>5, <2>6, QuietTally
<1>6. r.then \in {"arrive", "append", "return"}
  BY <1>1 DEF Directed, Locals
<1> QED
  BY <1>3, <1>4, <1>5, <1>6

LEMMA LinkTally ==
  ASSUME Inv, Sure, Tally, NEW t \in Threads, Cautious(t), Link(t)
  PROVE  Tally'
<1> PICK r : r = run[t]
  OBVIOUS
<1>1. r.pc = "link" /\ UNCHANGED <<born, entry, list>> /\ r.pc # "idle" /\ Unfilled
  BY DEF Link, Unfilled
<1>2. Directed(t, r) /\ r \in Locals /\ Knows(r)
  BY Where
<1>3. CASE Linked(t, r)
  <2>1. Alike(r, r)
    BY DEF Alike, Same
  <2> PICK y : y = r
    OBVIOUS
  <2> QED
    BY <1>1, <1>2, <1>3, <2>1, LinkedTally
<1>4. ASSUME NEW p, parent[r.child] = p, p # NoNode, Continue(t, Leaving(r, p))
      PROVE  Tally'
  <2> PICK x : x = Leaving(r, p)
    OBVIOUS
  <2>1. Same(x, r) /\ x.pc = "leave" /\ x.then = r.then /\ x.fresh = r.fresh
    BY <1>2 DEF Leaving, Same, Locals
  <2>2. CASE r.then = "arrive" /\ ~AtKept(r)
    <3>1. Careful(t, x) /\ TellsNothing(t)
      BY <1>4, CautiousAt, SameCalls DEF Continue, Goto, callVars
    <3>2. ~AtKept(x) /\ ~Fills(x)
      BY <1>1, <2>1, <2>2, SameKey DEF Fills
    <3>3. x.call \in begun'[t] \ succeeded'[t]
      BY <1>1, <1>4, <2>1 DEF Continue, callVars, Tally, Filed, Same
    <3>4. Filed(t, x)'
      BY ONLY <2>1, <3>2, <3>3 DEF Filed
    <3>5. \A k \in Kept : ~Brings(r, k)
      BY <1>1, <2>2 DEF Brings, AtKept
    <3> QED
      BY <1>1, <3>1, <3>4, <3>5, QuietTally
  <2>3. CASE r.then = "arrive" /\ AtKept(r)
    <3>1. r.child = r.fresh /\ r.fresh # NoNode
      BY <1>1, <2>3, ChildFacts
    <3>2. parent[r.fresh] = NoNode
      BY <1>2, <2>3, <3>1 DEF Knows
    <3> QED
      BY <1>4, <3>1, <3>2
  <2>4. CASE r.then # "arrive"
    <3>1. \A k \in Kept : ~Brings(r, k)
      BY <1>1, <2>4 DEF Brings
    <3>2. (Fills(x) => Fills(r)) /\ x.fresh = NoNode
      BY <1>1, <2>1, <2>4, ChildFacts DEF Fills
    <3> QED
      BY <1>1, <1>4, <2>1, <3>1, <3>2, GoesOnTally
  <2> QED
    BY <2>2, <2>3, <2>4
<1> QED
  BY <1>3, <1>4 DEF Link, Leaving

(* The clean-up takes a node out of a list of values: nothing.             *)
LEMMA LeaveTally ==
  ASSUME Inv, Sure, Tally, NEW t \in Threads, Cautious(t), Leave(t)
  PROVE  Tally'
<1> PICK r : r = run[t]
  OBVIOUS
<1> PICK p : p = r.prev
  OBVIOUS
<1> PICK y : y = HavingLeft(r)
  OBVIOUS
<1>1. r.pc = "leave" /\ born' = born
  BY DEF Leave
<1>2. /\ Directed(t, r) /\ Knows(r) /\ p \in Nodes /\ r.child \in Nodes /\ r \in Locals
      /\ list \in [Nodes -> Seq(born \cup Scalars \cup {Blank})]
  BY <1>1, Where, ChildFacts DEF Knows, Inv, Shape
<1>3. Directed(t, y)
  BY <1>1, <1>2, HasLeftDirected
<1>4. Alike(y, r)
  BY <1>2 DEF HavingLeft, Alike, Same, Locals
<1>5. Linked(t, y)
  BY DEF Leave, HavingLeft
<1>6. ASSUME NEW c \in Nodes, list[c] \in Plain
      PROVE  list'[c] = list[c]
  <2>1. list'[c] = list[c] \/ (c = p /\ list'[c] = RemoveFirst(list[c], r.child))
    BY <1>2 DEF Leave
  <2>2. r.child \notin Scalars \cup {Blank}
    BY <1>2, ValuesAssumption
  <2>3. RemoveFirst(list[c], r.child) = list[c]
    BY <1>6, <2>2, RemoveFirstIs DEF Plain
  <2> QED
    BY <2>1, <2>3
<1>7. Unfilled
  <2>1. \A c \in Nodes \ born : list[c] \in Plain
    BY EmptySeq DEF Tally, Plain
  <2> QED
    BY <1>1, <1>6, <2>1 DEF Unfilled
<1> QED
  BY <1>1, <1>3, <1>4, <1>5, <1>7, LinkedTally


(* A call that emplaces names the key it is at, and that one only. *)
LEMMA EmplacesAtKey ==
  ASSUME NEW t \in Threads, NEW r, Directed(t, r), r.pc # "idle", r.array
  PROVE  /\ r.call \in CallsOf[t] /\ r.call.op = "EmplaceToArray" /\ r.call.val \in Scalars
         /\ AtKept(r) => r.call.path = <<Key(r)>> /\ Key(r) \in KeptArrays
         /\ \A k \in Kept : r.call.path = <<k>> => Key(r) = k
<1>1. /\ r \in Locals /\ r.call \in CallsOf[t] /\ r.call.op = "EmplaceToArray"
      /\ r.rest = <<Last(r.call.path)>>
  BY DEF Directed
<1>2. /\ r.call.path \in Seq(Keys) /\ Agrees(r.call) /\ r.call.val \in Scalars
  BY <1>1, CallFacts
<1>3. Key(r) = r.call.path[Len(r.call.path)] /\ Len(r.call.path) \in Nat \ {0}
  BY <1>1, LastKey
<1>4. ASSUME AtKept(r)
      PROVE  r.call.path = <<Key(r)>> /\ Key(r) \in KeptArrays
  <2>1. ~(Len(r.call.path) > 1) /\ KindAt[Key(r)] = "Array"
    BY <1>1, <1>2, <1>3, <1>4 DEF Agrees, AtKept
  <2>2. Len(r.call.path) = 1
    BY <1>3, <2>1, OneOrMore
  <2>3. r.call.path = <<Key(r)>>
    BY <1>2, <1>3, <2>2
  <2> QED
    BY <1>4, <2>1, <2>3 DEF AtKept, KeptArrays
<1>5. ASSUME NEW k \in Kept, r.call.path = <<k>>
      PROVE  Key(r) = k
  BY <1>3, <1>5
<1> QED
  BY <1>1, <1>2, <1>4, <1>5

(* A value goes to the end of the array under the key of the thread. *)
LEMMA AppendTally ==
  ASSUME Inv, Sure, Tally, NEW t \in Threads, NEW r, r = run[t], r.pc \in {"keepOld", "append"},
         AtKept(r), Key(r) \in KeptArrays, NEW x, Careful(t, x), Filed(t, x)',
         NEW v, list' = [list EXCEPT ![r.node] = Append(@, v)],
         NEW s, s = Append(list[r.node], v), Tallied(Key(r), s)',
         \A u \in Threads \ {t} : begun'[u] = begun[u] /\ succeeded'[u] = succeeded[u],
         succeeded'[t] \subseteq begun'[t],
         \A k \in KeptArrays : k # Key(r) => Emplacing(k)' = Emplacing(k)
  PROVE  Tally'
<1>1. /\ Filed(t, r) /\ Fills(r) /\ Kept \subseteq Keys /\ Root \in Nodes /\ r.node \in born
      /\ list \in [Nodes -> Seq(born \cup Scalars \cup {Blank})]
  BY Where, KeptAssumption DEF Tally, Fills, Inv, Shape, AtKept
<1>2. r.node \in Nodes /\ entry[Root][Key(r)] = r.node
  BY <1>1 DEF Filed
<1>3. \A c \in Nodes : list'[c] = IF c = r.node THEN Append(list[c], v) ELSE list[c]
  BY <1>1, <1>2
<1>4. Writes(r)
  BY <1>1, <1>3 DEF Writes
<1>5. born \subseteq born'
  BY DEF Careful, Steady
<1>6. \A n \in Nodes \ born' : list'[n] = list[n]
  BY <1>1, <1>3, <1>5
<1>7. ASSUME NEW k \in KeptArrays, NEW a \in Nodes, entry[Root][k] = a
      PROVE  Tallied(k, list[a])'
  <2>1. CASE k = Key(r)
    <3>1. a = r.node /\ list'[a] = s
      BY <1>2, <1>3, <1>7, <2>1
    <3>2. k = Key(r)
      BY <2>1
    <3> QED
      BY <3>1, <3>2
  <2>2. CASE k # Key(r)
    <3>1. a # r.node
      BY <1>1, <1>2, <1>7, <2>2, KeptOnce DEF KeptArrays
    <3>2. list'[a] = list[a]
      BY <1>3, <3>1
    <3> PICK z : z = list[a]
      OBVIOUS
    <3>3. Tallied(k, z)
      BY <1>7 DEF Tally, Counted
    <3>4. ~Brings(r, k)
      BY <2>2 DEF Brings
    <3>5. Tallied(k, z)'
      BY <2>2, <3>3, <3>4, TalliedStays
    <3> QED
      BY <3>2, <3>5
  <2> QED
    BY <2>1, <2>2
<1>8. \A k \in KeptArrays : entry[Root][k] \notin Nodes => Emplacing(k)' = Emplacing(k)
  BY <1>2
<1> QED
  BY <1>4, <1>6, <1>7, <1>8, TallyKeeps

(* Elsewhere it goes to an array that no kept key stands for. *)
LEMMA AppendUnfilled ==
  ASSUME Inv, Tally, NEW t \in Threads, NEW r, r = run[t], r.pc \in {"keepOld", "append"},
         ~AtKept(r), born' = born,
         NEW v, list' = [list EXCEPT ![r.node] = Append(@, v)]
  PROVE  Unfilled
<1>1. Filed(t, r) /\ Fills(r) /\ r.node \in born
  BY Where DEF Tally, Fills
<1>2. ~KeptUse(r.node)
  BY <1>1 DEF Filed
<1>3. \A c \in Nodes : c # r.node => list'[c] = list[c]
  BY DEF Inv, Shape
<1> QED
  BY <1>1, <1>2, <1>3 DEF Unfilled

LEMMA KeepOldTally ==
  ASSUME Inv, Sure, Tally, NEW t \in Threads, Cautious(t), KeepOld(t)
  PROVE  Tally'
<1> PICK r : r = run[t]
  OBVIOUS
<1>1. r.pc = "keepOld" /\ r.pc # "idle" /\ born' = born /\ Fills(r)
  BY DEF KeepOld, Fills
<1>2. /\ Directed(t, r) /\ Knows(r) /\ Filed(t, r) /\ r \in Locals /\ r.node \in Nodes
  BY <1>1, Where DEF Tally
<1>3. r.array /\ r.fresh = NoNode /\ r.old # NoEntry
  BY <1>1, <1>2 DEF Directed, Walks
<1>4. PICK x : Continue(t, x) /\ (x = Appending(r) \/ x = MovingOld(r))
  BY DEF KeepOld, Appending, MovingOld
<1>5. /\ Same(x, r) /\ x.pc \in {"append", "link"} /\ x.fresh = NoNode
      /\ x.pc = "link" => x.then = "append"
  BY <1>2, <1>3, <1>4 DEF Appending, MovingOld, Same, Locals
<1>6. \/ list' = list /\ r.old \in Nodes
      \/ list' = [list EXCEPT ![r.node] = Append(@, r.old)]
  BY DEF KeepOld
<1>7. CASE ~AtKept(r) \/ (list' = list /\ r.old \in Nodes)
  <2>1. Unfilled
    BY <1>1, <1>6, <1>7, AppendUnfilled DEF Unfilled
  <2>2. CASE ~AtKept(r)
    <3>1. \A k \in Kept : ~Brings(r, k)
      BY <1>1, <2>2 DEF Brings, AtKept
    <3> QED
      BY <1>1, <1>4, <1>5, <2>1, <3>1, GoesOnTally
  <2>3. CASE AtKept(r)
    BY <1>1, <1>2, <1>3, <1>7, <2>3 DEF Knows
  <2> QED
    BY <2>2, <2>3
<1>8. CASE AtKept(r) /\ list' = [list EXCEPT ![r.node] = Append(@, r.old)]
  <2> PICK k : k = Key(r)
    OBVIOUS
  <2> PICK v : v = r.old
    OBVIOUS
  <2>1. k \in KeptArrays /\ k \in Kept /\ k \in Keys
    BY <1>1, <1>2, <1>3, <1>8, EmplacesAtKey, KeptAssumption DEF KeptArrays
  <2>2. v = Present[k] /\ v \in Scalars \cup {Blank}
    <3>1. v \notin Nodes
      BY <1>1, <1>2, <1>3, <1>8 DEF Knows
    <3>2. v = Present[k]
      BY <1>2, <1>3, <1>8, <3>1 DEF Filed
    <3> QED
      BY <1>3, <2>1, <3>2, ValuesAssumption
  <2>3. begun' = begun /\ succeeded' = succeeded /\ run' = [run EXCEPT ![t] = x]
    BY <1>4 DEF Continue, Goto, callVars
  <2>4. Careful(t, x) /\ TellsNothing(t)
    BY <2>3, CautiousAt, SameCalls
  <2>5. entry[Root][k] = r.node /\ Tallied(k, list[r.node])
    BY <1>1, <1>2, <1>8, <2>1 DEF Filed, Tally, Counted
  <2>6. Writes(r)
    <3>1. \A c \in Nodes : c # r.node => list'[c] = list[c]
      BY <1>8 DEF Inv, Shape
    <3> QED
      BY <1>1, <1>8, <3>1 DEF Writes
  <2>7. Filed(t, x)'
    <3>1. x.pc # "idle" /\ x.pc \notin {"orphan", "test", "exchange"}
      BY <1>5
    <3> QED
      BY <1>1, <1>5, <2>3, <2>4, <2>6, <3>1, FiledOn
  <2> PICK s : s = list[r.node]
    OBVIOUS
  <2> PICK u : u = Append(s, v)
    OBVIOUS
  <2>8. Tallied(k, u)'
    <3>1. s \in Plain /\ u \in Plain
      BY <2>2, <2>5, AppendProperties DEF Tallied, Plain
    <3>2. \A w : Times(w, s) \in Nat /\ Times(w, u) = IF v = w THEN Times(w, s) + 1 ELSE Times(w, s)
      <4> TAKE w
      <4> PICK S : S = Scalars \cup {Blank}
        OBVIOUS
      <4>1. s \in Seq(S) /\ v \in S
        BY <2>2, <3>1 DEF Plain
      <4> QED
        BY ONLY <4>1, u = Append(s, v), TimesFacts
    <3>3. \A w : Done(k, w)' = Done(k, w)
      <4>1. Emplacing(k)' = Emplacing(k)
        BY <2>1, <2>4 DEF TellsNothing
      <4> QED
        BY ONLY <4>1 DEF Done
    <3>4. \A w \in Scalars \ {Present[k]} :
            IsFiniteSet(Done(k, w)') /\ Times(w, u) = Cardinality(Done(k, w)')
      BY <2>2, <2>5, <3>2, <3>3 DEF Tallied
    <3>5. Times(Present[k], u) > 0
      BY <2>2, <3>2
    <3> QED
      BY ONLY <3>1, <3>4, <3>5 DEF Tallied
  <2> QED
    BY <1>1, <1>8, <2>1, <2>4, <2>7, <2>8, AppendTally DEF TellsNothing, KeptArrays
<1> QED
  BY <1>6, <1>7, <1>8


LEMMA AppendValueTally ==
  ASSUME Inv, Sure, Tally, NEW t \in Threads, Cautious(t), AppendValue(t)
  PROVE  Tally'
<1> PICK r : r = run[t]
  OBVIOUS
<1> PICK x : x = Idle
  OBVIOUS
<1> PICK c : c = r.call
  OBVIOUS
<1>1. /\ r.pc = "append" /\ r.pc # "idle" /\ born' = born /\ begun' = begun /\ Fills(r)
      /\ list' = [list EXCEPT ![r.node] = Append(@, c.val)]
      /\ succeeded' = [succeeded EXCEPT ![t] = @ \cup {c}]
      /\ run' = [run EXCEPT ![t] = x]
  BY DEF AppendValue, Succeed, Goto, Returned, Fills
<1>2. /\ Directed(t, r) /\ Filed(t, r) /\ r.node \in Nodes
      /\ succeeded \in [Threads -> SUBSET Calls]
  BY <1>1, Where DEF Tally, Inv, Shape
<1>3. r.array /\ c \in begun[t] \ succeeded[t]
  BY <1>1, <1>2 DEF Directed, Filed
<1>4. /\ c \in CallsOf[t] /\ c.op = "EmplaceToArray" /\ c.val \in Scalars
      /\ AtKept(r) => c.path = <<Key(r)>> /\ Key(r) \in KeptArrays
      /\ \A k \in Kept : c.path = <<k>> => Key(r) = k
  BY <1>1, <1>2, <1>3, EmplacesAtKey
<1>5. Careful(t, x)
  BY <1>1, CautiousAt
<1>6. Filed(t, x)'
  <2>1. ~AtKept(x) /\ x.pc = "idle" /\ ~Fills(x)
    BY IdleDirected DEF Fills
  <2> QED
    BY <2>1 DEF Filed
<1>7. /\ \A u \in Threads \ {t} : begun'[u] = begun[u] /\ succeeded'[u] = succeeded[u]
      /\ succeeded'[t] \subseteq begun'[t]
  BY <1>1, <1>2, <1>3 DEF Tally
<1>8. \A k \in Kept : k # Key(r) => Emplacing(k)' = Emplacing(k)
  BY <1>1, <1>4, EmplacingOn
<1>9. CASE ~AtKept(r)
  <2>1. Unfilled
    BY <1>1, <1>9, AppendUnfilled
  <2>2. TellsNothing(t)
    BY <1>1, <1>7, <1>8, <1>9 DEF TellsNothing, AtKept
  <2>3. \A k \in Kept : ~Brings(r, k)
    BY <1>1 DEF Brings
  <2> QED
    BY <1>5, <1>6, <2>1, <2>2, <2>3, QuietTally
<1>10. CASE AtKept(r)
  <2> PICK k : k = Key(r)
    OBVIOUS
  <2> PICK v : v = c.val
    OBVIOUS
  <2> PICK s : s = list[r.node]
    OBVIOUS
  <2> PICK u : u = Append(s, v)
    OBVIOUS
  <2> PICK q : q = <<t, c>>
    OBVIOUS
  <2>1. k \in KeptArrays /\ k \in Kept /\ v \in Scalars /\ c.path = <<k>>
    BY <1>4, <1>10 DEF KeptArrays
  <2>2. entry[Root][k] = r.node /\ Tallied(k, s)
    BY <1>1, <1>2, <1>10, <2>1 DEF Filed, Tally, Counted
  <2>3. Emplacing(k)' = Emplacing(k) \cup {q} /\ q \notin Emplacing(k) /\ q[2].val = v
    <3>1. Emplacing(k)' = Emplacing(k) \cup {q}
      BY <1>1, <1>4, <2>1, EmplacingOn
    <3>2. q[1] = t /\ q[2] = c
      OBVIOUS
    <3>3. q \notin Emplacing(k)
      BY <1>3, <3>2 DEF Emplacing
    <3> QED
      BY <3>1, <3>2, <3>3
  <2>4. s \in Plain /\ u \in Plain
    BY <2>1, <2>2, AppendProperties DEF Tallied, Plain
  <2>5. \A w : Times(w, s) \in Nat /\ Times(w, u) = IF v = w THEN Times(w, s) + 1 ELSE Times(w, s)
    <3> TAKE w
    <3> PICK S : S = Scalars \cup {Blank}
      OBVIOUS
    <3>1. s \in Seq(S) /\ v \in S
      BY <2>1, <2>4 DEF Plain
    <3> QED
      BY ONLY <3>1, u = Append(s, v), TimesFacts
  <2>6. \A w : /\ q \notin Done(k, w)
               /\ Done(k, w)' = IF v = w THEN Done(k, w) \cup {q} ELSE Done(k, w)
    BY ONLY <2>3 DEF Done
  <2>7. ASSUME NEW w \in Scalars \ {Present[k]}
        PROVE  IsFiniteSet(Done(k, w)') /\ Times(w, u) = Cardinality(Done(k, w)')
    <3> PICK D : D = Done(k, w)
      OBVIOUS
    <3>1. IsFiniteSet(D) /\ Times(w, s) = Cardinality(D)
      BY <2>2 DEF Tallied
    <3>2. q \notin D /\ Done(k, w)' = IF v = w THEN D \cup {q} ELSE D
      BY <2>6
    <3>3. IsFiniteSet(D \cup {q}) /\ Cardinality(D \cup {q}) = Cardinality(D) + 1
      BY <3>1, <3>2, FS_AddElement
    <3> QED
      BY <2>5, <3>1, <3>2, <3>3
  <2>8. OnlyEmplaced(k) /\ Present[k] # NoEntry =>
          Times(Present[k], u) > 0 \/ \E y \in Threads : Brings(run'[y], k)
    <3>1. Times(Present[k], s) > 0 => Times(Present[k], u) > 0
      BY <2>5
    <3>2. \A y \in Threads : Brings(run[y], k) => Brings(run'[y], k)
      <4>1. ~Brings(run[t], k)
        BY <1>1 DEF Brings
      <4> QED
        BY <1>5, <4>1, RunAfter
    <3> QED
      BY <2>2, <3>1, <3>2 DEF Tallied
  <2>9. Tallied(k, u)'
    <3>1. (OnlyEmplaced(k) /\ Present[k] # NoEntry =>
             Times(Present[k], u) > 0 \/ \E y \in Threads : Brings(run[y], k))'
      BY <2>8 DEF OnlyEmplaced
    <3> QED
      BY ONLY <2>4, <2>7, <3>1 DEF Tallied
  <2>10. \A j \in KeptArrays : j # Key(r) => Emplacing(j)' = Emplacing(j)
    BY <1>8 DEF KeptArrays
  <2> QED
    BY <1>1, <1>5, <1>6, <1>7, <1>10, <2>1, <2>9, <2>10, AppendTally
<1> QED
  BY <1>9, <1>10

LEMMA BeginTally ==
  ASSUME Inv, Sure, Tally, NEW t \in Threads, Cautious(t), NEW c \in CallsOf[t], Begin(t, c)
  PROVE  Tally'
<1> PICK x : x = Started(c)
  OBVIOUS
<1>1. /\ run[t].pc = "idle" /\ list' = list /\ c \notin begun[t] /\ succeeded' = succeeded
      /\ begun' = [begun EXCEPT ![t] = @ \cup {c}] /\ run' = [run EXCEPT ![t] = x]
  BY DEF Begin, Goto, nodeVars
<1>2. Careful(t, x) /\ TellsNothing(t)
  BY <1>1, CautiousAt, SameCalls
<1>3. Anew(t, x, Idle, Root) /\ Idle.array = FALSE
  BY StartedDirected DEF Idle
<1>4. x.array = FALSE /\ ~Fills(x)
  BY <1>3 DEF Anew, Directed
<1>5. x.call = c
  BY DEF Started, AtEnd, Walking, Idle
<1>6. x.call \in begun'[t] \ succeeded'[t]
  <2>1. begun \in [Threads -> SUBSET Calls] /\ succeeded[t] \subseteq begun[t]
    BY DEF Inv, Shape, Tally
  <2> QED
    BY <1>1, <1>5, <2>1
<1>7. Filed(t, x)'
  BY <1>2, <1>3, <1>4, <1>6, AnewFiled
<1>8. Unfilled /\ \A k \in Kept : ~Brings(run[t], k)
  BY <1>1 DEF Unfilled, Brings
<1> QED
  BY <1>2, <1>7, <1>8, QuietTally

LEMMA InitTally == Init => Tally
<1> SUFFICES ASSUME Init
             PROVE  Tally
  OBVIOUS
<1>1. /\ \A t \in Threads : run[t] = Idle /\ succeeded[t] = {} /\ begun[t] = {}
      /\ \A n \in Nodes : list[n] = <<>>
      /\ Root \in Nodes /\ Kept \subseteq Keys
  BY ValuesAssumption, KeptAssumption DEF Init
<1>2. \A t \in Threads : Filed(t, run[t])
  <2>1. ~AtKept(Idle) /\ Idle.pc = "idle" /\ ~Fills(Idle)
    BY IdleDirected DEF Fills
  <2>2. \A t \in Threads : Filed(t, Idle)
    BY <2>1 DEF Filed
  <2> QED
    BY <1>1, <2>2
<1>3. \A k \in Kept : entry[Root][k] = Present[k] /\ Present[k] \notin Nodes
  <2>1. \A k \in Kept : entry[Root][k] = Present[k]
    BY <1>1 DEF Init
  <2>2. \A k \in Keys : Present[k] \notin Nodes
    BY ValuesAssumption
  <2> QED
    BY <1>1, <2>1, <2>2
<1>4. \A k : Emplacing(k) = {}
  BY <1>1 DEF Emplacing
<1>5. Counted
  BY <1>3, <1>4 DEF Counted, KeptArrays
<1> QED
  BY <1>1, <1>2, <1>3, <1>5 DEF Tally

LEMMA StutterTally ==
  ASSUME Inv, Tally, UNCHANGED vars
  PROVE  Tally'
<1>1. UNCHANGED <<born, entry, list, name, run, begun, succeeded>>
  BY DEF vars, nodeVars, callVars
<1>2. ASSUME NEW t \in Threads
      PROVE  (succeeded[t] \subseteq begun[t] /\ Filed(t, run[t]))'
  <2> PICK r : r = run[t]
    OBVIOUS
  <2>1. run'[t] = r /\ Filed(t, r) /\ succeeded[t] \subseteq begun[t]
    BY <1>1 DEF Tally
  <2>2. \A c : KeptUse(c)' <=> KeptUse(c)
    BY <1>1 DEF KeptUse
  <2>3. Filed(t, r)'
    BY <1>1, <2>1, <2>2 DEF Filed
  <2> QED
    BY <1>1, <2>1, <2>3
<1>3. \A k : Emplacing(k)' = Emplacing(k)
  BY <1>1 DEF Emplacing
<1>4. ASSUME NEW k, NEW s, Tallied(k, s)
      PROVE  Tallied(k, s)'
  <2>1. \A v : Done(k, v)' = Done(k, v)
    BY <1>3 DEF Done
  <2>2. /\ s \in Plain
        /\ \A v \in Scalars \ {Present[k]} :
             IsFiniteSet(Done(k, v)') /\ Times(v, s) = Cardinality(Done(k, v)')
        /\ OnlyEmplaced(k) /\ Present[k] # NoEntry =>
             Times(Present[k], s) > 0 \/ \E t \in Threads : Brings(run'[t], k)
    BY <1>1, <1>4, <2>1 DEF Tallied
  <2> QED
    BY <2>2 DEF Tallied, OnlyEmplaced
<1>5. Counted'
  BY <1>1, <1>3, <1>4 DEF Tally, Counted
<1> QED
  BY <1>1, <1>2, <1>5 DEF Tally

LEMMA NextTally == Inv /\ Sure /\ Tally /\ [Next]_vars => Tally'
<1> SUFFICES ASSUME Inv, Sure, Tally, [Next]_vars
             PROVE  Tally'
  OBVIOUS
<1>1. ASSUME NEW t \in Threads, Step(t)
      PROVE  Tally'
  <2>1. Cautious(t)
    BY <1>1, StepInv
  <2>2. CASE Look(t) \/ Found(t) \/ GiveUp(t) \/ Create(t)
    BY <2>1, <2>2, LookTally, FoundTally, ApplyTally, CreateTally
  <2>3. CASE ExchangeStores(t) \/ ExchangeFails(t) \/ ExchangeRefused(t) \/ ExchangeUnstored(t)
    BY <2>1, <2>3, ExchangeTally, LookTally
  <2>4. CASE Link(t) \/ Leave(t)
    BY <2>1, <2>4, LinkTally, LeaveTally
  <2>5. CASE ReadValue(t) \/ SetValue(t) \/ Orphan(t) \/ InsertValue(t) \/ EraseValue(t)
    BY <2>1, <2>5, ApplyTally, OrphanTally
  <2>6. CASE ReadExisted(t) \/ KeepOld(t) \/ AppendValue(t)
    BY <2>1, <2>6, ReadExistedTally, KeepOldTally, AppendValueTally
  <2> QED
    BY <1>1, <2>2, <2>3, <2>4, <2>5, <2>6 DEF Step
<1>2. ASSUME NEW t \in Threads, NEW c \in CallsOf[t], Begin(t, c)
      PROVE  Tally'
  BY <1>2, StepInv, BeginTally
<1>3. CASE UNCHANGED vars
  BY <1>3, StutterTally
<1> QED
  BY <1>1, <1>2, <1>3 DEF Next

LEMMA TallyEmplaced == Inv /\ Sure /\ Tally => EmplacedIsKept
<1> SUFFICES ASSUME Inv, Sure, Tally, NEW k \in Kept, NEW p \in Emplacing(k)
             PROVE  LET a == entry[Root][k]
                    IN  /\ a \in Nodes
                        /\ \A q \in Emplacing(k) : q[2].val # Present[k] =>
                             Times(q[2].val, list[a]) = Cardinality({z \in Emplacing(k) : z[2].val = q[2].val})
                        /\ OnlyEmplaced(k) /\ Present[k] # NoEntry /\ (\A t \in Threads : run[t].pc = "idle") =>
                             Times(Present[k], list[a]) > 0
  BY DEF EmplacedIsKept
<1>1. ASSUME NEW q \in Emplacing(k)
      PROVE  q[2].val \in Scalars /\ k \in KeptArrays
  <2> PICK c : c = q[2]
    OBVIOUS
  <2>1. q[1] \in Threads /\ c \in succeeded[q[1]] /\ c.op = "EmplaceToArray" /\ c.path = <<k>>
    BY DEF Emplacing
  <2>2. c \in CallsOf[q[1]]
    BY <2>1 DEF Sure
  <2>3. c.val \in Scalars /\ Agrees(c)
    BY <2>1, <2>2, CallFacts
  <2>4. Len(c.path) = 1 /\ c.path[1] = k
    BY <2>1
  <2>5. KindAt[k] = "Array"
    BY <2>1, <2>3, <2>4 DEF Agrees
  <2> QED
    BY <2>3, <2>5 DEF KeptArrays
<1> PICK a : a = entry[Root][k]
  OBVIOUS
<1>2. k \in KeptArrays /\ a \in Nodes /\ Tallied(k, list[a])
  BY <1>1 DEF Tally, Counted
<1>3. \A q \in Emplacing(k) : q[2].val # Present[k] =>
        Times(q[2].val, list[a]) = Cardinality({z \in Emplacing(k) : z[2].val = q[2].val})
  BY <1>1, <1>2 DEF Tallied, Done
<1>4. ASSUME OnlyEmplaced(k), Present[k] # NoEntry, \A t \in Threads : run[t].pc = "idle"
      PROVE  Times(Present[k], list[a]) > 0
  <2>1. \A t \in Threads : ~Brings(run[t], k)
    BY <1>4 DEF Brings
  <2> QED
    BY <1>2, <1>4, <2>1 DEF Tallied
<1> QED
  BY <1>2, <1>3, <1>4

-----------------------------------------------------------------------------
(* Theorems. *)

(* Whatever calls the threads make, and wherever each of them is, a call   *)
(* carries only nodes that have been created, and what it needs at its     *)
(* stage: a node to put in for CompareExchange, a child to link.           *)
THEOREM TypeCorrect == Spec => []TypeOK
<1>1. Inv /\ [Next]_vars => Inv'
  BY NextInv
<1> QED
  BY InitInv, <1>1, InvTyped, PTL DEF Spec

(* The node NodeGetByKey has returned for a key that no caller overwrites  *)
(* is the one under that key from then on, and every other caller gets the *)
(* same: for any tree, any number of threads and any calls that agree on   *)
(* these keys, while other keys are set, inserted, erased and emplaced.    *)
THEOREM HandedStaysAlways == Spec => []HandedStays
<1>1. Inv => HandedStays
  BY DEF Inv
<1>2. Inv /\ [Next]_vars => Inv'
  BY NextInv
<1> QED
  BY InitInv, <1>1, <1>2, PTL DEF Spec

(* Such a node is a child of the node that holds it, by the name it is     *)
(* held under, unless the thread that has just put it in is about to make  *)
(* it one: no clean-up of SetAsChild_, Set, Erase or EmplaceToArray takes  *)
(* it for a node of its own.                                               *)
THEOREM KeptIsAdoptedAlways == Spec => []KeptIsAdopted
<1>1. Inv /\ [Next]_vars => Inv'
  BY NextInv
<1> QED
  BY InitInv, <1>1, InvAdopted, PTL DEF Spec

(* A value set or inserted by path, under a key that no other call names   *)
(* and on a way of keys that callers agree on, is found at that path from  *)
(* then on: nobody sets it in a node that loses the race for its place,    *)
(* and no clean-up takes it away.  What is needed besides Inv is a route   *)
(* of returned nodes from the root to where each such call is.             *)
THEOREM SetsAreKeptAlways == Spec => []SetsAreKept
<1>1. Init => Inv /\ Sure
  BY InitInv, InitSure
<1>2. Inv /\ Sure /\ [Next]_vars => (Inv /\ Sure)'
  BY NextInv, NextSure
<1> QED
  BY <1>1, <1>2, SureSets, PTL DEF Spec

(* EmplaceToArray under a key of the root that callers agree on: each      *)
(* value is in the array as often as it was emplaced, whatever the threads *)
(* do, and once they have all returned the value that was there before the *)
(* array is in it too.  What is needed besides Inv is an account of each   *)
(* such array: its elements are the calls that have returned, and the      *)
(* first value is in it or in the hands of the thread that made it.        *)
THEOREM EmplacedIsKeptAlways == Spec => []EmplacedIsKept
<1>1. Init => Inv /\ Sure /\ Tally
  BY InitInv, InitSure, InitTally
<1>2. Inv /\ Sure /\ Tally /\ [Next]_vars => (Inv /\ Sure /\ Tally)'
  BY NextInv, NextSure, NextTally
<1> QED
  BY <1>1, <1>2, TallyEmplaced, PTL DEF Spec
=============================================================================
