-------------------------- MODULE ArrayNode_proofs --------------------------
(***************************************************************************)
(* Theorems about ArrayNode for any arrays, nodes, calls and refusals.     *)
(***************************************************************************)
EXTENDS ArrayNode, SequenceFacts, FiniteSetTheorems, TLAPS

Holds(q, c) == \E i \in 1 .. Len(q) : q[i] = c
Once(q) == \A i, j \in 1 .. Len(q) : q[i] = q[j] /\ q[i] \in Kids => i = j

States == [items : [Arrays -> Seq(Items)], parent : [Kids -> Arrays \cup {NoNode}]]

(* The array holds its children, each once. *)
Agrees(q, a, par) == Once(q) /\ \A c \in Kids : Holds(q, c) <=> par[c] = a

(* And it has lost only nodes that are another's, or nobody's, since the   *)
(* call began.                                                             *)
Elsewhere(a, par) == {c \in Kids : par[c] # a}
Shed(s, a) == IsWithout(s.items[a], items[a], Elsewhere(a, s.parent))

(* All arrays do, but perhaps the one that is called. *)
Around(s, on) == \A a \in Arrays \ {on} : Agrees(s.items[a], a, s.parent) /\ Shed(s, a)
Settled(s) == \A a \in Arrays : Agrees(s.items[a], a, s.parent)

-----------------------------------------------------------------------------
(* Keys and places. *)

LEMMA Sorts ==
  /\ Empty \in Items /\ Empty \notin Kids /\ Empty \notin Content
  /\ Kids \subseteq Items /\ Scalars \subseteq Items /\ Content \subseteq Items
  /\ Items \subseteq Kids \cup Scalars \cup {Empty}
  /\ NoNode \notin Arrays /\ Kids \cap Scalars = {}
  BY ArrayAssumption DEF Items, Content

LEMMA FindIs ==
  ASSUME NEW q \in Seq(Items), NEW k \in Indexes
  PROVE  /\ Find(q, k) \in 0 .. Len(q)
         /\ k \in Nat => Find(q, k) = IF k < Len(q) THEN k + 1 ELSE 0
         /\ k = kIdxEnd => Find(q, k) = 0
         /\ k = kIdxLast => Find(q, k) = Len(q)
<1>1. Len(q) \in Nat
  OBVIOUS
<1>2. CASE k \in Nat
  <2>1. Index(q, k) = k /\ k # kIdxEnd /\ k # kIdxLast
    BY <1>2 DEF Index, kIdxLast, kIdxEnd
  <2> QED
    BY <1>1, <1>2, <2>1 DEF Find
<1>3. CASE k = kIdxEnd
  <2>1. Index(q, k) = -1 /\ k \notin Nat /\ k # kIdxLast
    BY <1>3 DEF Index, kIdxLast, kIdxEnd
  <2> QED
    BY <1>1, <1>3, <2>1 DEF Find
<1>4. CASE k = kIdxLast
  <2>1. Index(q, k) = (IF Len(q) > 1 THEN Len(q) - 1 ELSE 0) /\ k \notin Nat /\ k # kIdxEnd
    BY <1>4 DEF Index, kIdxLast, kIdxEnd
  <2>2. Find(q, k) = Len(q)
    <3>1. CASE Len(q) > 1
      BY <1>1, <2>1, <3>1 DEF Find
    <3>2. CASE Len(q) = 1
      BY <2>1, <3>2 DEF Find
    <3>3. CASE Len(q) = 0
      BY <2>1, <3>3 DEF Find
    <3>4. Len(q) > 1 \/ Len(q) = 1 \/ Len(q) = 0
      BY <1>1
    <3> QED
      BY ONLY <3>1, <3>2, <3>3, <3>4, Zenon
  <2> QED
    BY <1>1, <1>4, <2>1, <2>2
<1> QED
  BY <1>2, <1>3, <1>4 DEF Indexes

LEMMA GrownIs ==
  ASSUME NEW q \in Seq(Items), NEW k \in Indexes
  PROVE  /\ Grown(q, k) \in Seq(Items) /\ Len(Grown(q, k)) >= Len(q)
         /\ \A j \in 1 .. Len(Grown(q, k)) : Grown(q, k)[j] = IF j <= Len(q) THEN q[j] ELSE Empty
         /\ Find(q, k) # 0 => Grown(q, k) = q
         /\ Find(q, k) = 0 /\ Find(Grown(q, k), k) # 0 => Find(Grown(q, k), k) > Len(q)
         /\ k \in Nat /\ k - Len(q) \in 0 .. (MaxIncrease - 1) => Len(Grown(q, k)) = k + 1
<1> DEFINE n == Index(q, k) - Len(q) + 1
           pad == [i \in 1 .. n |-> Empty]
           g == q \o pad
<1>1. Len(q) \in Nat /\ Index(q, k) \in Int /\ MaxIncrease \in Nat
  BY ArrayAssumption DEF Index, Indexes, kIdxEnd, kIdxLast
<1>2. CASE k # kIdxEnd /\ Index(q, k) - Len(q) \in 0 .. (MaxIncrease - 1)
  <2>1. Grown(q, k) = g
    BY <1>2 DEF Grown
  <2>2. n \in Nat /\ n > 0
    BY <1>1, <1>2
  <2>3. pad \in Seq(Items) /\ Len(pad) = n /\ \A j \in 1 .. n : pad[j] = Empty
    <3> HIDE DEF n
    <3>1. pad \in [1 .. n -> Items]
      BY Sorts
    <3> QED
      BY <2>2, <3>1
  <2>4. /\ g \in Seq(Items) /\ Len(g) = Len(q) + n
        /\ \A j \in 1 .. (Len(q) + n) : g[j] = IF j <= Len(q) THEN q[j] ELSE pad[j - Len(q)]
    <3> HIDE DEF pad, n
    <3> QED
      BY <2>3, ConcatProperties
  <2>5. ASSUME NEW j \in 1 .. Len(g) PROVE g[j] = IF j <= Len(q) THEN q[j] ELSE Empty
    <3> HIDE DEF g, pad, n
    <3>1. ~(j <= Len(q)) => j - Len(q) \in 1 .. n
      BY <1>1, <2>2, <2>4
    <3> QED
      BY <2>3, <2>4, <3>1
  <2>6. Find(q, k) = 0
    BY <1>1, <1>2 DEF Find
  <2>7. Find(g, k) # 0 => Find(g, k) > Len(q)
    <3> HIDE DEF g, pad, n
    <3>1. /\ k \in Nat => Find(g, k) = IF k < Len(g) THEN k + 1 ELSE 0
          /\ k = kIdxEnd => Find(g, k) = 0
          /\ k = kIdxLast => Find(g, k) = Len(g)
      BY <2>4, FindIs
    <3>2. k \in Nat => ~(k < Len(q))
      <4>1. k \in Nat => Find(q, k) = IF k < Len(q) THEN k + 1 ELSE 0
        BY FindIs
      <4> QED
        BY <2>6, <4>1
    <3> QED
      BY <1>1, <2>2, <2>4, <3>1, <3>2 DEF Indexes
  <2>8. k \in Nat => Len(g) = k + 1
    <3>1. k \in Nat => n = k - Len(q) + 1
      BY DEF Index, kIdxLast
    <3> HIDE DEF g, pad, n
    <3> QED
      BY <1>1, <2>4, <3>1
  <2> HIDE DEF g, pad, n
  <2> QED
    BY <1>1, <2>1, <2>2, <2>4, <2>5, <2>6, <2>7, <2>8
<1>3. CASE ~(k # kIdxEnd /\ Index(q, k) - Len(q) \in 0 .. (MaxIncrease - 1))
  <2>1. Grown(q, k) = q
    BY <1>3 DEF Grown
  <2>2. ~(k \in Nat /\ k - Len(q) \in 0 .. (MaxIncrease - 1))
    BY <1>1, <1>3 DEF Index, kIdxEnd, kIdxLast
  <2> QED
    BY <1>1, <2>1, <2>2
<1> QED
  BY <1>2, <1>3

(* What SetAt stores, and where. *)
LEMMA SetAtIs ==
  ASSUME NEW q \in Seq(Items), NEW k \in Indexes, NEW v \in Content, NEW refused,
         NEW r, r = SetAt(q, k, v, refused)
  PROVE  LET g == Grown(q, k)
             p == Find(g, k)
         IN  /\ r \in [done : BOOLEAN, q : Seq(Items), old : Items]
             /\ ~r.done => r.q = g
             /\ r.done => p \in 1 .. Len(g) /\ g[p] # v /\ r.q = ReplaceAt(g, p, v) /\ r.old = g[p]
             /\ p # 0 /\ v \notin refused /\ g[p] # v => r.done
<1> DEFINE g == Grown(q, k)
           p == Find(g, k)
<1>1. g \in Seq(Items) /\ v \in Items /\ Empty \in Items
  BY GrownIs, Sorts
<1>2. CASE p = 0 \/ v \in refused \/ g[p] = v
  <2>1. SetAt(q, k, v, refused) = [done |-> FALSE, q |-> g, old |-> Empty]
    BY <1>2 DEF SetAt
  <2> HIDE DEF g, p
  <2>2. SetAt(q, k, v, refused) \in [done : BOOLEAN, q : Seq(Items), old : Items]
    BY <1>1, <2>1
  <2>3. ~SetAt(q, k, v, refused).done /\ SetAt(q, k, v, refused).q = g
    BY <2>1
  <2> QED
    BY <1>2, <2>2, <2>3 DEF g, p
<1>3. CASE ~(p = 0 \/ v \in refused \/ g[p] = v)
  <2>1. SetAt(q, k, v, refused) = [done |-> TRUE, q |-> ReplaceAt(g, p, v), old |-> g[p]]
    BY <1>3 DEF SetAt
  <2>2. p \in 0 .. Len(g)
    <3> HIDE DEF g
    <3> QED
      BY <1>1, FindIs
  <2> HIDE DEF g, p
  <2>3. p \in 1 .. Len(g)
    BY <1>1, <1>3, <2>2
  <2>4. ReplaceAt(g, p, v) \in Seq(Items) /\ g[p] \in Items
    BY <1>1, <2>3, ReplaceAtIs
  <2>5. SetAt(q, k, v, refused) \in [done : BOOLEAN, q : Seq(Items), old : Items]
    BY <2>1, <2>4
  <2>6. /\ SetAt(q, k, v, refused).done /\ SetAt(q, k, v, refused).q = ReplaceAt(g, p, v)
        /\ SetAt(q, k, v, refused).old = g[p]
    BY <2>1
  <2> QED
    BY <1>3, <2>3, <2>5, <2>6 DEF g, p
<1> QED
  BY <1>2, <1>3

-----------------------------------------------------------------------------
(* Which nodes a changed sequence holds. *)

LEMMA GrownHolds ==
  ASSUME NEW q \in Seq(Items), NEW k \in Indexes
  PROVE  /\ Once(q) => Once(Grown(q, k))
         /\ \A c \in Kids : Holds(Grown(q, k), c) <=> Holds(q, c)
<1> PICK g : g = Grown(q, k)
  OBVIOUS
<1>1. /\ g \in Seq(Items) /\ Len(g) >= Len(q) /\ Len(g) \in Nat /\ Len(q) \in Nat
      /\ \A j \in 1 .. Len(g) : g[j] = IF j <= Len(q) THEN q[j] ELSE Empty
  BY GrownIs
<1>2. Once(q) => Once(g)
  BY <1>1, Sorts DEF Once
<1>3. \A c \in Kids : Holds(g, c) <=> Holds(q, c)
  BY <1>1, Sorts DEF Holds
<1> QED
  BY <1>2, <1>3

LEMMA RemoveAtHolds ==
  ASSUME NEW q \in Seq(Items), NEW p \in 1 .. Len(q)
  PROVE  /\ (\A i, j \in (1 .. Len(q)) \ {p} : q[i] = q[j] /\ q[i] \in Kids => i = j) =>
              Once(RemoveAt(q, p))
         /\ \A c \in Kids : Holds(RemoveAt(q, p), c) <=> \E j \in 1 .. Len(q) : j # p /\ q[j] = c
<1> PICK r : r = RemoveAt(q, p)
  OBVIOUS
<1>1. /\ Len(r) = Len(q) - 1 /\ Len(q) \in Nat
      /\ \A j \in 1 .. Len(r) : r[j] = IF j < p THEN q[j] ELSE q[j + 1]
  <2>1. /\ Len(RemoveAt(q, p)) = Len(q) - 1
        /\ \A j \in 1 .. (Len(q) - 1) : RemoveAt(q, p)[j] = IF j < p THEN q[j] ELSE q[j + 1]
    BY RemoveAtIs
  <2> QED
    BY <2>1
<1>2. ASSUME \A i, j \in (1 .. Len(q)) \ {p} : q[i] = q[j] /\ q[i] \in Kids => i = j
      PROVE  Once(r)
  <2> SUFFICES ASSUME NEW i \in 1 .. Len(r), NEW j \in 1 .. Len(r), r[i] = r[j], r[i] \in Kids
               PROVE  i = j
    BY DEF Once
  <2> DEFINE at(n) == IF n < p THEN n ELSE n + 1
  <2>1. at(i) \in (1 .. Len(q)) \ {p} /\ at(j) \in (1 .. Len(q)) \ {p} /\ (at(i) = at(j) => i = j)
    BY <1>1
  <2>2. r[i] = q[at(i)] /\ r[j] = q[at(j)]
    BY <1>1
  <2> HIDE DEF at
  <2> QED
    BY <1>2, <2>1, <2>2
<1>3. ASSUME NEW c, Holds(r, c) PROVE \E j \in 1 .. Len(q) : j # p /\ q[j] = c
  BY <1>1, <1>3 DEF Holds
<1>4. ASSUME NEW c, NEW j \in 1 .. Len(q), j # p, q[j] = c PROVE Holds(r, c)
  <2>1. CASE j < p
    BY <1>1, <1>4, <2>1 DEF Holds
  <2>2. CASE j > p
    <3>1. j - 1 \in 1 .. Len(r) /\ r[j - 1] = q[j]
      BY <1>1, <2>2
    <3> QED
      BY <1>4, <3>1 DEF Holds
  <2> QED
    BY <1>4, <2>1, <2>2
<1> QED
  BY <1>2, <1>3, <1>4

LEMMA RemovedIsGone ==
  ASSUME NEW q \in Seq(Items), NEW p \in 1 .. Len(q), Once(q)
  PROVE  /\ Once(RemoveAt(q, p))
         /\ \A c \in Kids : Holds(RemoveAt(q, p), c) <=> Holds(q, c) /\ c # q[p]
  BY RemoveAtHolds DEF Holds, Once

LEMMA InsertAtHolds ==
  ASSUME NEW q \in Seq(Items), NEW p \in 1 .. (Len(q) + 1), NEW v \in Items,
         v \in Kids => ~Holds(q, v)
  PROVE  /\ Once(q) => Once(InsertAt(q, p, v))
         /\ \A c \in Kids : Holds(InsertAt(q, p, v), c) <=> Holds(q, c) \/ c = v
<1> PICK r : r = InsertAt(q, p, v)
  OBVIOUS
<1>1. /\ Len(r) = Len(q) + 1 /\ Len(q) \in Nat
      /\ \A j \in 1 .. Len(r) : r[j] = IF j < p THEN q[j] ELSE IF j = p THEN v ELSE q[j - 1]
  BY InsertAtIs, SMTT(30)
<1>2. ASSUME Once(q), NEW i \in 1 .. Len(r), NEW j \in 1 .. Len(r), r[i] = r[j], r[i] \in Kids, i < j
      PROVE  FALSE
  <2>1. CASE i = p
    <3>1. r[i] = v /\ r[j] = q[j - 1] /\ j - 1 \in 1 .. Len(q)
      BY <1>1, <1>2, <2>1
    <3> QED
      BY <1>2, <3>1 DEF Holds
  <2>2. CASE j = p
    <3>1. r[j] = v /\ r[i] = q[i] /\ i \in 1 .. Len(q)
      BY <1>1, <1>2, <2>2
    <3> QED
      BY <1>2, <3>1 DEF Holds
  <2>3. CASE i # p /\ j # p
    <3> DEFINE at(n) == IF n < p THEN n ELSE n - 1
    <3>1. at(i) \in 1 .. Len(q) /\ at(j) \in 1 .. Len(q) /\ at(i) # at(j)
      BY <1>1, <1>2, <2>3
    <3>2. r[i] = q[at(i)] /\ r[j] = q[at(j)]
      BY <1>1, <2>3
    <3> HIDE DEF at
    <3> QED
      BY <1>2, <3>1, <3>2 DEF Once
  <2> QED
    BY <2>1, <2>2, <2>3
<1>3. Once(q) => Once(r)
  <2> SUFFICES ASSUME Once(q), NEW i \in 1 .. Len(r), NEW j \in 1 .. Len(r), r[i] = r[j], r[i] \in Kids
               PROVE  i = j
    BY DEF Once
  <2>1. ~(i < j) /\ ~(j < i)
    BY <1>2
  <2> QED
    BY <1>1, <2>1
<1>4. ASSUME NEW c, Holds(r, c) PROVE Holds(q, c) \/ c = v
  BY <1>1, <1>4 DEF Holds
<1>5. ASSUME NEW c, NEW j \in 1 .. Len(q), q[j] = c PROVE Holds(r, c)
  <2>1. CASE j < p
    BY <1>1, <1>5, <2>1 DEF Holds
  <2>2. CASE ~(j < p)
    <3>1. j + 1 \in 1 .. Len(r) /\ r[j + 1] = q[j]
      BY <1>1, <2>2
    <3> QED
      BY <1>5, <3>1 DEF Holds
  <2> QED
    BY <2>1, <2>2
<1>6. Holds(r, v)
  BY <1>1 DEF Holds
<1>7. \A c \in Kids : Holds(q, c) => Holds(r, c)
  BY <1>5 DEF Holds
<1> QED
  BY <1>3, <1>4, <1>6, <1>7

LEMMA ReplaceAtHolds ==
  ASSUME NEW q \in Seq(Items), NEW p \in 1 .. Len(q), NEW v \in Items,
         Once(q), v \in Kids => ~Holds(q, v)
  PROVE  /\ Once(ReplaceAt(q, p, v))
         /\ \A c \in Kids : Holds(ReplaceAt(q, p, v), c) <=> (Holds(q, c) /\ c # q[p]) \/ c = v
<1> PICK r : r = ReplaceAt(q, p, v)
  OBVIOUS
<1>1. /\ Len(r) = Len(q) /\ Len(q) \in Nat
      /\ \A j \in 1 .. Len(q) : r[j] = IF j = p THEN v ELSE q[j]
  <2>1. /\ ReplaceAt(q, p, v) \in Seq(Items) /\ Len(ReplaceAt(q, p, v)) = Len(q)
        /\ \A j \in 1 .. Len(q) : ReplaceAt(q, p, v)[j] = IF j = p THEN v ELSE q[j]
    BY DEF ReplaceAt
  <2> QED
    BY <2>1
<1>2. Once(r)
  BY <1>1 DEF Once, Holds
<1>3. \A c \in Kids : Holds(r, c) => (Holds(q, c) /\ c # q[p]) \/ c = v
  BY <1>1 DEF Once, Holds
<1>4. Holds(r, v) /\ \A c \in Kids : Holds(q, c) /\ c # q[p] => Holds(r, c)
  BY <1>1 DEF Holds
<1> QED
  BY <1>2, <1>3, <1>4

LEMMA SetAtHolds ==
  ASSUME NEW q \in Seq(Items), NEW k \in Indexes, NEW v \in Content, NEW refused,
         NEW r, r = SetAt(q, k, v, refused),
         Once(q), v \in Kids => ~Holds(q, v)
  PROVE  /\ Once(r.q)
         /\ ~r.done => \A c \in Kids : Holds(r.q, c) <=> Holds(q, c)
         /\ r.done => \A c \in Kids : Holds(r.q, c) <=> (Holds(q, c) /\ c # r.old) \/ c = v
         /\ r.done /\ r.old \in Kids => Holds(q, r.old)
<1> PICK g : g = Grown(q, k)
  OBVIOUS
<1> PICK p : p = Find(g, k)
  OBVIOUS
<1>1. /\ r.done \in BOOLEAN
      /\ ~r.done => r.q = g
      /\ r.done => p \in 1 .. Len(g) /\ r.q = ReplaceAt(g, p, v) /\ r.old = g[p]
  BY SetAtIs
<1>2. g \in Seq(Items) /\ Once(g) /\ \A c \in Kids : Holds(g, c) <=> Holds(q, c)
  BY GrownIs, GrownHolds
<1>3. v \in Items /\ (v \in Kids => ~Holds(g, v))
  BY <1>2, Sorts
<1>4. CASE ~r.done
  BY <1>1, <1>2, <1>4
<1>5. CASE r.done
  <2>0. p \in 1 .. Len(g) /\ r.q = ReplaceAt(g, p, v) /\ r.old = g[p]
    BY <1>1, <1>5
  <2>1. /\ Once(ReplaceAt(g, p, v))
        /\ \A c \in Kids : Holds(ReplaceAt(g, p, v), c) <=> (Holds(g, c) /\ c # g[p]) \/ c = v
    BY <1>2, <1>3, <2>0, ReplaceAtHolds
  <2>2. Holds(g, g[p])
    BY <2>0 DEF Holds
  <2> QED
    BY <1>2, <1>5, <2>0, <2>1, <2>2
<1> QED
  BY <1>1, <1>4, <1>5

(* The first other place of c goes, if there is one. *)
LEMMA RemoveDuplicatesIs ==
  ASSUME NEW q \in Seq(Items), NEW c, NEW keep
  PROVE  \/ RemoveDuplicates(q, c, keep) = q /\ \A i \in 1 .. Len(q) : q[i] = c => i - 1 = keep
         \/ \E i \in 1 .. Len(q) : i - 1 # keep /\ q[i] = c /\ RemoveDuplicates(q, c, keep) = RemoveAt(q, i)
<1> DEFINE others == {i \in DOMAIN q : i - 1 # keep /\ q[i] = c}
<1>1. DOMAIN q = 1 .. Len(q) /\ Len(q) \in Nat
  OBVIOUS
<1>2. CASE others = {}
  BY <1>1, <1>2 DEF RemoveDuplicates
<1>3. CASE others # {}
  <2>1. RemoveDuplicates(q, c, keep) = RemoveAt(q, Min(others))
    BY <1>3 DEF RemoveDuplicates
  <2>2. others \subseteq Nat
    BY <1>1
  <2>3. Min(others) \in others
    <3> HIDE DEF others
    <3> QED
      BY <1>3, <2>2, MinOfNaturals
  <2> QED
    BY <1>1, <2>1, <2>3
<1> QED
  BY <1>2, <1>3

LEMMA RemoveDuplicatesTyped ==
  ASSUME NEW q \in Seq(Items), NEW c, NEW keep
  PROVE  RemoveDuplicates(q, c, keep) \in Seq(Items)
  BY RemoveDuplicatesIs, RemoveAtIs

(* A node set by an index is held there, and once. *)
LEMMA SetIsTidied ==
  ASSUME NEW q \in Seq(Items), NEW k \in Indexes, NEW v \in Kids, NEW refused,
         NEW r, r = SetAt(q, k, v, refused), NEW t, t = RemoveDuplicates(r.q, v, k),
         Once(q), k # kIdxLast, r.done
  PROVE  /\ Once(t)
         /\ \A c \in Kids : Holds(t, c) <=> (Holds(q, c) /\ c # r.old) \/ c = v
         /\ r.old # v /\ (r.old \in Kids => Holds(q, r.old))
<1> PICK g : g = Grown(q, k)
  OBVIOUS
<1> PICK p : p = Find(g, k)
  OBVIOUS
<1> PICK w : w = r.q
  OBVIOUS
<1>1. v \in Items /\ v \in Content
  BY Sorts DEF Content
<1>2. r \in [done : BOOLEAN, q : Seq(Items), old : Items]
  BY <1>1, SetAtIs
<1>3. /\ w \in Seq(Items) /\ p \in 1 .. Len(g) /\ w = ReplaceAt(g, p, v) /\ r.old = g[p] /\ g[p] # v
  BY <1>1, <1>2, SetAtIs
<1>4. g \in Seq(Items) /\ Once(g) /\ \A c \in Kids : Holds(g, c) <=> Holds(q, c)
  BY GrownIs, GrownHolds
<1>5. p - 1 = k /\ Len(g) \in Nat
  <2>1. /\ k \in Nat => Find(g, k) = IF k < Len(g) THEN k + 1 ELSE 0
        /\ k = kIdxEnd => Find(g, k) = 0
    BY <1>4, FindIs
  <2> QED
    BY <1>3, <1>4, <2>1 DEF Indexes
<1>6. /\ Len(w) = Len(g) /\ \A j \in 1 .. Len(g) : w[j] = IF j = p THEN v ELSE g[j]
  BY <1>1, <1>3, <1>4 DEF ReplaceAt
<1>7. r.old # v /\ (r.old \in Kids => Holds(q, r.old))
  BY <1>3, <1>4 DEF Holds
<1>8. CASE t = w /\ \A i \in 1 .. Len(w) : w[i] = v => i - 1 = k
  <2>1. ~Holds(g, v)
    BY <1>3, <1>5, <1>6, <1>8 DEF Holds
  <2>2. /\ Once(ReplaceAt(g, p, v))
        /\ \A c \in Kids : Holds(ReplaceAt(g, p, v), c) <=> (Holds(g, c) /\ c # g[p]) \/ c = v
    BY <1>1, <1>3, <1>4, <2>1, ReplaceAtHolds
  <2> QED
    BY <1>3, <1>4, <1>7, <1>8, <2>2
<1>9. ASSUME NEW i \in 1 .. Len(w), i - 1 # k, w[i] = v, t = RemoveAt(w, i)
      PROVE  Once(t) /\ \A c \in Kids : Holds(t, c) <=> (Holds(q, c) /\ c # r.old) \/ c = v
  <2>1. i # p /\ i \in 1 .. Len(g) /\ g[i] = v
    BY <1>5, <1>6, <1>9
  <2>2. \A a, b \in (1 .. Len(w)) \ {i} : w[a] = w[b] /\ w[a] \in Kids => a = b
    BY <1>4, <1>6, <2>1 DEF Once
  <2>3. /\ Once(RemoveAt(w, i))
        /\ \A c \in Kids : Holds(RemoveAt(w, i), c) <=> \E j \in 1 .. Len(w) : j # i /\ w[j] = c
    BY <1>3, <2>2, RemoveAtHolds, SMTT(30)
  <2>4. ASSUME NEW c \in Kids, NEW j \in 1 .. Len(w), j # i, w[j] = c
        PROVE  (Holds(g, c) /\ c # g[p]) \/ c = v
    <3>1. CASE j = p
      BY <1>6, <2>4, <3>1
    <3>2. CASE j # p
      <4>1. g[j] = c /\ j \in 1 .. Len(g)
        BY <1>6, <2>4, <3>2
      <4> QED
        BY <1>3, <1>4, <3>2, <4>1 DEF Holds, Once
    <3> QED
      BY <3>1, <3>2
  <2>5. ASSUME NEW c \in Kids, (Holds(g, c) /\ c # g[p]) \/ c = v
        PROVE  \E j \in 1 .. Len(w) : j # i /\ w[j] = c
    <3>1. CASE c = v
      BY <1>3, <1>6, <2>1, <3>1
    <3>2. CASE c # v
      <4>1. PICK j \in 1 .. Len(g) : g[j] = c /\ j # p /\ j # i
        BY <2>1, <2>5, <3>2 DEF Holds
      <4> QED
        BY <1>6, <4>1
    <3> QED
      BY <3>1, <3>2
  <2> QED
    BY <1>3, <1>4, <1>9, <2>3, <2>4, <2>5
<1>10. \/ t = w /\ \A i \in 1 .. Len(w) : w[i] = v => i - 1 = k
       \/ \E i \in 1 .. Len(w) : i - 1 # k /\ w[i] = v /\ t = RemoveAt(w, i)
  BY <1>3, RemoveDuplicatesIs
<1> QED
  BY <1>7, <1>8, <1>9, <1>10

-----------------------------------------------------------------------------
(* The steps of the nodes. *)

LEMMA WithoutNone ==
  ASSUME NEW q \in Seq(Items), NEW gone, \A n \in 1 .. Len(q) : q[n] \notin gone
  PROVE  IsWithout(q, q, gone)
<1> DEFINE kept == [i \in 1 .. Len(q) |-> i]
<1>1. kept \in [1 .. Len(q) -> 1 .. Len(q)] /\ \A i \in 1 .. Len(q) : kept[i] = i
  OBVIOUS
<1> HIDE DEF kept
<1> QED
  BY <1>1 DEF IsWithout

(* One more node goes. *)
LEMMA WithoutOneMore ==
  ASSUME NEW r \in Seq(Items), NEW q, NEW gone, IsWithout(r, q, gone), Once(r),
         NEW i \in 1 .. Len(r), r[i] \in Kids
  PROVE  IsWithout(RemoveAt(r, i), q, gone \cup {r[i]})
<1> PICK kept \in [1 .. Len(r) -> 1 .. Len(q)] :
      /\ \A j, k \in 1 .. Len(r) : j < k => kept[j] < kept[k]
      /\ \A j \in 1 .. Len(r) : r[j] = q[kept[j]]
      /\ \A n \in 1 .. Len(q) : (\E j \in 1 .. Len(r) : kept[j] = n) <=> q[n] \notin gone
  BY DEF IsWithout
<1> PICK m : m = Len(r) - 1
  OBVIOUS
<1>1. m \in Nat /\ Len(r) = m + 1
  OBVIOUS
<1> PICK t : t = RemoveAt(r, i)
  OBVIOUS
<1>2. Len(t) = m /\ \A j \in 1 .. m : t[j] = IF j < i THEN r[j] ELSE r[j + 1]
  BY <1>1, RemoveAtIs
<1> DEFINE at(j) == IF j < i THEN j ELSE j + 1
           left == [j \in 1 .. m |-> kept[at(j)]]
<1>3. \A j \in 1 .. m : at(j) \in 1 .. Len(r) /\ at(j) # i /\ t[j] = r[at(j)]
  BY <1>1, <1>2
<1>4. \A j, k \in 1 .. m : j < k => at(j) < at(k)
  BY <1>1
<1>5. \A k \in 1 .. Len(r) : k # i => \E j \in 1 .. m : at(j) = k
  <2> SUFFICES ASSUME NEW k \in 1 .. Len(r), k # i PROVE \E j \in 1 .. m : at(j) = k
    OBVIOUS
  <2>1. CASE k < i
    <3>1. k \in 1 .. m
      BY <1>1, <2>1
    <3> QED
      BY <2>1, <3>1
  <2>2. CASE ~(k < i)
    <3>1. k - 1 \in 1 .. m /\ ~(k - 1 < i) /\ (k - 1) + 1 = k
      BY <1>1, <2>2
    <3> QED
      BY <3>1
  <2> QED
    BY <2>1, <2>2
<1> HIDE DEF at
<1>6. left \in [1 .. m -> 1 .. Len(q)] /\ \A j \in 1 .. m : left[j] = kept[at(j)]
  BY <1>3
<1> HIDE DEF left
<1>7. \A j, k \in 1 .. m : j < k => left[j] < left[k]
  BY <1>3, <1>4, <1>6
<1>8. ASSUME NEW j \in 1 .. m PROVE t[j] = q[left[j]]
  <2>1. at(j) \in 1 .. Len(r) /\ t[j] = r[at(j)] /\ left[j] = kept[at(j)]
    BY <1>3, <1>6
  <2> QED
    BY <2>1
<1>9. ASSUME NEW n \in 1 .. Len(q)
      PROVE  (\E j \in 1 .. m : left[j] = n) <=> q[n] \notin gone \cup {r[i]}
  <2>1. ASSUME NEW j \in 1 .. m, left[j] = n PROVE q[n] \notin gone \cup {r[i]}
    <3>1. kept[at(j)] = n /\ at(j) \in 1 .. Len(r) /\ at(j) # i /\ q[n] = r[at(j)]
      BY <1>3, <1>6, <2>1
    <3>2. q[n] \notin gone
      BY <3>1
    <3>3. r[at(j)] # r[i]
      BY <3>1 DEF Once
    <3> QED
      BY <3>1, <3>2, <3>3
  <2>2. ASSUME q[n] \notin gone \cup {r[i]} PROVE \E j \in 1 .. m : left[j] = n
    <3> PICK k \in 1 .. Len(r) : kept[k] = n
      BY <2>2
    <3>1. k # i
      BY <2>2
    <3> PICK j \in 1 .. m : at(j) = k
      BY <1>5, <3>1
    <3> QED
      BY <1>6
  <2> QED
    BY <2>1, <2>2
<1> PICK more : more = gone \cup {r[i]}
  OBVIOUS
<1>10. IsWithout(t, q, more)
  BY ONLY <1>2, <1>6, <1>7, <1>8, <1>9, more = gone \cup {r[i]} DEF IsWithout
<1> QED
  BY <1>10

LEMMA LeaveTyped ==
  ASSUME NEW s \in States, NEW v \in Items
  PROVE  Leave(s, v) \in States
<1>1. CASE v \notin Kids \/ s.parent[v] = NoNode
  BY <1>1 DEF Leave
<1>2. CASE ~(v \notin Kids \/ s.parent[v] = NoNode)
  <2> PICK b : b = s.parent[v]
    OBVIOUS
  <2>1. v \in Kids /\ b \in Arrays /\ s.items[b] \in Seq(Items)
    BY <1>2 DEF States
  <2>2. RemoveFirst(s.items[b], v) \in Seq(Items)
    BY <2>1, RemoveFirstInSeq
  <2>3. Leave(s, v) = [items  |-> [s.items EXCEPT ![b] = RemoveFirst(s.items[b], v)],
                       parent |-> [s.parent EXCEPT ![v] = NoNode]]
    BY <1>2 DEF Leave
  <2> QED
    BY <2>1, <2>2, <2>3 DEF States
<1> QED
  BY <1>1, <1>2

(* To leave changes the former parent and the node, and nothing else: not  *)
(* the array that is called, unless it is the former parent and still      *)
(* holds the node.                                                         *)
LEMMA LeaveDoes ==
  ASSUME NEW s \in States, NEW on \in Arrays \cup {NoNode}, NEW v \in Items,
         NEW u, u = Leave(s, v),
         Around(s, on),
         v \in Kids /\ on \in Arrays /\ s.parent[v] = on => ~Holds(s.items[on], v)
  PROVE  /\ u \in States /\ Around(u, on)
         /\ on \in Arrays => u.items[on] = s.items[on]
         /\ \A c \in Kids : u.parent[c] = IF c = v THEN NoNode ELSE s.parent[c]
<1>0. u \in States
  BY LeaveTyped
<1>1. CASE v \notin Kids \/ s.parent[v] = NoNode
  <2>1. u = s
    BY <1>1 DEF Leave
  <2> QED
    BY <1>0, <1>1, <2>1
<1>2. CASE ~(v \notin Kids \/ s.parent[v] = NoNode)
  <2> PICK b : b = s.parent[v]
    OBVIOUS
  <2> PICK q : q = s.items[b]
    OBVIOUS
  <2>1. v \in Kids /\ b \in Arrays /\ b # NoNode /\ q \in Seq(Items)
    BY <1>2 DEF States
  <2>2. /\ u.items = [s.items EXCEPT ![b] = RemoveFirst(q, v)]
        /\ u.parent = [s.parent EXCEPT ![v] = NoNode]
    BY <1>2 DEF Leave
  <2>3. \A c \in Kids : u.parent[c] = IF c = v THEN NoNode ELSE s.parent[c]
    BY <2>1, <2>2 DEF States
  <2>4. u.items[b] = RemoveFirst(q, v) /\ \A a \in Arrays : a # b => u.items[a] = s.items[a]
    BY <2>1, <2>2 DEF States
  <2>5. \/ RemoveFirst(q, v) = q /\ ~Holds(q, v)
        \/ \E i \in 1 .. Len(q) : q[i] = v /\ RemoveFirst(q, v) = RemoveAt(q, i)
    BY <2>1, RemoveFirstIs DEF Holds
  <2>6. on \in Arrays => u.items[on] = s.items[on]
    BY <2>1, <2>4, <2>5 DEF Holds
  <2>7. ASSUME b # on PROVE Agrees(u.items[b], b, u.parent) /\ Shed(u, b)
    <3>1. Agrees(q, b, s.parent) /\ IsWithout(q, items[b], Elsewhere(b, s.parent))
      BY <2>1, <2>7 DEF Around, Shed
    <3>2. Holds(q, v) /\ Once(q)
      BY <2>1, <3>1 DEF Agrees
    <3> PICK i \in 1 .. Len(q) : q[i] = v /\ RemoveFirst(q, v) = RemoveAt(q, i)
      BY <2>5, <3>2
    <3>3. /\ Once(RemoveAt(q, i))
          /\ \A c \in Kids : Holds(RemoveAt(q, i), c) <=> Holds(q, c) /\ c # v
      BY <2>1, <3>2, RemovedIsGone
    <3>4. u.items[b] = RemoveAt(q, i)
      BY <2>4
    <3>5. ASSUME NEW c \in Kids PROVE Holds(RemoveAt(q, i), c) <=> u.parent[c] = b
      <4>1. Holds(q, c) <=> s.parent[c] = b
        BY <3>1 DEF Agrees
      <4> QED
        BY <2>1, <2>3, <3>3, <4>1
    <3>6. IsWithout(RemoveAt(q, i), items[b], Elsewhere(b, s.parent) \cup {v})
      BY <2>1, <3>1, <3>2, WithoutOneMore
    <3>7. Elsewhere(b, u.parent) = Elsewhere(b, s.parent) \cup {v}
      BY <2>1, <2>3 DEF Elsewhere
    <3> QED
      BY <3>3, <3>4, <3>5, <3>6, <3>7 DEF Agrees, Shed
  <2>8. ASSUME NEW a \in Arrays, a # on, a # b PROVE Agrees(u.items[a], a, u.parent) /\ Shed(u, a)
    <3>1. Agrees(s.items[a], a, s.parent) /\ Shed(s, a)
      BY <2>8 DEF Around
    <3>2. \A c \in Kids : u.parent[c] = a <=> s.parent[c] = a
      BY <2>1, <2>3, <2>8, Sorts
    <3>3. Elsewhere(a, u.parent) = Elsewhere(a, s.parent)
      BY <3>2 DEF Elsewhere
    <3> QED
      BY <2>4, <2>8, <3>1, <3>2, <3>3 DEF Agrees, Shed
  <2>9. Around(u, on)
    BY <2>7, <2>8 DEF Around
  <2> QED
    BY <1>0, <2>3, <2>6, <2>9
<1> QED
  BY <1>1, <1>2

LEMMA AdoptDoes ==
  ASSUME NEW s \in States, NEW on \in Arrays, NEW v \in Items, NEW u, u = Adopt(s, on, v)
  PROVE  /\ u \in States
         /\ Around(s, on) =>
              /\ Around(u, on) /\ u.items[on] = s.items[on]
              /\ \A c \in Kids : u.parent[c] = IF c = v THEN on ELSE s.parent[c]
<1>1. CASE v \notin Kids \/ s.parent[v] = on
  BY <1>1 DEF Adopt
<1>2. CASE ~(v \notin Kids \/ s.parent[v] = on)
  <2> PICK w : w = Leave(s, v)
    OBVIOUS
  <2>1. w \in States
    BY LeaveTyped
  <2>2. u = [w EXCEPT !.parent[v] = on]
    BY <1>2 DEF Adopt
  <2>3. u \in States /\ u.items = w.items /\ u.parent = [w.parent EXCEPT ![v] = on]
    <3>1. v \in Kids
      BY <1>2
    <3> QED
      BY ONLY <2>1, <2>2, <3>1, on \in Arrays DEF States
  <2>4. ASSUME Around(s, on)
        PROVE  /\ Around(u, on) /\ u.items[on] = s.items[on]
               /\ \A c \in Kids : u.parent[c] = IF c = v THEN on ELSE s.parent[c]
    <3>1. /\ Around(w, on) /\ w.items[on] = s.items[on]
          /\ \A c \in Kids : w.parent[c] = IF c = v THEN NoNode ELSE s.parent[c]
      BY <1>2, <2>4, LeaveDoes
    <3>2. \A c \in Kids : u.parent[c] = IF c = v THEN on ELSE w.parent[c]
      BY <2>1, <2>3 DEF States
    <3>3. ASSUME NEW a \in Arrays \ {on} PROVE Agrees(u.items[a], a, u.parent) /\ Shed(u, a)
      <4>1. Agrees(w.items[a], a, w.parent) /\ Shed(w, a)
        BY <3>1 DEF Around
      <4>2. ASSUME NEW c \in Kids PROVE u.parent[c] = a <=> w.parent[c] = a
        <5>1. a # on /\ a # NoNode
          BY Sorts
        <5> QED
          BY <3>1, <3>2, <5>1
      <4>3. Elsewhere(a, u.parent) = Elsewhere(a, w.parent)
        BY <4>2 DEF Elsewhere
      <4> QED
        BY <2>3, <4>1, <4>2, <4>3 DEF Agrees, Shed
    <3> QED
      BY <2>3, <3>1, <3>2, <3>3 DEF Around
  <2> QED
    BY <2>3, <2>4
<1> QED
  BY <1>1, <1>2

LEMMA OrphanDoes ==
  ASSUME NEW s \in States, NEW on \in Arrays, NEW v \in Items, NEW u, u = Orphan(s, v)
  PROVE  /\ u \in States
         /\ Around(s, on) /\ (v \in Kids => s.parent[v] = on) =>
              /\ Around(u, on) /\ u.items[on] = s.items[on]
              /\ \A c \in Kids : u.parent[c] = IF c = v THEN NoNode ELSE s.parent[c]
<1>1. CASE v \notin Kids
  BY <1>1 DEF Orphan
<1>2. CASE v \in Kids
  <2>1. u = [s EXCEPT !.parent[v] = NoNode]
    BY <1>2 DEF Orphan
  <2>2. u \in States /\ u.items = s.items /\ u.parent = [s.parent EXCEPT ![v] = NoNode]
    BY <1>2, <2>1 DEF States
  <2>3. \A c \in Kids : u.parent[c] = IF c = v THEN NoNode ELSE s.parent[c]
    BY <2>2 DEF States
  <2>4. ASSUME Around(s, on), s.parent[v] = on, NEW a \in Arrays \ {on}
        PROVE  Agrees(u.items[a], a, u.parent) /\ Shed(u, a)
    <3>1. Agrees(s.items[a], a, s.parent) /\ Shed(s, a)
      BY <2>4 DEF Around
    <3>2. \A c \in Kids : u.parent[c] = a <=> s.parent[c] = a
      BY <2>3, <2>4, Sorts
    <3>3. Elsewhere(a, u.parent) = Elsewhere(a, s.parent)
      BY <3>2 DEF Elsewhere
    <3> QED
      BY <2>2, <3>1, <3>2, <3>3 DEF Agrees, Shed
  <2> QED
    BY <1>2, <2>2, <2>3, <2>4 DEF Around
<1> QED
  BY <1>1, <1>2

-----------------------------------------------------------------------------
(* The loops, each by the states between its rounds. *)

(* What the loops work on. *)
Pairs == [key : Indexes, val : Content]
Erased == [q : Seq(Items), out : Seq(Items)]
SetSoFar == [q : Seq(Items), old : Seq(Items), put : SUBSET Pairs]
InsertedSoFar == [q : Seq(Items), put : SUBSET Kids]
InsertedUpTo == [q : Seq(Items), at : Indexes, put : Seq(Items)]

LEMMA AddressesAre ==
  /\ ByAddress \in Seq(Items) /\ \A i \in 1 .. Len(ByAddress) : ByAddress[i] \in Kids
  /\ \A c \in Kids : \E i \in 1 .. Len(ByAddress) : ByAddress[i] = c
  /\ \A i, j \in 1 .. Len(ByAddress) : ByAddress[i] = ByAddress[j] => i = j
<1>1. ByAddress \in Seq(Kids) /\ ToSet(ByAddress) = Kids /\ DOMAIN ByAddress = 1 .. Len(ByAddress)
  BY ArrayAssumption
<1>2. \A i, j \in 1 .. Len(ByAddress) : ByAddress[i] = ByAddress[j] => i = j
  BY <1>1, ArrayAssumption
<1>3. \A c \in Kids : \E i \in 1 .. Len(ByAddress) : ByAddress[i] = c
  BY <1>1 DEF ToSet
<1>4. ByAddress \in Seq(Items)
  BY <1>1, Sorts
<1> QED
  BY <1>1, <1>2, <1>3, <1>4

LEMMA EraseOneTyped ==
  ASSUME NEW t \in Erased, NEW k \in Indexes
  PROVE  EraseOne(t, k) \in Erased
<1> PICK p : p = Find(t.q, k)
  OBVIOUS
<1>1. t.q \in Seq(Items) /\ t.out \in Seq(Items)
  BY DEF Erased
<1>2. p \in 0 .. Len(t.q)
  BY <1>1, FindIs
<1>3. CASE p = 0
  <2>1. EraseOne(t, k) = [q |-> t.q, out |-> t.out]
    BY <1>3 DEF EraseOne, EraseAt
  <2> QED
    BY <1>1, <2>1 DEF Erased
<1>4. CASE p # 0
  <2>1. EraseOne(t, k) = [q |-> RemoveAt(t.q, p), out |-> Append(t.out, t.q[p])]
    BY <1>4 DEF EraseOne, EraseAt
  <2>2. p \in 1 .. Len(t.q) /\ t.q[p] \in Items
    BY <1>1, <1>2, <1>4
  <2>3. RemoveAt(t.q, p) \in Seq(Items) /\ Append(t.out, t.q[p]) \in Seq(Items)
    BY <1>1, <2>2, RemoveAtIs
  <2> QED
    BY <2>1, <2>3 DEF Erased
<1> QED
  BY <1>3, <1>4

LEMMA SetOneTyped ==
  ASSUME NEW t \in SetSoFar, NEW p \in Pairs, NEW refused
  PROVE  SetOne(t, p, refused) \in SetSoFar
<1> PICK r : r = SetAt(t.q, p.key, p.val, refused)
  OBVIOUS
<1>1. t.q \in Seq(Items) /\ t.old \in Seq(Items) /\ t.put \in SUBSET Pairs
  BY DEF SetSoFar
<1>2. r \in [done : BOOLEAN, q : Seq(Items), old : Items]
  <2> PICK q, k, v : q = t.q /\ k = p.key /\ v = p.val
    OBVIOUS
  <2>1. q \in Seq(Items) /\ k \in Indexes /\ v \in Content /\ r = SetAt(q, k, v, refused)
    BY <1>1 DEF Pairs
  <2> QED
    BY <2>1, SetAtIs
<1>3. CASE ~r.done
  <2>1. SetOne(t, p, refused) = [t EXCEPT !.q = r.q]
    BY <1>3 DEF SetOne
  <2> QED
    BY <1>2, <2>1 DEF SetSoFar
<1>4. CASE r.done
  <2>1. SetOne(t, p, refused) =
          [q |-> r.q, old |-> Append(t.old, r.old), put |-> IF p.val \in Kids THEN t.put \cup {p} ELSE t.put]
    BY <1>4 DEF SetOne
  <2> QED
    BY <1>1, <1>2, <2>1 DEF SetSoFar
<1> QED
  BY <1>3, <1>4

LEMMA EmplaceAtTyped ==
  ASSUME NEW q \in Seq(Items), NEW k \in Indexes, NEW v \in Items
  PROVE  \E p \in 1 .. (Len(q) + 1) :
              /\ EmplaceAt(q, k, v) = InsertAt(q, p, v)
              /\ InsertAt(q, p, v) \in Seq(Items)
<1> DEFINE p == IF Find(q, k) = 0 THEN Len(q) + 1 ELSE Find(q, k)
<1>1. p \in 1 .. (Len(q) + 1)
  <2>1. Find(q, k) \in 0 .. Len(q) /\ Len(q) \in Nat
    BY FindIs
  <2> QED
    BY <2>1
<1>2. EmplaceAt(q, k, v) = InsertAt(q, p, v)
  BY DEF EmplaceAt
<1> HIDE DEF p
<1> QED
  BY <1>1, <1>2, InsertAtIs

LEMMA InsertOneTyped ==
  ASSUME NEW t \in InsertedSoFar, NEW p \in Pairs, NEW refused
  PROVE  InsertOne(t, p, refused) \in InsertedSoFar
<1>1. t.q \in Seq(Items) /\ t.put \in SUBSET Kids /\ p.key \in Indexes /\ p.val \in Items
  BY Sorts DEF InsertedSoFar, Pairs
<1>2. EmplaceAt(t.q, p.key, p.val) \in Seq(Items)
  BY <1>1, EmplaceAtTyped
<1>3. CASE InsertOne(t, p, refused) = t
  BY <1>3
<1>4. CASE InsertOne(t, p, refused) =
             [q |-> EmplaceAt(t.q, p.key, p.val), put |-> t.put \cup ({p.val} \cap Kids)]
  BY <1>1, <1>2, <1>4 DEF InsertedSoFar
<1> QED
  BY <1>3, <1>4 DEF InsertOne

LEMMA InsertNextTyped ==
  ASSUME NEW t \in InsertedUpTo, NEW v \in Items, NEW refused
  PROVE  InsertNext(t, v, refused) \in InsertedUpTo
<1> DEFINE next == IF t.at \in {kIdxEnd, kIdxLast} THEN t.at ELSE t.at + 1
<1>1. t.q \in Seq(Items) /\ t.put \in Seq(Items) /\ t.at \in Indexes
  BY DEF InsertedUpTo
<1>2. EmplaceAt(t.q, t.at, v) \in Seq(Items)
  BY <1>1, EmplaceAtTyped
<1>3. next \in Indexes
  BY <1>1 DEF Indexes
<1>4. Append(t.put, v) \in Seq(Items)
  BY <1>1
<1>5. \/ InsertNext(t, v, refused) = t
      \/ InsertNext(t, v, refused) = [q |-> EmplaceAt(t.q, t.at, v), at |-> next, put |-> Append(t.put, v)]
  BY DEF InsertNext
<1> HIDE DEF next
<1>6. CASE InsertNext(t, v, refused) = t
  BY <1>6
<1>7. CASE InsertNext(t, v, refused) =
             [q |-> EmplaceAt(t.q, t.at, v), at |-> next, put |-> Append(t.put, v)]
  BY <1>2, <1>3, <1>4, <1>7 DEF InsertedUpTo
<1> QED
  BY <1>5, <1>6, <1>7

LEMMA TreatOneTyped ==
  ASSUME NEW q \in Seq(Items), NEW c, c.to \in Items, NEW v \in Items, NEW refused
  PROVE  TreatOne(c, q, v, refused) \in Seq(Items)
  BY DEF TreatOne

(* The course of LeaveAll. *)
LEMMA LeaveAllRuns ==
  ASSUME NEW s \in States, NEW q \in Seq(Items)
  PROVE  \E f \in [0 .. Len(q) -> States] :
           /\ f[0] = s
           /\ \A i \in 1 .. Len(q) : f[i] = Leave(f[i - 1], q[i])
           /\ f[Len(q)] = LeaveAll(s, q)
<1> DEFINE n == Len(q)
           start == s
           V == States
           Round(t, i) == Leave(t, q[i])
           step == [i \in 1 .. n |-> [t \in V |-> Round(t, i)]]
           g == CHOOSE g : g = [i \in 0 .. n |-> IF i = 0 THEN start ELSE Round(g[i - 1], i)]
<1>1. \A t \in V, i \in 1 .. n : Round(t, i) \in V
  BY LeaveTyped
<1>2. LeaveAll(s, q) = g[n]
  BY DEF LeaveAll, Through
<1>3. n \in Nat /\ start \in V
  OBVIOUS
<1> HIDE DEF Round, n, start, V
<1>4. step \in [1 .. n -> [V -> V]]
  BY <1>1
<1> PICK f \in [0 .. n -> V] : Rounds(f, n, start, step)
  <2> HIDE DEF step
  <2> QED
    BY <1>3, <1>4, RoundsExist
<1>5. f[0] = start /\ \A i \in 1 .. n : f[i] = Round(f[i - 1], i)
  <2>1. ASSUME NEW i \in 1 .. n PROVE f[i] = Round(f[i - 1], i)
    <3>1. i - 1 \in 0 .. n
      BY <1>3
    <3>2. f[i] = step[i][f[i - 1]] /\ f[i - 1] \in V
      BY <3>1 DEF Rounds
    <3> QED
      BY <3>2
  <2> QED
    BY <2>1 DEF Rounds
<1> HIDE DEF step
<1>6. g = [i \in 0 .. n |-> IF i = 0 THEN start ELSE Round(g[i - 1], i)]
  <2> DEFINE R(i) == IF i = 0 THEN start ELSE Round(f[i - 1], i)
  <2>1. \A i \in 0 .. n : f[i] = R(i)
    BY <1>3, <1>5
  <2>2. f = [i \in 0 .. n |-> R(i)]
    <3> HIDE DEF R
    <3> QED
      BY <2>1
  <2> QED
    BY <2>2
<1> HIDE DEF g
<1>7. g[0] = start /\ \A i \in 1 .. n : g[i] = Round(g[i - 1], i)
  BY <1>3, <1>6
<1>8. g \in [0 .. n -> V]
  <2> DEFINE S == {i \in 0 .. n : g[i] \in V}
  <2>1. 0 \in S /\ \A i \in 1 .. n : i - 1 \in S => i \in S
    BY <1>1, <1>3, <1>7
  <2> HIDE DEF S
  <2>2. \A i \in 0 .. n : i \in S
    BY <1>3, <2>1, InductionUpTo
  <2> QED
    BY <1>6, <2>2 DEF S
<1> QED
  BY <1>2, <1>7, <1>8, Zenon DEF Round, n, start, V

(* The course of AdoptAll. *)
LEMMA AdoptAllRuns ==
  ASSUME NEW s \in States, NEW on \in Arrays, NEW q \in Seq(Items)
  PROVE  \E f \in [0 .. Len(q) -> States] :
           /\ f[0] = s
           /\ \A i \in 1 .. Len(q) : f[i] = Adopt(f[i - 1], on, q[i])
           /\ f[Len(q)] = AdoptAll(s, on, q)
<1> DEFINE n == Len(q)
           start == s
           V == States
           Round(t, i) == Adopt(t, on, q[i])
           step == [i \in 1 .. n |-> [t \in V |-> Round(t, i)]]
           g == CHOOSE g : g = [i \in 0 .. n |-> IF i = 0 THEN start ELSE Round(g[i - 1], i)]
<1>1. \A t \in V, i \in 1 .. n : Round(t, i) \in V
  BY AdoptDoes
<1>2. AdoptAll(s, on, q) = g[n]
  BY DEF AdoptAll, Through
<1>3. n \in Nat /\ start \in V
  OBVIOUS
<1> HIDE DEF Round, n, start, V
<1>4. step \in [1 .. n -> [V -> V]]
  BY <1>1
<1> PICK f \in [0 .. n -> V] : Rounds(f, n, start, step)
  <2> HIDE DEF step
  <2> QED
    BY <1>3, <1>4, RoundsExist
<1>5. f[0] = start /\ \A i \in 1 .. n : f[i] = Round(f[i - 1], i)
  <2>1. ASSUME NEW i \in 1 .. n PROVE f[i] = Round(f[i - 1], i)
    <3>1. i - 1 \in 0 .. n
      BY <1>3
    <3>2. f[i] = step[i][f[i - 1]] /\ f[i - 1] \in V
      BY <3>1 DEF Rounds
    <3> QED
      BY <3>2
  <2> QED
    BY <2>1 DEF Rounds
<1> HIDE DEF step
<1>6. g = [i \in 0 .. n |-> IF i = 0 THEN start ELSE Round(g[i - 1], i)]
  <2> DEFINE R(i) == IF i = 0 THEN start ELSE Round(f[i - 1], i)
  <2>1. \A i \in 0 .. n : f[i] = R(i)
    BY <1>3, <1>5
  <2>2. f = [i \in 0 .. n |-> R(i)]
    <3> HIDE DEF R
    <3> QED
      BY <2>1
  <2> QED
    BY <2>2
<1> HIDE DEF g
<1>7. g[0] = start /\ \A i \in 1 .. n : g[i] = Round(g[i - 1], i)
  BY <1>3, <1>6
<1>8. g \in [0 .. n -> V]
  <2> DEFINE S == {i \in 0 .. n : g[i] \in V}
  <2>1. 0 \in S /\ \A i \in 1 .. n : i - 1 \in S => i \in S
    BY <1>1, <1>3, <1>7
  <2> HIDE DEF S
  <2>2. \A i \in 0 .. n : i \in S
    BY <1>3, <2>1, InductionUpTo
  <2> QED
    BY <1>6, <2>2 DEF S
<1> QED
  BY <1>2, <1>7, <1>8, Zenon DEF Round, n, start, V

(* The course of AdoptEach. *)
LEMMA AdoptEachRuns ==
  ASSUME NEW s \in States, NEW on \in Arrays, NEW vs
  PROVE  \E f \in [0 .. Len(ByAddress) -> States] :
           /\ f[0] = s
           /\ \A i \in 1 .. Len(ByAddress) :
                f[i] = IF ByAddress[i] \in vs
                  THEN Adopt(f[i - 1], on, ByAddress[i]) ELSE f[i - 1]
           /\ f[Len(ByAddress)] = AdoptEach(s, on, vs)
<1> DEFINE n == Len(ByAddress)
           start == s
           V == States
           Round(t, i) == IF ByAddress[i] \in vs THEN Adopt(t, on, ByAddress[i]) ELSE t
           step == [i \in 1 .. n |-> [t \in V |-> Round(t, i)]]
           g == CHOOSE g : g = [i \in 0 .. n |-> IF i = 0 THEN start ELSE Round(g[i - 1], i)]
<1>1. \A t \in V, i \in 1 .. n : Round(t, i) \in V
  BY AdoptDoes, AddressesAre
<1>2. AdoptEach(s, on, vs) = g[n]
  BY DEF AdoptEach, InAddressOrder, Through
<1>3. n \in Nat /\ start \in V
  BY AddressesAre
<1> HIDE DEF Round, n, start, V
<1>4. step \in [1 .. n -> [V -> V]]
  BY <1>1
<1> PICK f \in [0 .. n -> V] : Rounds(f, n, start, step)
  <2> HIDE DEF step
  <2> QED
    BY <1>3, <1>4, RoundsExist
<1>5. f[0] = start /\ \A i \in 1 .. n : f[i] = Round(f[i - 1], i)
  <2>1. ASSUME NEW i \in 1 .. n PROVE f[i] = Round(f[i - 1], i)
    <3>1. i - 1 \in 0 .. n
      BY <1>3
    <3>2. f[i] = step[i][f[i - 1]] /\ f[i - 1] \in V
      BY <3>1 DEF Rounds
    <3> QED
      BY <3>2
  <2> QED
    BY <2>1 DEF Rounds
<1> HIDE DEF step
<1>6. g = [i \in 0 .. n |-> IF i = 0 THEN start ELSE Round(g[i - 1], i)]
  <2> DEFINE R(i) == IF i = 0 THEN start ELSE Round(f[i - 1], i)
  <2>1. \A i \in 0 .. n : f[i] = R(i)
    BY <1>3, <1>5
  <2>2. f = [i \in 0 .. n |-> R(i)]
    <3> HIDE DEF R
    <3> QED
      BY <2>1
  <2> QED
    BY <2>2
<1> HIDE DEF g
<1>7. g[0] = start /\ \A i \in 1 .. n : g[i] = Round(g[i - 1], i)
  BY <1>3, <1>6
<1>8. g \in [0 .. n -> V]
  <2> DEFINE S == {i \in 0 .. n : g[i] \in V}
  <2>1. 0 \in S /\ \A i \in 1 .. n : i - 1 \in S => i \in S
    BY <1>1, <1>3, <1>7
  <2> HIDE DEF S
  <2>2. \A i \in 0 .. n : i \in S
    BY <1>3, <2>1, InductionUpTo
  <2> QED
    BY <1>6, <2>2 DEF S
<1> QED
  BY <1>2, <1>7, <1>8, Zenon DEF Round, n, start, V

(* The course of MoveEach. *)
LEMMA MoveEachRuns ==
  ASSUME NEW s \in States, NEW on \in Arrays, NEW vs
  PROVE  \E f \in [0 .. Len(ByAddress) -> States] :
           /\ f[0] = s
           /\ \A i \in 1 .. Len(ByAddress) :
                f[i] = IF ByAddress[i] \in vs
                  THEN Adopt(Leave(f[i - 1], ByAddress[i]), on, ByAddress[i]) ELSE f[i - 1]
           /\ f[Len(ByAddress)] = MoveEach(s, on, vs)
<1> DEFINE n == Len(ByAddress)
           start == s
           V == States
           Round(t, i) == IF ByAddress[i] \in vs THEN Adopt(Leave(t, ByAddress[i]), on, ByAddress[i]) ELSE t
           step == [i \in 1 .. n |-> [t \in V |-> Round(t, i)]]
           g == CHOOSE g : g = [i \in 0 .. n |-> IF i = 0 THEN start ELSE Round(g[i - 1], i)]
<1>1. \A t \in V, i \in 1 .. n : Round(t, i) \in V
  BY AdoptDoes, LeaveTyped, AddressesAre
<1>2. MoveEach(s, on, vs) = g[n]
  BY DEF MoveEach, InAddressOrder, Through
<1>3. n \in Nat /\ start \in V
  BY AddressesAre
<1> HIDE DEF Round, n, start, V
<1>4. step \in [1 .. n -> [V -> V]]
  BY <1>1
<1> PICK f \in [0 .. n -> V] : Rounds(f, n, start, step)
  <2> HIDE DEF step
  <2> QED
    BY <1>3, <1>4, RoundsExist
<1>5. f[0] = start /\ \A i \in 1 .. n : f[i] = Round(f[i - 1], i)
  <2>1. ASSUME NEW i \in 1 .. n PROVE f[i] = Round(f[i - 1], i)
    <3>1. i - 1 \in 0 .. n
      BY <1>3
    <3>2. f[i] = step[i][f[i - 1]] /\ f[i - 1] \in V
      BY <3>1 DEF Rounds
    <3> QED
      BY <3>2
  <2> QED
    BY <2>1 DEF Rounds
<1> HIDE DEF step
<1>6. g = [i \in 0 .. n |-> IF i = 0 THEN start ELSE Round(g[i - 1], i)]
  <2> DEFINE R(i) == IF i = 0 THEN start ELSE Round(f[i - 1], i)
  <2>1. \A i \in 0 .. n : f[i] = R(i)
    BY <1>3, <1>5
  <2>2. f = [i \in 0 .. n |-> R(i)]
    <3> HIDE DEF R
    <3> QED
      BY <2>1
  <2> QED
    BY <2>2
<1> HIDE DEF g
<1>7. g[0] = start /\ \A i \in 1 .. n : g[i] = Round(g[i - 1], i)
  BY <1>3, <1>6
<1>8. g \in [0 .. n -> V]
  <2> DEFINE S == {i \in 0 .. n : g[i] \in V}
  <2>1. 0 \in S /\ \A i \in 1 .. n : i - 1 \in S => i \in S
    BY <1>1, <1>3, <1>7
  <2> HIDE DEF S
  <2>2. \A i \in 0 .. n : i \in S
    BY <1>3, <2>1, InductionUpTo
  <2> QED
    BY <1>6, <2>2 DEF S
<1> QED
  BY <1>2, <1>7, <1>8, Zenon DEF Round, n, start, V

(* The course of LeaveTreated. *)
LEMMA LeaveTreatedRuns ==
  ASSUME NEW s \in States, NEW c, NEW q \in Seq(Items)
  PROVE  \E f \in [0 .. Len(q) -> States] :
           /\ f[0] = s
           /\ \A i \in 1 .. Len(q) :
                f[i] = IF q[i] \in c.erase \cup c.assign
                  THEN Leave(f[i - 1], q[i]) ELSE f[i - 1]
           /\ f[Len(q)] = LeaveTreated(c, s, q)
<1> DEFINE n == Len(q)
           start == s
           V == States
           Round(t, i) == IF q[i] \in c.erase \cup c.assign THEN Leave(t, q[i]) ELSE t
           step == [i \in 1 .. n |-> [t \in V |-> Round(t, i)]]
           g == CHOOSE g : g = [i \in 0 .. n |-> IF i = 0 THEN start ELSE Round(g[i - 1], i)]
<1>1. \A t \in V, i \in 1 .. n : Round(t, i) \in V
  BY LeaveTyped
<1>2. LeaveTreated(c, s, q) = g[n]
  BY DEF LeaveTreated, Through
<1>3. n \in Nat /\ start \in V
  OBVIOUS
<1> HIDE DEF Round, n, start, V
<1>4. step \in [1 .. n -> [V -> V]]
  BY <1>1
<1> PICK f \in [0 .. n -> V] : Rounds(f, n, start, step)
  <2> HIDE DEF step
  <2> QED
    BY <1>3, <1>4, RoundsExist
<1>5. f[0] = start /\ \A i \in 1 .. n : f[i] = Round(f[i - 1], i)
  <2>1. ASSUME NEW i \in 1 .. n PROVE f[i] = Round(f[i - 1], i)
    <3>1. i - 1 \in 0 .. n
      BY <1>3
    <3>2. f[i] = step[i][f[i - 1]] /\ f[i - 1] \in V
      BY <3>1 DEF Rounds
    <3> QED
      BY <3>2
  <2> QED
    BY <2>1 DEF Rounds
<1> HIDE DEF step
<1>6. g = [i \in 0 .. n |-> IF i = 0 THEN start ELSE Round(g[i - 1], i)]
  <2> DEFINE R(i) == IF i = 0 THEN start ELSE Round(f[i - 1], i)
  <2>1. \A i \in 0 .. n : f[i] = R(i)
    BY <1>3, <1>5
  <2>2. f = [i \in 0 .. n |-> R(i)]
    <3> HIDE DEF R
    <3> QED
      BY <2>1
  <2> QED
    BY <2>2
<1> HIDE DEF g
<1>7. g[0] = start /\ \A i \in 1 .. n : g[i] = Round(g[i - 1], i)
  BY <1>3, <1>6
<1>8. g \in [0 .. n -> V]
  <2> DEFINE S == {i \in 0 .. n : g[i] \in V}
  <2>1. 0 \in S /\ \A i \in 1 .. n : i - 1 \in S => i \in S
    BY <1>1, <1>3, <1>7
  <2> HIDE DEF S
  <2>2. \A i \in 0 .. n : i \in S
    BY <1>3, <2>1, InductionUpTo
  <2> QED
    BY <1>6, <2>2 DEF S
<1> QED
  BY <1>2, <1>7, <1>8, Zenon DEF Round, n, start, V

(* The course of TidyAll. *)
LEMMA TidyAllRuns ==
  ASSUME NEW q \in Seq(Items), NEW put
  PROVE  \E f \in [0 .. Len(ByAddress) -> Seq(Items)] :
           /\ f[0] = q
           /\ \A i \in 1 .. Len(ByAddress) :
                f[i] = IF ByAddress[i] \in {p.val : p \in put}
                  THEN RemoveDuplicates(f[i - 1], ByAddress[i], (CHOOSE p \in put : p.val = ByAddress[i]).key)
                  ELSE f[i - 1]
           /\ f[Len(ByAddress)] = TidyAll(q, put)
<1> DEFINE n == Len(ByAddress)
           start == q
           V == Seq(Items)
           Round(t, i) ==
             IF ByAddress[i] \in {p.val : p \in put}
               THEN RemoveDuplicates(t, ByAddress[i], (CHOOSE p \in put : p.val = ByAddress[i]).key)
               ELSE t
           step == [i \in 1 .. n |-> [t \in V |-> Round(t, i)]]
           g == CHOOSE g : g = [i \in 0 .. n |-> IF i = 0 THEN start ELSE Round(g[i - 1], i)]
<1>1. \A t \in V, i \in 1 .. n : Round(t, i) \in V
  BY RemoveDuplicatesTyped
<1>2. TidyAll(q, put) = g[n]
  BY DEF TidyAll, InAddressOrder, Through
<1>3. n \in Nat /\ start \in V
  BY AddressesAre
<1> HIDE DEF Round, n, start, V
<1>4. step \in [1 .. n -> [V -> V]]
  BY <1>1
<1> PICK f \in [0 .. n -> V] : Rounds(f, n, start, step)
  <2> HIDE DEF step
  <2> QED
    BY <1>3, <1>4, RoundsExist
<1>5. f[0] = start /\ \A i \in 1 .. n : f[i] = Round(f[i - 1], i)
  <2>1. ASSUME NEW i \in 1 .. n PROVE f[i] = Round(f[i - 1], i)
    <3>1. i - 1 \in 0 .. n
      BY <1>3
    <3>2. f[i] = step[i][f[i - 1]] /\ f[i - 1] \in V
      BY <3>1 DEF Rounds
    <3> QED
      BY <3>2
  <2> QED
    BY <2>1 DEF Rounds
<1> HIDE DEF step
<1>6. g = [i \in 0 .. n |-> IF i = 0 THEN start ELSE Round(g[i - 1], i)]
  <2> DEFINE R(i) == IF i = 0 THEN start ELSE Round(f[i - 1], i)
  <2>1. \A i \in 0 .. n : f[i] = R(i)
    BY <1>3, <1>5
  <2>2. f = [i \in 0 .. n |-> R(i)]
    <3> HIDE DEF R
    <3> QED
      BY <2>1
  <2> QED
    BY <2>2
<1> HIDE DEF g
<1>7. g[0] = start /\ \A i \in 1 .. n : g[i] = Round(g[i - 1], i)
  BY <1>3, <1>6
<1>8. g \in [0 .. n -> V]
  <2> DEFINE S == {i \in 0 .. n : g[i] \in V}
  <2>1. 0 \in S /\ \A i \in 1 .. n : i - 1 \in S => i \in S
    BY <1>1, <1>3, <1>7
  <2> HIDE DEF S
  <2>2. \A i \in 0 .. n : i \in S
    BY <1>3, <2>1, InductionUpTo
  <2> QED
    BY <1>6, <2>2 DEF S
<1> QED
  BY <1>2, <1>7, <1>8, Zenon DEF Round, n, start, V

(* The course of EraseAll. *)
LEMMA EraseAllRuns ==
  ASSUME NEW q \in Seq(Items), NEW keys \in Seq(Indexes)
  PROVE  \E f \in [0 .. Len(keys) -> Erased] :
           /\ f[0] = [q |-> q, out |-> <<>>]
           /\ \A i \in 1 .. Len(keys) : f[i] = EraseOne(f[i - 1], keys[i])
           /\ f[Len(keys)] = EraseAll(q, keys)
<1> DEFINE n == Len(keys)
           start == [q |-> q, out |-> <<>>]
           V == Erased
           Round(t, i) == EraseOne(t, keys[i])
           step == [i \in 1 .. n |-> [t \in V |-> Round(t, i)]]
           g == CHOOSE g : g = [i \in 0 .. n |-> IF i = 0 THEN start ELSE Round(g[i - 1], i)]
<1>1. \A t \in V, i \in 1 .. n : Round(t, i) \in V
  BY EraseOneTyped
<1>2. EraseAll(q, keys) = g[n]
  BY DEF EraseAll, Through
<1>3. n \in Nat /\ start \in V
  BY DEF Erased
<1> HIDE DEF Round, n, start, V
<1>4. step \in [1 .. n -> [V -> V]]
  BY <1>1
<1> PICK f \in [0 .. n -> V] : Rounds(f, n, start, step)
  <2> HIDE DEF step
  <2> QED
    BY <1>3, <1>4, RoundsExist
<1>5. f[0] = start /\ \A i \in 1 .. n : f[i] = Round(f[i - 1], i)
  <2>1. ASSUME NEW i \in 1 .. n PROVE f[i] = Round(f[i - 1], i)
    <3>1. i - 1 \in 0 .. n
      BY <1>3
    <3>2. f[i] = step[i][f[i - 1]] /\ f[i - 1] \in V
      BY <3>1 DEF Rounds
    <3> QED
      BY <3>2
  <2> QED
    BY <2>1 DEF Rounds
<1> HIDE DEF step
<1>6. g = [i \in 0 .. n |-> IF i = 0 THEN start ELSE Round(g[i - 1], i)]
  <2> DEFINE R(i) == IF i = 0 THEN start ELSE Round(f[i - 1], i)
  <2>1. \A i \in 0 .. n : f[i] = R(i)
    BY <1>3, <1>5
  <2>2. f = [i \in 0 .. n |-> R(i)]
    <3> HIDE DEF R
    <3> QED
      BY <2>1
  <2> QED
    BY <2>2
<1> HIDE DEF g
<1>7. g[0] = start /\ \A i \in 1 .. n : g[i] = Round(g[i - 1], i)
  BY <1>3, <1>6
<1>8. g \in [0 .. n -> V]
  <2> DEFINE S == {i \in 0 .. n : g[i] \in V}
  <2>1. 0 \in S /\ \A i \in 1 .. n : i - 1 \in S => i \in S
    BY <1>1, <1>3, <1>7
  <2> HIDE DEF S
  <2>2. \A i \in 0 .. n : i \in S
    BY <1>3, <2>1, InductionUpTo
  <2> QED
    BY <1>6, <2>2 DEF S
<1> QED
  BY <1>2, <1>7, <1>8, Zenon DEF Round, n, start, V

(* The course of SetAll. *)
LEMMA SetAllRuns ==
  ASSUME NEW q \in Seq(Items), NEW pairs \in Seq(Pairs), NEW refused
  PROVE  \E f \in [0 .. Len(pairs) -> SetSoFar] :
           /\ f[0] = [q |-> q, old |-> <<>>, put |-> {}]
           /\ \A i \in 1 .. Len(pairs) : f[i] = SetOne(f[i - 1], pairs[i], refused)
           /\ f[Len(pairs)] = SetAll(q, pairs, refused)
<1> DEFINE n == Len(pairs)
           start == [q |-> q, old |-> <<>>, put |-> {}]
           V == SetSoFar
           Round(t, i) == SetOne(t, pairs[i], refused)
           step == [i \in 1 .. n |-> [t \in V |-> Round(t, i)]]
           g == CHOOSE g : g = [i \in 0 .. n |-> IF i = 0 THEN start ELSE Round(g[i - 1], i)]
<1>1. \A t \in V, i \in 1 .. n : Round(t, i) \in V
  BY SetOneTyped
<1>2. SetAll(q, pairs, refused) = g[n]
  BY DEF SetAll, Through
<1>3. n \in Nat /\ start \in V
  BY DEF SetSoFar
<1> HIDE DEF Round, n, start, V
<1>4. step \in [1 .. n -> [V -> V]]
  BY <1>1
<1> PICK f \in [0 .. n -> V] : Rounds(f, n, start, step)
  <2> HIDE DEF step
  <2> QED
    BY <1>3, <1>4, RoundsExist
<1>5. f[0] = start /\ \A i \in 1 .. n : f[i] = Round(f[i - 1], i)
  <2>1. ASSUME NEW i \in 1 .. n PROVE f[i] = Round(f[i - 1], i)
    <3>1. i - 1 \in 0 .. n
      BY <1>3
    <3>2. f[i] = step[i][f[i - 1]] /\ f[i - 1] \in V
      BY <3>1 DEF Rounds
    <3> QED
      BY <3>2
  <2> QED
    BY <2>1 DEF Rounds
<1> HIDE DEF step
<1>6. g = [i \in 0 .. n |-> IF i = 0 THEN start ELSE Round(g[i - 1], i)]
  <2> DEFINE R(i) == IF i = 0 THEN start ELSE Round(f[i - 1], i)
  <2>1. \A i \in 0 .. n : f[i] = R(i)
    BY <1>3, <1>5
  <2>2. f = [i \in 0 .. n |-> R(i)]
    <3> HIDE DEF R
    <3> QED
      BY <2>1
  <2> QED
    BY <2>2
<1> HIDE DEF g
<1>7. g[0] = start /\ \A i \in 1 .. n : g[i] = Round(g[i - 1], i)
  BY <1>3, <1>6
<1>8. g \in [0 .. n -> V]
  <2> DEFINE S == {i \in 0 .. n : g[i] \in V}
  <2>1. 0 \in S /\ \A i \in 1 .. n : i - 1 \in S => i \in S
    BY <1>1, <1>3, <1>7
  <2> HIDE DEF S
  <2>2. \A i \in 0 .. n : i \in S
    BY <1>3, <2>1, InductionUpTo
  <2> QED
    BY <1>6, <2>2 DEF S
<1> QED
  BY <1>2, <1>7, <1>8, Zenon DEF Round, n, start, V

(* The course of InsertAll. *)
LEMMA InsertAllRuns ==
  ASSUME NEW q \in Seq(Items), NEW pairs \in Seq(Pairs), NEW refused
  PROVE  \E f \in [0 .. Len(pairs) -> InsertedSoFar] :
           /\ f[0] = [q |-> q, put |-> {}]
           /\ \A i \in 1 .. Len(pairs) : f[i] = InsertOne(f[i - 1], pairs[i], refused)
           /\ f[Len(pairs)] = InsertAll(q, pairs, refused)
<1> DEFINE n == Len(pairs)
           start == [q |-> q, put |-> {}]
           V == InsertedSoFar
           Round(t, i) == InsertOne(t, pairs[i], refused)
           step == [i \in 1 .. n |-> [t \in V |-> Round(t, i)]]
           g == CHOOSE g : g = [i \in 0 .. n |-> IF i = 0 THEN start ELSE Round(g[i - 1], i)]
<1>1. \A t \in V, i \in 1 .. n : Round(t, i) \in V
  BY InsertOneTyped
<1>2. InsertAll(q, pairs, refused) = g[n]
  BY DEF InsertAll, Through
<1>3. n \in Nat /\ start \in V
  BY DEF InsertedSoFar
<1> HIDE DEF Round, n, start, V
<1>4. step \in [1 .. n -> [V -> V]]
  BY <1>1
<1> PICK f \in [0 .. n -> V] : Rounds(f, n, start, step)
  <2> HIDE DEF step
  <2> QED
    BY <1>3, <1>4, RoundsExist
<1>5. f[0] = start /\ \A i \in 1 .. n : f[i] = Round(f[i - 1], i)
  <2>1. ASSUME NEW i \in 1 .. n PROVE f[i] = Round(f[i - 1], i)
    <3>1. i - 1 \in 0 .. n
      BY <1>3
    <3>2. f[i] = step[i][f[i - 1]] /\ f[i - 1] \in V
      BY <3>1 DEF Rounds
    <3> QED
      BY <3>2
  <2> QED
    BY <2>1 DEF Rounds
<1> HIDE DEF step
<1>6. g = [i \in 0 .. n |-> IF i = 0 THEN start ELSE Round(g[i - 1], i)]
  <2> DEFINE R(i) == IF i = 0 THEN start ELSE Round(f[i - 1], i)
  <2>1. \A i \in 0 .. n : f[i] = R(i)
    BY <1>3, <1>5
  <2>2. f = [i \in 0 .. n |-> R(i)]
    <3> HIDE DEF R
    <3> QED
      BY <2>1
  <2> QED
    BY <2>2
<1> HIDE DEF g
<1>7. g[0] = start /\ \A i \in 1 .. n : g[i] = Round(g[i - 1], i)
  BY <1>3, <1>6
<1>8. g \in [0 .. n -> V]
  <2> DEFINE S == {i \in 0 .. n : g[i] \in V}
  <2>1. 0 \in S /\ \A i \in 1 .. n : i - 1 \in S => i \in S
    BY <1>1, <1>3, <1>7
  <2> HIDE DEF S
  <2>2. \A i \in 0 .. n : i \in S
    BY <1>3, <2>1, InductionUpTo
  <2> QED
    BY <1>6, <2>2 DEF S
<1> QED
  BY <1>2, <1>7, <1>8, Zenon DEF Round, n, start, V

(* The course of InsertAllAt. *)
LEMMA InsertAllAtRuns ==
  ASSUME NEW q \in Seq(Items), NEW k \in Indexes, NEW vals \in Seq(Items), NEW refused
  PROVE  \E f \in [0 .. Len(vals) -> InsertedUpTo] :
           /\ f[0] = [q |-> q, at |-> k, put |-> <<>>]
           /\ \A i \in 1 .. Len(vals) : f[i] = InsertNext(f[i - 1], vals[i], refused)
           /\ f[Len(vals)] = InsertAllAt(q, k, vals, refused)
<1> DEFINE n == Len(vals)
           start == [q |-> q, at |-> k, put |-> <<>>]
           V == InsertedUpTo
           Round(t, i) == InsertNext(t, vals[i], refused)
           step == [i \in 1 .. n |-> [t \in V |-> Round(t, i)]]
           g == CHOOSE g : g = [i \in 0 .. n |-> IF i = 0 THEN start ELSE Round(g[i - 1], i)]
<1>1. \A t \in V, i \in 1 .. n : Round(t, i) \in V
  BY InsertNextTyped
<1>2. InsertAllAt(q, k, vals, refused) = g[n]
  BY DEF InsertAllAt, Through
<1>3. n \in Nat /\ start \in V
  BY DEF InsertedUpTo
<1> HIDE DEF Round, n, start, V
<1>4. step \in [1 .. n -> [V -> V]]
  BY <1>1
<1> PICK f \in [0 .. n -> V] : Rounds(f, n, start, step)
  <2> HIDE DEF step
  <2> QED
    BY <1>3, <1>4, RoundsExist
<1>5. f[0] = start /\ \A i \in 1 .. n : f[i] = Round(f[i - 1], i)
  <2>1. ASSUME NEW i \in 1 .. n PROVE f[i] = Round(f[i - 1], i)
    <3>1. i - 1 \in 0 .. n
      BY <1>3
    <3>2. f[i] = step[i][f[i - 1]] /\ f[i - 1] \in V
      BY <3>1 DEF Rounds
    <3> QED
      BY <3>2
  <2> QED
    BY <2>1 DEF Rounds
<1> HIDE DEF step
<1>6. g = [i \in 0 .. n |-> IF i = 0 THEN start ELSE Round(g[i - 1], i)]
  <2> DEFINE R(i) == IF i = 0 THEN start ELSE Round(f[i - 1], i)
  <2>1. \A i \in 0 .. n : f[i] = R(i)
    BY <1>3, <1>5
  <2>2. f = [i \in 0 .. n |-> R(i)]
    <3> HIDE DEF R
    <3> QED
      BY <2>1
  <2> QED
    BY <2>2
<1> HIDE DEF g
<1>7. g[0] = start /\ \A i \in 1 .. n : g[i] = Round(g[i - 1], i)
  BY <1>3, <1>6
<1>8. g \in [0 .. n -> V]
  <2> DEFINE S == {i \in 0 .. n : g[i] \in V}
  <2>1. 0 \in S /\ \A i \in 1 .. n : i - 1 \in S => i \in S
    BY <1>1, <1>3, <1>7
  <2> HIDE DEF S
  <2>2. \A i \in 0 .. n : i \in S
    BY <1>3, <2>1, InductionUpTo
  <2> QED
    BY <1>6, <2>2 DEF S
<1> QED
  BY <1>2, <1>7, <1>8, Zenon DEF Round, n, start, V

(* The course of Treated. *)
LEMMA TreatedRuns ==
  ASSUME NEW c, c.to \in Items, NEW before \in Seq(Items), NEW q \in Seq(Items), NEW refused
  PROVE  \E f \in [0 .. Len(q) -> Seq(Items)] :
           /\ f[0] = before
           /\ \A i \in 1 .. Len(q) : f[i] = TreatOne(c, f[i - 1], q[i], refused)
           /\ f[Len(q)] = Treated(c, before, q, refused)
<1> DEFINE n == Len(q)
           start == before
           V == Seq(Items)
           Round(t, i) == TreatOne(c, t, q[i], refused)
           step == [i \in 1 .. n |-> [t \in V |-> Round(t, i)]]
           g == CHOOSE g : g = [i \in 0 .. n |-> IF i = 0 THEN start ELSE Round(g[i - 1], i)]
<1>1. \A t \in V, i \in 1 .. n : Round(t, i) \in V
  BY TreatOneTyped
<1>2. Treated(c, before, q, refused) = g[n]
  BY DEF Treated, Through
<1>3. n \in Nat /\ start \in V
  OBVIOUS
<1> HIDE DEF Round, n, start, V
<1>4. step \in [1 .. n -> [V -> V]]
  BY <1>1
<1> PICK f \in [0 .. n -> V] : Rounds(f, n, start, step)
  <2> HIDE DEF step
  <2> QED
    BY <1>3, <1>4, RoundsExist
<1>5. f[0] = start /\ \A i \in 1 .. n : f[i] = Round(f[i - 1], i)
  <2>1. ASSUME NEW i \in 1 .. n PROVE f[i] = Round(f[i - 1], i)
    <3>1. i - 1 \in 0 .. n
      BY <1>3
    <3>2. f[i] = step[i][f[i - 1]] /\ f[i - 1] \in V
      BY <3>1 DEF Rounds
    <3> QED
      BY <3>2
  <2> QED
    BY <2>1 DEF Rounds
<1> HIDE DEF step
<1>6. g = [i \in 0 .. n |-> IF i = 0 THEN start ELSE Round(g[i - 1], i)]
  <2> DEFINE R(i) == IF i = 0 THEN start ELSE Round(f[i - 1], i)
  <2>1. \A i \in 0 .. n : f[i] = R(i)
    BY <1>3, <1>5
  <2>2. f = [i \in 0 .. n |-> R(i)]
    <3> HIDE DEF R
    <3> QED
      BY <2>1
  <2> QED
    BY <2>2
<1> HIDE DEF g
<1>7. g[0] = start /\ \A i \in 1 .. n : g[i] = Round(g[i - 1], i)
  BY <1>3, <1>6
<1>8. g \in [0 .. n -> V]
  <2> DEFINE S == {i \in 0 .. n : g[i] \in V}
  <2>1. 0 \in S /\ \A i \in 1 .. n : i - 1 \in S => i \in S
    BY <1>1, <1>3, <1>7
  <2> HIDE DEF S
  <2>2. \A i \in 0 .. n : i \in S
    BY <1>3, <2>1, InductionUpTo
  <2> QED
    BY <1>6, <2>2 DEF S
<1> QED
  BY <1>2, <1>7, <1>8, Zenon DEF Round, n, start, V

(* All of q have no parent then, if the array that is called holds none of *)
(* them.                                                                   *)
NoneOf(q, held) == \A i \in 1 .. Len(q) : q[i] \in Kids => ~Holds(held, q[i])

LEMMA LeaveAllDoes ==
  ASSUME NEW s \in States, NEW on \in Arrays, NEW q \in Seq(Items), NEW u, u = LeaveAll(s, q)
  PROVE  /\ u \in States
         /\ Around(s, on) /\ NoneOf(q, s.items[on]) =>
              /\ Around(u, on) /\ u.items[on] = s.items[on]
              /\ \A c \in Kids : u.parent[c] = IF Holds(q, c) THEN NoNode ELSE s.parent[c]
<1> PICK f \in [0 .. Len(q) -> States] :
           /\ f[0] = s
           /\ \A i \in 1 .. Len(q) : f[i] = Leave(f[i - 1], q[i])
           /\ f[Len(q)] = u
  BY LeaveAllRuns
<1> DEFINE n == Len(q)
<1>1. n \in Nat
  OBVIOUS
<1>2. ASSUME Around(s, on), NoneOf(q, s.items[on])
      PROVE  /\ Around(u, on) /\ u.items[on] = s.items[on]
             /\ \A c \in Kids : u.parent[c] = IF Holds(q, c) THEN NoNode ELSE s.parent[c]
  <2> DEFINE Hit(i, c) == \E j \in 1 .. i : q[j] = c
             P(i) == /\ Around(f[i], on) /\ f[i].items[on] = s.items[on]
                     /\ \A c \in Kids : f[i].parent[c] = IF Hit(i, c) THEN NoNode ELSE s.parent[c]
             S == {i \in 0 .. n : P(i)}
  <2>1. P(0)
    BY <1>2
  <2>2. ASSUME NEW i \in 1 .. n, P(i - 1) PROVE P(i)
    <3> PICK t \in States : t = f[i - 1]
      BY <1>1
    <3>1. \A c : Hit(i, c) <=> Hit(i - 1, c) \/ (LET j == i IN q[j] = c)
      BY <1>1
    <3>2. /\ Around(t, on) /\ t.items[on] = s.items[on]
          /\ \A c \in Kids : t.parent[c] = IF Hit(i - 1, c) THEN NoNode ELSE s.parent[c]
      BY <2>2
    <3> HIDE DEF Hit
    <3>3. /\ Around(f[i], on) /\ f[i].items[on] = t.items[on]
          /\ \A c \in Kids : f[i].parent[c] = IF c = q[i] THEN NoNode ELSE t.parent[c]
      <4>1. q[i] \in Items /\ f[i] = Leave(t, q[i])
        OBVIOUS
      <4>2. q[i] \in Kids => ~Holds(t.items[on], q[i])
        BY <1>2, <3>2 DEF NoneOf
      <4> QED
        BY <3>2, <4>1, <4>2, LeaveDoes
    <3> QED
      BY <3>1, <3>2, <3>3
  <2> HIDE DEF P
  <2>3. \A i \in 0 .. n : i \in S
    <3>1. 0 \in S /\ \A i \in 1 .. n : i - 1 \in S => i \in S
      BY <1>1, <2>1, <2>2
    <3> HIDE DEF S, n
    <3> QED
      BY <1>1, <3>1, InductionUpTo
  <2>4. P(n)
    BY <1>1, <2>3
  <2>5. \A c \in Kids : Hit(n, c) <=> Holds(q, c)
    BY DEF Holds
  <2> HIDE DEF Hit
  <2> QED
    BY <2>4, <2>5 DEF P
<1> QED
  BY <1>1, <1>2

(* All of q are children of the array then. *)
LEMMA AdoptAllDoes ==
  ASSUME NEW s \in States, NEW on \in Arrays, NEW q \in Seq(Items), NEW u, u = AdoptAll(s, on, q)
  PROVE  /\ u \in States
         /\ Around(s, on) =>
              /\ Around(u, on) /\ u.items[on] = s.items[on]
              /\ \A c \in Kids : u.parent[c] = IF Holds(q, c) THEN on ELSE s.parent[c]
<1> PICK f \in [0 .. Len(q) -> States] :
           /\ f[0] = s
           /\ \A i \in 1 .. Len(q) : f[i] = Adopt(f[i - 1], on, q[i])
           /\ f[Len(q)] = u
  BY AdoptAllRuns
<1> DEFINE n == Len(q)
<1>1. n \in Nat
  OBVIOUS
<1>2. ASSUME Around(s, on)
      PROVE  /\ Around(u, on) /\ u.items[on] = s.items[on]
             /\ \A c \in Kids : u.parent[c] = IF Holds(q, c) THEN on ELSE s.parent[c]
  <2> DEFINE Hit(i, c) == \E j \in 1 .. i : q[j] = c
             P(i) == /\ Around(f[i], on) /\ f[i].items[on] = s.items[on]
                     /\ \A c \in Kids : f[i].parent[c] = IF Hit(i, c) THEN on ELSE s.parent[c]
             S == {i \in 0 .. n : P(i)}
  <2>1. P(0)
    BY <1>2
  <2>2. ASSUME NEW i \in 1 .. n, P(i - 1) PROVE P(i)
    <3> PICK t \in States : t = f[i - 1]
      BY <1>1
    <3>1. \A c : Hit(i, c) <=> Hit(i - 1, c) \/ (LET j == i IN q[j] = c)
      BY <1>1
    <3>2. /\ Around(t, on) /\ t.items[on] = s.items[on]
          /\ \A c \in Kids : t.parent[c] = IF Hit(i - 1, c) THEN on ELSE s.parent[c]
      BY <2>2
    <3> HIDE DEF Hit
    <3>3. /\ Around(f[i], on) /\ f[i].items[on] = t.items[on]
          /\ \A c \in Kids : f[i].parent[c] = IF c = q[i] THEN on ELSE t.parent[c]
      <4>1. q[i] \in Items /\ f[i] = Adopt(t, on, q[i])
        OBVIOUS
      <4> QED
        BY <3>2, <4>1, AdoptDoes
    <3> QED
      BY <3>1, <3>2, <3>3
  <2> HIDE DEF P
  <2>3. \A i \in 0 .. n : i \in S
    <3>1. 0 \in S /\ \A i \in 1 .. n : i - 1 \in S => i \in S
      BY <1>1, <2>1, <2>2
    <3> HIDE DEF S, n
    <3> QED
      BY <1>1, <3>1, InductionUpTo
  <2>4. P(n)
    BY <1>1, <2>3
  <2>5. \A c \in Kids : Hit(n, c) <=> Holds(q, c)
    BY DEF Holds
  <2> HIDE DEF Hit
  <2> QED
    BY <2>4, <2>5 DEF P
<1> QED
  BY <1>1, <1>2

(* The same of a set of nodes. *)
LEMMA AdoptEachDoes ==
  ASSUME NEW s \in States, NEW on \in Arrays, NEW vs, NEW u, u = AdoptEach(s, on, vs)
  PROVE  /\ u \in States
         /\ Around(s, on) =>
              /\ Around(u, on) /\ u.items[on] = s.items[on]
              /\ \A c \in Kids : u.parent[c] = IF c \in vs THEN on ELSE s.parent[c]
<1> PICK f \in [0 .. Len(ByAddress) -> States] :
           /\ f[0] = s
           /\ \A i \in 1 .. Len(ByAddress) :
                f[i] = IF ByAddress[i] \in vs
                  THEN Adopt(f[i - 1], on, ByAddress[i]) ELSE f[i - 1]
           /\ f[Len(ByAddress)] = u
  BY AdoptEachRuns
<1> DEFINE n == Len(ByAddress)
<1>1. n \in Nat
  BY AddressesAre
<1>2. ASSUME Around(s, on)
      PROVE  /\ Around(u, on) /\ u.items[on] = s.items[on]
             /\ \A c \in Kids : u.parent[c] = IF c \in vs THEN on ELSE s.parent[c]
  <2> DEFINE Hit(i, c) == \E j \in 1 .. i : ByAddress[j] = c /\ c \in vs
             P(i) == /\ Around(f[i], on) /\ f[i].items[on] = s.items[on]
                     /\ \A c \in Kids : f[i].parent[c] = IF Hit(i, c) THEN on ELSE s.parent[c]
             S == {i \in 0 .. n : P(i)}
  <2>1. P(0)
    BY <1>2
  <2>2. ASSUME NEW i \in 1 .. n, P(i - 1) PROVE P(i)
    <3> PICK t \in States : t = f[i - 1]
      BY <1>1
    <3>1. \A c : Hit(i, c) <=> Hit(i - 1, c) \/ (LET j == i IN ByAddress[j] = c /\ c \in vs)
      BY <1>1
    <3>2. /\ Around(t, on) /\ t.items[on] = s.items[on]
          /\ \A c \in Kids : t.parent[c] = IF Hit(i - 1, c) THEN on ELSE s.parent[c]
      BY <2>2
    <3> HIDE DEF Hit
    <3>3. /\ Around(f[i], on) /\ f[i].items[on] = t.items[on]
          /\ \A c \in Kids : f[i].parent[c] = IF ByAddress[i] = c /\ c \in vs THEN on ELSE t.parent[c]
      <4>1. ByAddress[i] \in Items
        BY AddressesAre
      <4>2. CASE ByAddress[i] \in vs
        <5>1. f[i] = Adopt(t, on, ByAddress[i])
          BY <4>2
        <5>2. /\ Around(f[i], on) /\ f[i].items[on] = t.items[on]
              /\ \A c \in Kids : f[i].parent[c] = IF c = ByAddress[i] THEN on ELSE t.parent[c]
          BY <3>2, <4>1, <5>1, AdoptDoes
        <5> QED
          BY <4>2, <5>2
      <4>3. CASE ByAddress[i] \notin vs
        <5>1. f[i] = t
          BY <4>3
        <5> QED
          BY <3>2, <4>3, <5>1
      <4> QED
        BY <4>2, <4>3
    <3> QED
      BY <3>1, <3>2, <3>3
  <2> HIDE DEF P
  <2>3. \A i \in 0 .. n : i \in S
    <3>1. 0 \in S /\ \A i \in 1 .. n : i - 1 \in S => i \in S
      BY <1>1, <2>1, <2>2
    <3> HIDE DEF S, n
    <3> QED
      BY <1>1, <3>1, InductionUpTo
  <2>4. P(n)
    BY <1>1, <2>3
  <2>5. \A c \in Kids : Hit(n, c) <=> c \in vs
    BY AddressesAre
  <2> HIDE DEF Hit
  <2> QED
    BY <2>4, <2>5 DEF P
<1> QED
  BY <1>1, <1>2

(* The same if none of them is a child of the array before. *)
LEMMA MoveEachDoes ==
  ASSUME NEW s \in States, NEW on \in Arrays, NEW vs, NEW u, u = MoveEach(s, on, vs)
  PROVE  /\ u \in States
         /\ Around(s, on) /\ (\A v \in vs \cap Kids : s.parent[v] # on) =>
              /\ Around(u, on) /\ u.items[on] = s.items[on]
              /\ \A c \in Kids : u.parent[c] = IF c \in vs THEN on ELSE s.parent[c]
<1> PICK f \in [0 .. Len(ByAddress) -> States] :
           /\ f[0] = s
           /\ \A i \in 1 .. Len(ByAddress) :
                f[i] = IF ByAddress[i] \in vs
                  THEN Adopt(Leave(f[i - 1], ByAddress[i]), on, ByAddress[i]) ELSE f[i - 1]
           /\ f[Len(ByAddress)] = u
  BY MoveEachRuns
<1> DEFINE n == Len(ByAddress)
<1>1. n \in Nat
  BY AddressesAre
<1>2. ASSUME Around(s, on) /\ (\A v \in vs \cap Kids : s.parent[v] # on)
      PROVE  /\ Around(u, on) /\ u.items[on] = s.items[on]
             /\ \A c \in Kids : u.parent[c] = IF c \in vs THEN on ELSE s.parent[c]
  <2> DEFINE Hit(i, c) == \E j \in 1 .. i : ByAddress[j] = c /\ c \in vs
             P(i) == /\ Around(f[i], on) /\ f[i].items[on] = s.items[on]
                     /\ \A c \in Kids : f[i].parent[c] = IF Hit(i, c) THEN on ELSE s.parent[c]
             S == {i \in 0 .. n : P(i)}
  <2>1. P(0)
    BY <1>2
  <2>2. ASSUME NEW i \in 1 .. n, P(i - 1) PROVE P(i)
    <3> PICK t \in States : t = f[i - 1]
      BY <1>1
    <3>1. \A c : Hit(i, c) <=> Hit(i - 1, c) \/ (LET j == i IN ByAddress[j] = c /\ c \in vs)
      BY <1>1
    <3>2. /\ Around(t, on) /\ t.items[on] = s.items[on]
          /\ \A c \in Kids : t.parent[c] = IF Hit(i - 1, c) THEN on ELSE s.parent[c]
      BY <2>2
    <3> HIDE DEF Hit
    <3>3. /\ Around(f[i], on) /\ f[i].items[on] = t.items[on]
          /\ \A c \in Kids : f[i].parent[c] = IF ByAddress[i] = c /\ c \in vs THEN on ELSE t.parent[c]
      <4>1. ByAddress[i] \in Items /\ ByAddress[i] \in Kids
        BY AddressesAre
      <4>2. CASE ByAddress[i] \in vs
        <5> PICK w : w = Leave(t, ByAddress[i])
          OBVIOUS
        <5>1. f[i] = Adopt(w, on, ByAddress[i])
          BY <4>2
        <5>2. t.parent[ByAddress[i]] # on
          <6>1. ~Hit(i - 1, ByAddress[i])
            BY <1>1, AddressesAre DEF Hit
          <6> QED
            BY <1>2, <3>2, <4>1, <4>2, <6>1
        <5>3. /\ w \in States /\ Around(w, on) /\ w.items[on] = t.items[on]
              /\ \A c \in Kids : w.parent[c] = IF c = ByAddress[i] THEN NoNode ELSE t.parent[c]
          BY <3>2, <4>1, <5>2, LeaveDoes
        <5>4. /\ Around(f[i], on) /\ f[i].items[on] = w.items[on]
              /\ \A c \in Kids : f[i].parent[c] = IF c = ByAddress[i] THEN on ELSE w.parent[c]
          BY <4>1, <5>1, <5>3, AdoptDoes
        <5> QED
          BY <4>2, <5>3, <5>4
      <4>3. CASE ByAddress[i] \notin vs
        <5>1. f[i] = t
          BY <4>3
        <5> QED
          BY <3>2, <4>3, <5>1
      <4> QED
        BY <4>2, <4>3
    <3> QED
      BY <3>1, <3>2, <3>3
  <2> HIDE DEF P
  <2>3. \A i \in 0 .. n : i \in S
    <3>1. 0 \in S /\ \A i \in 1 .. n : i - 1 \in S => i \in S
      BY <1>1, <2>1, <2>2
    <3> HIDE DEF S, n
    <3> QED
      BY <1>1, <3>1, InductionUpTo
  <2>4. P(n)
    BY <1>1, <2>3
  <2>5. \A c \in Kids : Hit(n, c) <=> c \in vs
    BY AddressesAre
  <2> HIDE DEF Hit
  <2> QED
    BY <2>4, <2>5 DEF P
<1> QED
  BY <1>1, <1>2

(* Those of q that the call erases or overwrites have no parent then. *)
LEMMA LeaveTreatedDoes ==
  ASSUME NEW s \in States, NEW on \in Arrays, NEW k, NEW q \in Seq(Items), NEW u, u = LeaveTreated(k, s, q)
  PROVE  /\ u \in States
         /\ (/\ Around(s, on)
             /\ \A i \in 1 .. Len(q) :
                  q[i] \in Kids \cap (k.erase \cup k.assign) => ~Holds(s.items[on], q[i])) =>
              /\ Around(u, on) /\ u.items[on] = s.items[on]
              /\ \A c \in Kids :
                   u.parent[c] = IF Holds(q, c) /\ c \in k.erase \cup k.assign THEN NoNode ELSE s.parent[c]
<1> PICK f \in [0 .. Len(q) -> States] :
           /\ f[0] = s
           /\ \A i \in 1 .. Len(q) :
                f[i] = IF q[i] \in k.erase \cup k.assign
                  THEN Leave(f[i - 1], q[i]) ELSE f[i - 1]
           /\ f[Len(q)] = u
  BY LeaveTreatedRuns
<1> DEFINE n == Len(q)
<1>1. n \in Nat
  OBVIOUS
<1>2. ASSUME /\ Around(s, on)
             /\ (\A i \in 1 .. Len(q) :
                   q[i] \in Kids \cap (k.erase \cup k.assign) => ~Holds(s.items[on], q[i]))
      PROVE  /\ Around(u, on) /\ u.items[on] = s.items[on]
             /\ \A c \in Kids :
                  u.parent[c] = IF Holds(q, c) /\ c \in k.erase \cup k.assign THEN NoNode ELSE s.parent[c]
  <2> DEFINE Hit(i, c) == \E j \in 1 .. i : q[j] = c /\ c \in k.erase \cup k.assign
             P(i) == /\ Around(f[i], on) /\ f[i].items[on] = s.items[on]
                     /\ \A c \in Kids : f[i].parent[c] = IF Hit(i, c) THEN NoNode ELSE s.parent[c]
             S == {i \in 0 .. n : P(i)}
  <2>1. P(0)
    BY <1>2
  <2>2. ASSUME NEW i \in 1 .. n, P(i - 1) PROVE P(i)
    <3> PICK t \in States : t = f[i - 1]
      BY <1>1
    <3>1. \A c : Hit(i, c) <=> Hit(i - 1, c) \/ (LET j == i IN q[j] = c /\ c \in k.erase \cup k.assign)
      BY <1>1
    <3>2. /\ Around(t, on) /\ t.items[on] = s.items[on]
          /\ \A c \in Kids : t.parent[c] = IF Hit(i - 1, c) THEN NoNode ELSE s.parent[c]
      BY <2>2
    <3> HIDE DEF Hit
    <3>3. /\ Around(f[i], on) /\ f[i].items[on] = t.items[on]
          /\ \A c \in Kids :
               f[i].parent[c] = IF q[i] = c /\ c \in k.erase \cup k.assign THEN NoNode ELSE t.parent[c]
      <4>1. q[i] \in Items
        OBVIOUS
      <4>2. CASE q[i] \in k.erase \cup k.assign
        <5>1. f[i] = Leave(t, q[i])
          BY <4>2
        <5>2. q[i] \in Kids => ~Holds(t.items[on], q[i])
          BY <1>2, <3>2, <4>2
        <5>3. /\ Around(f[i], on) /\ f[i].items[on] = t.items[on]
              /\ \A c \in Kids : f[i].parent[c] = IF c = q[i] THEN NoNode ELSE t.parent[c]
          BY <3>2, <4>1, <5>1, <5>2, LeaveDoes
        <5> QED
          BY <4>2, <5>3
      <4>3. CASE q[i] \notin k.erase \cup k.assign
        <5>1. f[i] = t
          BY <4>3
        <5> QED
          BY <3>2, <4>3, <5>1
      <4> QED
        BY <4>2, <4>3
    <3> QED
      BY <3>1, <3>2, <3>3
  <2> HIDE DEF P
  <2>3. \A i \in 0 .. n : i \in S
    <3>1. 0 \in S /\ \A i \in 1 .. n : i - 1 \in S => i \in S
      BY <1>1, <2>1, <2>2
    <3> HIDE DEF S, n
    <3> QED
      BY <1>1, <3>1, InductionUpTo
  <2>4. P(n)
    BY <1>1, <2>3
  <2>5. \A c \in Kids : Hit(n, c) <=> Holds(q, c) /\ c \in k.erase \cup k.assign
    BY DEF Holds
  <2> HIDE DEF Hit
  <2> QED
    BY <2>4, <2>5 DEF P
<1> QED
  BY <1>1, <1>2

LEMMA HasIs ==
  ASSUME NEW q \in Seq(Items), NEW v
  PROVE  Has(q, v) <=> Holds(q, v)
<1>1. DOMAIN q = 1 .. Len(q)
  OBVIOUS
<1> QED
  BY <1>1 DEF Has, Holds, ToSet

LEMMA AppendHolds ==
  ASSUME NEW q \in Seq(Items), NEW v \in Items
  PROVE  /\ Append(q, v) \in Seq(Items)
         /\ \A c : Holds(Append(q, v), c) <=> Holds(q, c) \/ c = v
         /\ Once(q) /\ (v \in Kids => ~Holds(q, v)) => Once(Append(q, v))
<1> PICK r : r = Append(q, v)
  OBVIOUS
<1>1. /\ r \in Seq(Items) /\ Len(r) = Len(q) + 1 /\ Len(q) \in Nat
      /\ r[Len(q) + 1] = v /\ \A j \in 1 .. Len(q) : r[j] = q[j]
  OBVIOUS
<1>2. ASSUME NEW c PROVE Holds(r, c) <=> Holds(q, c) \/ c = v
  BY <1>1 DEF Holds
<1>3. ASSUME Once(q), v \in Kids => ~Holds(q, v) PROVE Once(r)
  <2> SUFFICES ASSUME NEW i \in 1 .. Len(r), NEW j \in 1 .. Len(r), r[i] = r[j], r[i] \in Kids
               PROVE  i = j
    BY DEF Once
  <2>1. \A k \in 1 .. Len(r) : k = Len(q) + 1 \/ k \in 1 .. Len(q)
    BY <1>1
  <2>2. CASE i \in 1 .. Len(q) /\ j \in 1 .. Len(q)
    BY <1>1, <1>3, <2>2 DEF Once
  <2>3. CASE i = Len(q) + 1 \/ j = Len(q) + 1
    BY <1>1, <1>3, <2>1, <2>3 DEF Holds
  <2> QED
    BY <2>1, <2>2, <2>3
<1> QED
  BY <1>1, <1>2, <1>3

(* What EraseAll takes out is what it leaves no more. *)
LEMMA EraseAllDoes ==
  ASSUME NEW q \in Seq(Items), NEW keys \in Seq(Indexes), NEW r, r = EraseAll(q, keys)
  PROVE  /\ r \in Erased
         /\ Once(q) =>
              /\ Once(r.q)
              /\ \A c \in Kids : Holds(r.q, c) <=> Holds(q, c) /\ ~Holds(r.out, c)
              /\ \A c \in Kids : Holds(r.out, c) => Holds(q, c)
<1> PICK f \in [0 .. Len(keys) -> Erased] :
           /\ f[0] = [q |-> q, out |-> <<>>]
           /\ \A i \in 1 .. Len(keys) : f[i] = EraseOne(f[i - 1], keys[i])
           /\ f[Len(keys)] = r
  BY EraseAllRuns
<1> DEFINE n == Len(keys)
<1>1. n \in Nat
  OBVIOUS
<1>2. ASSUME Once(q)
      PROVE
             /\ Once(r.q)
             /\ \A c \in Kids : Holds(r.q, c) <=> Holds(q, c) /\ ~Holds(r.out, c)
             /\ \A c \in Kids : Holds(r.out, c) => Holds(q, c)
  <2> DEFINE P(i) == /\ Once(f[i].q)
                     /\ \A c \in Kids : Holds(f[i].q, c) <=> Holds(q, c) /\ ~Holds(f[i].out, c)
                     /\ \A c \in Kids : Holds(f[i].out, c) => Holds(q, c)
             S == {i \in 0 .. n : P(i)}
  <2>1. P(0)
    BY <1>2 DEF Holds
  <2>2. ASSUME NEW i \in 1 .. n, P(i - 1) PROVE P(i)
    <3>0. i - 1 \in 0 .. n
      BY <1>1
    <3> PICK t \in Erased : t = f[i - 1]
      BY <3>0
    <3> PICK k \in Indexes : k = keys[i]
      OBVIOUS
    <3> PICK p : p = Find(t.q, k)
      OBVIOUS
    <3>1. t.q \in Seq(Items) /\ t.out \in Seq(Items) /\ p \in 0 .. Len(t.q)
      BY FindIs DEF Erased
    <3>2. /\ Once(t.q)
          /\ \A c \in Kids : Holds(t.q, c) <=> Holds(q, c) /\ ~Holds(t.out, c)
          /\ \A c \in Kids : Holds(t.out, c) => Holds(q, c)
      BY <2>2
    <3>3. f[i] = EraseOne(t, k)
      OBVIOUS
    <3>4. CASE p = 0
      <4>1. f[i].q = t.q /\ f[i].out = t.out
        BY <3>3, <3>4 DEF EraseOne, EraseAt
      <4> QED
        BY <3>2, <4>1
    <3>5. CASE p # 0
      <4> PICK x : x = t.q[p]
        OBVIOUS
      <4>1. f[i].q = RemoveAt(t.q, p) /\ f[i].out = Append(t.out, x)
        BY <3>3, <3>5 DEF EraseOne, EraseAt
      <4>2. p \in 1 .. Len(t.q) /\ x \in Items
        BY <3>1, <3>5
      <4>3. /\ Once(f[i].q)
            /\ \A c \in Kids : Holds(f[i].q, c) <=> Holds(t.q, c) /\ c # x
        BY <3>1, <3>2, <4>1, <4>2, RemovedIsGone
      <4>4. \A c : Holds(f[i].out, c) <=> Holds(t.out, c) \/ c = x
        BY ONLY <3>1, <4>1, <4>2, AppendHolds
      <4>5. Holds(t.q, x)
        BY <4>2 DEF Holds
      <4> QED
        BY <3>2, <4>3, <4>4, <4>5
    <3> QED
      BY <3>4, <3>5
  <2> HIDE DEF P
  <2>3. \A i \in 0 .. n : i \in S
    <3>1. 0 \in S /\ \A i \in 1 .. n : i - 1 \in S => i \in S
      BY <1>1, <2>1, <2>2
    <3> HIDE DEF S, n
    <3> QED
      BY <1>1, <3>1, InductionUpTo
  <2>4. P(n)
    BY <1>1, <2>3
  <2> QED
    BY <2>4 DEF P
<1>3. r \in Erased
  BY <1>1
<1> QED
  BY <1>2, <1>3

(* What is inserted was not there and is there then. *)
LEMMA InsertAllDoes ==
  ASSUME NEW q \in Seq(Items), NEW pairs \in Seq(Pairs), NEW refused, NEW r, r = InsertAll(q, pairs, refused)
  PROVE  /\ r \in InsertedSoFar
         /\ Once(q) =>
              /\ Once(r.q)
              /\ \A c \in Kids : Holds(r.q, c) <=> Holds(q, c) \/ c \in r.put
              /\ \A c \in Kids : c \in r.put => ~Holds(q, c)
<1> PICK f \in [0 .. Len(pairs) -> InsertedSoFar] :
           /\ f[0] = [q |-> q, put |-> {}]
           /\ \A i \in 1 .. Len(pairs) : f[i] = InsertOne(f[i - 1], pairs[i], refused)
           /\ f[Len(pairs)] = r
  BY InsertAllRuns
<1> DEFINE n == Len(pairs)
<1>1. n \in Nat
  OBVIOUS
<1>2. ASSUME Once(q)
      PROVE
             /\ Once(r.q)
             /\ \A c \in Kids : Holds(r.q, c) <=> Holds(q, c) \/ c \in r.put
             /\ \A c \in Kids : c \in r.put => ~Holds(q, c)
  <2> DEFINE P(i) == /\ Once(f[i].q)
                     /\ \A c \in Kids : Holds(f[i].q, c) <=> Holds(q, c) \/ c \in f[i].put
                     /\ \A c \in Kids : c \in f[i].put => ~Holds(q, c)
             S == {i \in 0 .. n : P(i)}
  <2>1. P(0)
    BY <1>2
  <2>2. ASSUME NEW i \in 1 .. n, P(i - 1) PROVE P(i)
    <3>0. i - 1 \in 0 .. n
      BY <1>1
    <3> PICK t \in InsertedSoFar : t = f[i - 1]
      BY <3>0
    <3> PICK pair \in Pairs : pair = pairs[i]
      OBVIOUS
    <3> PICK v \in Items : v = pair.val
      BY Sorts DEF Pairs
    <3>1. t.q \in Seq(Items) /\ t.put \in SUBSET Kids /\ pair.key \in Indexes
      BY DEF InsertedSoFar, Pairs
    <3>2. /\ Once(t.q)
          /\ \A c \in Kids : Holds(t.q, c) <=> Holds(q, c) \/ c \in t.put
          /\ \A c \in Kids : c \in t.put => ~Holds(q, c)
      BY <2>2
    <3>3. f[i] = InsertOne(t, pair, refused)
      OBVIOUS
    <3>4. CASE (v \in Kids /\ Has(t.q, v)) \/ v \in refused
      <4>1. f[i] = t
        BY <3>3, <3>4 DEF InsertOne
      <4> QED
        BY <3>2, <4>1
    <3>5. CASE ~((v \in Kids /\ Has(t.q, v)) \/ v \in refused)
      <4>1. f[i].q = EmplaceAt(t.q, pair.key, v) /\ f[i].put = t.put \cup ({v} \cap Kids)
        BY <3>3, <3>5 DEF InsertOne
      <4>2. v \in Kids => ~Holds(t.q, v)
        BY <3>1, <3>5, HasIs
      <4>5. \E p \in 1 .. (Len(t.q) + 1) :
               EmplaceAt(t.q, pair.key, v) = InsertAt(t.q, p, v) /\ InsertAt(t.q, p, v) \in Seq(Items)
        BY <3>1, EmplaceAtTyped
      <4> PICK p \in 1 .. (Len(t.q) + 1) : f[i].q = InsertAt(t.q, p, v)
        BY <4>1, <4>5
      <4>3. /\ Once(f[i].q)
            /\ \A c \in Kids : Holds(f[i].q, c) <=> Holds(t.q, c) \/ c = v
        BY <3>1, <3>2, <4>2, InsertAtHolds
      <4>4. \A c \in Kids : c \in f[i].put <=> c \in t.put \/ c = v
        BY <3>1, <4>1
      <4> QED
        BY <3>2, <4>2, <4>3, <4>4
    <3> QED
      BY <3>4, <3>5
  <2> HIDE DEF P
  <2>3. \A i \in 0 .. n : i \in S
    <3>1. 0 \in S /\ \A i \in 1 .. n : i - 1 \in S => i \in S
      BY <1>1, <2>1, <2>2
    <3> HIDE DEF S, n
    <3> QED
      BY <1>1, <3>1, InductionUpTo
  <2>4. P(n)
    BY <1>1, <2>3
  <2> QED
    BY <2>4 DEF P
<1>3. r \in InsertedSoFar
  BY <1>1
<1> QED
  BY <1>2, <1>3

(* The same of values inserted one after the other. *)
LEMMA InsertAllAtDoes ==
  ASSUME NEW q \in Seq(Items), NEW k \in Indexes, NEW vals \in Seq(Items), NEW refused,
         NEW r, r = InsertAllAt(q, k, vals, refused)
  PROVE  /\ r \in InsertedUpTo
         /\ Once(q) =>
              /\ Once(r.q)
              /\ \A c \in Kids : Holds(r.q, c) <=> Holds(q, c) \/ Holds(r.put, c)
              /\ \A c \in Kids : Holds(r.put, c) => ~Holds(q, c)
<1> PICK f \in [0 .. Len(vals) -> InsertedUpTo] :
           /\ f[0] = [q |-> q, at |-> k, put |-> <<>>]
           /\ \A i \in 1 .. Len(vals) : f[i] = InsertNext(f[i - 1], vals[i], refused)
           /\ f[Len(vals)] = r
  BY InsertAllAtRuns
<1> DEFINE n == Len(vals)
<1>1. n \in Nat
  OBVIOUS
<1>2. ASSUME Once(q)
      PROVE
             /\ Once(r.q)
             /\ \A c \in Kids : Holds(r.q, c) <=> Holds(q, c) \/ Holds(r.put, c)
             /\ \A c \in Kids : Holds(r.put, c) => ~Holds(q, c)
  <2> DEFINE P(i) == /\ Once(f[i].q)
                     /\ \A c \in Kids : Holds(f[i].q, c) <=> Holds(q, c) \/ Holds(f[i].put, c)
                     /\ \A c \in Kids : Holds(f[i].put, c) => ~Holds(q, c)
             S == {i \in 0 .. n : P(i)}
  <2>1. P(0)
    BY <1>2 DEF Holds
  <2>2. ASSUME NEW i \in 1 .. n, P(i - 1) PROVE P(i)
    <3>0. i - 1 \in 0 .. n
      BY <1>1
    <3> PICK t \in InsertedUpTo : t = f[i - 1]
      BY <3>0
    <3> PICK v \in Items : v = vals[i]
      BY Sorts
    <3>1. t.q \in Seq(Items) /\ t.put \in Seq(Items) /\ t.at \in Indexes
      BY DEF InsertedUpTo
    <3>2. /\ Once(t.q)
          /\ \A c \in Kids : Holds(t.q, c) <=> Holds(q, c) \/ Holds(t.put, c)
          /\ \A c \in Kids : Holds(t.put, c) => ~Holds(q, c)
      BY <2>2
    <3>3. f[i] = InsertNext(t, v, refused)
      OBVIOUS
    <3>4. CASE (v \in Kids /\ Has(t.q, v)) \/ v \in refused
      <4>1. f[i] = t
        BY <3>3, <3>4 DEF InsertNext
      <4> QED
        BY <3>2, <4>1
    <3>5. CASE ~((v \in Kids /\ Has(t.q, v)) \/ v \in refused)
      <4>1. f[i].q = EmplaceAt(t.q, t.at, v) /\ f[i].put = Append(t.put, v)
        BY <3>3, <3>5 DEF InsertNext
      <4>2. v \in Kids => ~Holds(t.q, v)
        BY <3>1, <3>5, HasIs
      <4>5. \E p \in 1 .. (Len(t.q) + 1) :
               EmplaceAt(t.q, t.at, v) = InsertAt(t.q, p, v) /\ InsertAt(t.q, p, v) \in Seq(Items)
        BY <3>1, EmplaceAtTyped
      <4> PICK p \in 1 .. (Len(t.q) + 1) : f[i].q = InsertAt(t.q, p, v)
        BY <4>1, <4>5
      <4>3. /\ Once(f[i].q)
            /\ \A c \in Kids : Holds(f[i].q, c) <=> Holds(t.q, c) \/ c = v
        BY <3>1, <3>2, <4>2, InsertAtHolds
      <4>4. \A c \in Kids : Holds(f[i].put, c) <=> Holds(t.put, c) \/ c = v
        BY <3>1, <4>1, AppendHolds
      <4> QED
        BY <3>2, <4>2, <4>3, <4>4
    <3> QED
      BY <3>4, <3>5
  <2> HIDE DEF P
  <2>3. \A i \in 0 .. n : i \in S
    <3>1. 0 \in S /\ \A i \in 1 .. n : i - 1 \in S => i \in S
      BY <1>1, <2>1, <2>2
    <3> HIDE DEF S, n
    <3> QED
      BY <1>1, <3>1, InductionUpTo
  <2>4. P(n)
    BY <1>1, <2>3
  <2> QED
    BY <2>4 DEF P
<1>3. r \in InsertedUpTo
  BY <1>1
<1> QED
  BY <1>2, <1>3

(* ForEach leaves the nodes that its callback neither erased nor overwrote, *)
(* if no such change was refused.                                          *)
LEMMA TreatedDoes ==
  ASSUME NEW c, c.to \in Scalars, NEW before \in Seq(Items), NEW q \in Seq(Items),
         NEW refused, NEW r, r = Treated(c, before, q, refused)
  PROVE  /\ r \in Seq(Items)
         /\ ( /\ Once(before) /\ Once(q)
              /\ \A v \in Kids : ~(Holds(before, v) /\ Holds(q, v))
              /\ refused = {} \/ (c.erase \cup c.assign) \cap Kids = {} ) =>
              /\ Once(r)
              /\ \A v \in Kids : Holds(r, v) <=>
                   Holds(before, v) \/ (Holds(q, v) /\ v \notin c.erase \cup c.assign)
<1> PICK f \in [0 .. Len(q) -> Seq(Items)] :
           /\ f[0] = before
           /\ \A i \in 1 .. Len(q) : f[i] = TreatOne(c, f[i - 1], q[i], refused)
           /\ f[Len(q)] = r
  BY TreatedRuns, Sorts
<1> DEFINE n == Len(q)
<1>1. n \in Nat
  OBVIOUS
<1>2. ASSUME Once(before), Once(q), \A v \in Kids : ~(Holds(before, v) /\ Holds(q, v)),
             refused = {} \/ (c.erase \cup c.assign) \cap Kids = {}
      PROVE  /\ Once(r)
             /\ \A v \in Kids : Holds(r, v) <=>
                  Holds(before, v) \/ (Holds(q, v) /\ v \notin c.erase \cup c.assign)
  <2> DEFINE Kept(i, v) == \E j \in 1 .. i : q[j] = v /\ v \notin c.erase \cup c.assign
             P(i) == /\ Once(f[i])
                     /\ \A v \in Kids : Holds(f[i], v) <=> Holds(before, v) \/ Kept(i, v)
             S == {i \in 0 .. n : P(i)}
  <2>1. P(0)
    BY <1>2
  <2>2. ASSUME NEW i \in 1 .. n, P(i - 1) PROVE P(i)
    <3>0. i - 1 \in 0 .. n
      BY <1>1
    <3> PICK t \in Seq(Items) : t = f[i - 1]
      BY <3>0
    <3> PICK x \in Items : x = q[i]
      OBVIOUS
    <3>1. Once(t) /\ \A v \in Kids : Holds(t, v) <=> Holds(before, v) \/ Kept(i - 1, v)
      BY <2>2
    <3>2. \A v \in Kids : Kept(i, v) <=> Kept(i - 1, v) \/ (v = x /\ v \notin c.erase \cup c.assign)
      BY <1>1
    <3>3. x \in Kids => ~Holds(t, x)
      <4>1. ASSUME x \in Kids PROVE ~Kept(i - 1, x)
        BY <1>1, <1>2, <4>1 DEF Once
      <4>2. ASSUME x \in Kids PROVE ~Holds(before, x)
        BY <1>2, <4>2 DEF Holds
      <4> QED
        BY <3>1, <4>1, <4>2
    <3> HIDE DEF Kept
    <3>4. f[i] = TreatOne(c, t, x, refused)
      OBVIOUS
    <3>5. c.to \in Items /\ c.to \notin Kids
      BY Sorts
    <3>6. CASE x \in c.erase /\ Empty \notin refused
      <4>1. f[i] = t
        BY <3>4, <3>6 DEF TreatOne
      <4> QED
        BY <3>1, <3>2, <3>6, <4>1
    <3>7. CASE ~(x \in c.erase /\ Empty \notin refused) /\ x \in c.assign /\ c.to \notin refused
      <4>1. f[i] = Append(t, c.to)
        BY <3>4, <3>7 DEF TreatOne
      <4>2. Once(f[i]) /\ \A v : Holds(f[i], v) <=> Holds(t, v) \/ v = c.to
        BY <3>1, <3>5, <4>1, AppendHolds
      <4> QED
        BY <3>1, <3>2, <3>5, <3>7, <4>2
    <3>8. CASE ~(x \in c.erase /\ Empty \notin refused) /\ ~(x \in c.assign /\ c.to \notin refused)
      <4>1. f[i] = Append(t, x)
        BY <3>4, <3>8 DEF TreatOne
      <4>2. Once(f[i]) /\ \A v : Holds(f[i], v) <=> Holds(t, v) \/ v = x
        BY <3>1, <3>3, <4>1, AppendHolds
      <4>3. x \in Kids => x \notin c.erase \cup c.assign
        BY <1>2, <3>8
      <4> QED
        BY <3>1, <3>2, <4>2, <4>3
    <3> QED
      BY <3>6, <3>7, <3>8
  <2> HIDE DEF P
  <2>3. \A i \in 0 .. n : i \in S
    <3>1. 0 \in S /\ \A i \in 1 .. n : i - 1 \in S => i \in S
      BY <1>1, <2>1, <2>2
    <3> HIDE DEF S, n
    <3> QED
      BY <1>1, <3>1, InductionUpTo
  <2>4. P(n)
    BY <1>1, <2>3
  <2> QED
    BY <2>4 DEF P, Holds
<1>3. r \in Seq(Items)
  BY <1>1
<1> QED
  BY <1>2, <1>3

(* Of a node that is held twice the place goes at which it was not set. *)
OnceBut(q, b) == \A i, j \in (1 .. Len(q)) \ {b} : q[i] = q[j] /\ q[i] \in Kids => i = j
Stored(q, put) ==
  \A p \in put : p.val \in Kids /\ p.key \in Nat /\ p.key + 1 \in 1 .. Len(q) /\ q[p.key + 1] = p.val
OneTwice(q, put) ==
  \E b \in 1 .. Len(q) : \E p \in put :
    put = {p} /\ b # p.key + 1 /\ q[b] = p.val /\ OnceBut(q, b)

LEMMA TidyAllDoes ==
  ASSUME NEW q \in Seq(Items), NEW put, NEW t, t = TidyAll(q, put)
  PROVE  /\ t \in Seq(Items)
         /\ Stored(q, put) /\ (Once(q) \/ OneTwice(q, put)) =>
              Once(t) /\ \A c \in Kids : Holds(t, c) <=> Holds(q, c)
<1> DEFINE n == Len(ByAddress)
           vals == {p.val : p \in put}
           Key(v) == (CHOOSE p \in put : p.val = v).key
<1> PICK f \in [0 .. n -> Seq(Items)] :
           /\ f[0] = q
           /\ \A i \in 1 .. n : f[i] = IF ByAddress[i] \in vals
                                       THEN RemoveDuplicates(f[i - 1], ByAddress[i], Key(ByAddress[i]))
                                       ELSE f[i - 1]
           /\ f[n] = t
  BY TidyAllRuns, ZenonT(40)
<1>1. n \in Nat
  BY AddressesAre
<1>2. ASSUME NEW v \in vals PROVE \E p \in put : p.val = v /\ Key(v) = p.key
  <2> PICK p \in put : p = CHOOSE x \in put : x.val = v
    OBVIOUS
  <2> QED
    BY <1>2
<1> HIDE DEF Key, vals
<1>3. ASSUME Stored(q, put), Once(q)
      PROVE  Once(t) /\ \A c \in Kids : Holds(t, c) <=> Holds(q, c)
  <2> DEFINE S == {i \in 0 .. n : f[i] = q}
  <2>1. ASSUME NEW i \in 1 .. n, i - 1 \in S PROVE i \in S
    <3> PICK v : v = ByAddress[i]
      OBVIOUS
    <3>1. f[i - 1] = q
      BY <2>1
    <3>2. CASE v \in vals
      <4>1. f[i] = RemoveDuplicates(q, v, Key(v))
        BY <3>1, <3>2
      <4> PICK p \in put : p.val = v /\ Key(v) = p.key
        BY <1>2, <3>2
      <4>2. v \in Kids /\ p.key + 1 \in 1 .. Len(q) /\ q[p.key + 1] = v /\ p.key \in Nat
        BY <1>3 DEF Stored
      <4> PICK k : k = p.key
        OBVIOUS
      <4>3. ASSUME NEW j \in 1 .. Len(q), j - 1 # k, q[j] = v PROVE FALSE
        <5>1. k + 1 \in 1 .. Len(q) /\ q[j] = q[k + 1] /\ q[j] \in Kids /\ k \in Nat
          BY <4>2, <4>3
        <5>2. j = k + 1
          BY <1>3, <4>3, <5>1 DEF Once
        <5> QED
          BY <4>3, <5>1, <5>2
      <4>4. \/ RemoveDuplicates(q, v, k) = q
            \/ \E j \in 1 .. Len(q) : j - 1 # k /\ q[j] = v
        BY RemoveDuplicatesIs
      <4> QED
        BY <4>1, <4>3, <4>4
    <3>3. CASE v \notin vals
      BY <3>1, <3>3
    <3> QED
      BY <3>2, <3>3
  <2>2. \A i \in 0 .. n : i \in S
    <3>1. 0 \in S /\ \A i \in 1 .. n : i - 1 \in S => i \in S
      BY <1>1, <2>1
    <3> HIDE DEF S, n
    <3> QED
      BY <1>1, <3>1, InductionUpTo
  <2>3. t = q
    BY <1>1, <2>2
  <2> QED
    BY <1>3, <2>3
<1>4. ASSUME Stored(q, put), OneTwice(q, put)
      PROVE  Once(t) /\ \A c \in Kids : Holds(t, c) <=> Holds(q, c)
  <2> PICK b \in 1 .. Len(q), p \in put : put = {p} /\ b # p.key + 1 /\ q[b] = p.val /\ OnceBut(q, b)
    BY <1>4 DEF OneTwice
  <2> PICK v, k : v = p.val /\ k = p.key
    OBVIOUS
  <2>1. v \in Kids /\ k \in Nat /\ k + 1 \in 1 .. Len(q) /\ q[k + 1] = v /\ b # k + 1 /\ q[b] = v
    BY <1>4 DEF Stored
  <2>2. \A x : x \in vals <=> x = v
    BY DEF vals
  <2>3. Key(v) = k
    BY <1>2, <2>2
  <2> PICK m \in 1 .. n : ByAddress[m] = v
    BY <2>1, AddressesAre
  <2>4. \A i \in 1 .. n : ByAddress[i] = v <=> i = m
    BY AddressesAre
  <2> PICK u : u = RemoveAt(q, b)
    OBVIOUS
  <2>5. RemoveDuplicates(q, v, k) = u
    <3>1. \A i \in 1 .. Len(q) : i - 1 # k /\ q[i] = v => i = b
      BY ONLY <2>1, SMTT(30) DEF OnceBut
    <3>2. ~ \A i \in 1 .. Len(q) : q[i] = v => i - 1 = k
      BY <2>1
    <3>3. \/ RemoveDuplicates(q, v, k) = q /\ \A i \in 1 .. Len(q) : q[i] = v => i - 1 = k
          \/ \E i \in 1 .. Len(q) :
               i - 1 # k /\ q[i] = v /\ RemoveDuplicates(q, v, k) = RemoveAt(q, i)
      BY RemoveDuplicatesIs, SMTT(30)
    <3> QED
      BY <3>1, <3>2, <3>3
  <2> DEFINE S == {i \in 0 .. n : f[i] = IF i < m THEN q ELSE u}
  <2>6. ASSUME NEW i \in 1 .. n, i - 1 \in S PROVE i \in S
    <3>1. f[i - 1] = IF i - 1 < m THEN q ELSE u
      BY <2>6
    <3>2. CASE i = m
      <4>1. f[i] = RemoveDuplicates(q, v, k)
        BY <1>1, <2>2, <2>3, <3>1, <3>2
      <4> QED
        BY <1>1, <2>5, <3>2, <4>1
    <3>3. CASE i # m
      <4>1. f[i] = f[i - 1]
        BY <2>2, <2>4, <3>3
      <4> QED
        BY <1>1, <3>1, <3>3, <4>1
    <3> QED
      BY <3>2, <3>3
  <2>7. \A i \in 0 .. n : i \in S
    <3>1. 0 \in S /\ \A i \in 1 .. n : i - 1 \in S => i \in S
      BY <1>1, <2>6
    <3> HIDE DEF S, n
    <3> QED
      BY <1>1, <3>1, InductionUpTo
  <2>8. t = u
    BY <1>1, <2>7
  <2>9. Once(u) /\ \A c \in Kids : Holds(u, c) <=> \E j \in 1 .. Len(q) : j # b /\ q[j] = c
    <3>1. OnceBut(q, b) => Once(RemoveAt(q, b))
      BY ONLY q \in Seq(Items), b \in 1 .. Len(q), RemoveAtHolds DEF OnceBut
    <3>2. \A c \in Kids : Holds(RemoveAt(q, b), c) <=> \E j \in 1 .. Len(q) : j # b /\ q[j] = c
      BY RemoveAtHolds
    <3> QED
      BY <3>1, <3>2
  <2>10. \A c \in Kids : Holds(q, c) => \E j \in 1 .. Len(q) : j # b /\ q[j] = c
    BY <2>1 DEF Holds
  <2>11. \A c \in Kids : (\E j \in 1 .. Len(q) : j # b /\ q[j] = c) => Holds(q, c)
    BY DEF Holds
  <2> QED
    BY ONLY <2>8, <2>9, <2>10, <2>11
<1>5. t \in Seq(Items)
  BY <1>1
<1> QED
  BY <1>3, <1>4, <1>5

(* What IsCareful asks of the pairs of a BulkSet on an array of values q. *)
PairsApart(q, pairs) ==
  \A i \in 1 .. Len(pairs) : pairs[i].val \in Kids =>
    /\ pairs[i].key # kIdxLast
    /\ \A j \in 1 .. Len(pairs) : j # i =>
         /\ pairs[j].val # pairs[i].val
         /\ pairs[j].key \notin {pairs[i].key, kIdxLast}
         /\ Has(q, pairs[i].val) =>
              pairs[j].val \notin Kids /\ ~HasAt(q, pairs[j].key, pairs[i].val)

(* Between two sets the nodes that were set are where they were put; the   *)
(* others are where they were before, or among those that were replaced,   *)
(* which no pair sets.                                                     *)
PutByPairs(t, pairs, i) ==
  \A p \in t.put : \E j \in 1 .. i : pairs[j] = p /\ p.val \in Kids
NoStranger(t, q) ==
  \A a \in 1 .. Len(t.q) : t.q[a] \in Kids =>
    \/ \E p \in t.put : p.val = t.q[a] /\ a = p.key + 1
    \/ a <= Len(q) /\ q[a] = t.q[a]
KeptOrOld(t, q) ==
  \A a \in 1 .. Len(q) : q[a] \in Kids => (t.q[a] = q[a] <=> ~Holds(t.old, q[a]))
OldWereThere(t, q, pairs) ==
  \A w \in Kids : Holds(t.old, w) =>
    Holds(q, w) /\ \A j \in 1 .. Len(pairs) : pairs[j].val # w
SetWell(t, q, pairs, i) ==
  /\ Len(t.q) >= Len(q)
  /\ PutByPairs(t, pairs, i) /\ Stored(t.q, t.put)
  /\ NoStranger(t, q) /\ KeptOrOld(t, q) /\ OldWereThere(t, q, pairs)

LEMMA SetOneDoes ==
  ASSUME NEW q \in Seq(Items), NEW pairs \in Seq(Pairs), NEW refused, Once(q), PairsApart(q, pairs),
         NEW i \in 1 .. Len(pairs), NEW t \in SetSoFar, SetWell(t, q, pairs, i - 1),
         NEW u, u = SetOne(t, pairs[i], refused)
  PROVE  SetWell(u, q, pairs, i)
<1> PICK x \in Pairs : x = pairs[i]
  OBVIOUS
<1> PICK k \in Indexes, v \in Content : k = x.key /\ v = x.val
  BY DEF Pairs
<1> PICK tq \in Seq(Items), old \in Seq(Items), put \in SUBSET Pairs :
      t.q = tq /\ t.old = old /\ t.put = put
  BY DEF SetSoFar
<1> PICK g \in Seq(Items) : g = Grown(tq, k)
  BY GrownIs
<1> PICK r : r = SetAt(tq, k, v, refused)
  OBVIOUS
<1> PICK p : p = Find(g, k)
  OBVIOUS
<1>1. /\ Len(q) \in Nat /\ Len(tq) \in Nat /\ Len(g) \in Nat /\ Len(q) <= Len(tq) /\ Len(tq) <= Len(g)
      /\ \A a \in 1 .. Len(g) : g[a] = IF a <= Len(tq) THEN tq[a] ELSE Empty
  <2>1. Len(g) >= Len(tq) /\ \A j \in 1 .. Len(g) : g[j] = IF j <= Len(tq) THEN tq[j] ELSE Empty
    BY GrownIs, SMTT(30)
  <2> QED
    BY <2>1 DEF SetWell
(* To grow changes nothing of it. *)
<1>2. /\ \A y \in put : \E j \in 1 .. (i - 1) : pairs[j] = y /\ y.val \in Kids
      /\ \A y \in put : y.val \in Kids /\ y.key \in Nat /\ y.key + 1 \in 1 .. Len(g) /\ g[y.key + 1] = y.val
      /\ \A a \in 1 .. Len(g) : g[a] \in Kids =>
           \/ \E y \in put : y.val = g[a] /\ a = y.key + 1
           \/ a <= Len(q) /\ q[a] = g[a]
      /\ \A a \in 1 .. Len(q) : q[a] \in Kids => (g[a] = q[a] <=> ~Holds(old, q[a]))
      /\ \A w \in Kids : Holds(old, w) => Holds(q, w) /\ \A j \in 1 .. Len(pairs) : pairs[j].val # w
  <2>1. \A y \in put : \E j \in 1 .. (i - 1) : pairs[j] = y /\ y.val \in Kids
    BY DEF SetWell, PutByPairs
  <2>2. \A y \in put : y.val \in Kids /\ y.key \in Nat /\ y.key + 1 \in 1 .. Len(g) /\ g[y.key + 1] = y.val
    <3> SUFFICES ASSUME NEW y \in put
                 PROVE  y.val \in Kids /\ y.key \in Nat /\ y.key + 1 \in 1 .. Len(g) /\ g[y.key + 1] = y.val
      OBVIOUS
    <3>1. y.val \in Kids /\ y.key \in Nat /\ y.key + 1 \in 1 .. Len(tq) /\ tq[y.key + 1] = y.val
      BY DEF SetWell, Stored
    <3> PICK a \in 1 .. Len(tq) : a = y.key + 1
      BY <3>1
    <3>2. a \in 1 .. Len(g) /\ g[a] = tq[a]
      BY <1>1
    <3> QED
      BY <3>1, <3>2
  <2>3. \A a \in 1 .. Len(g) : g[a] \in Kids =>
           \/ \E y \in put : y.val = g[a] /\ a = y.key + 1
           \/ a <= Len(q) /\ q[a] = g[a]
    <3> SUFFICES ASSUME NEW a \in 1 .. Len(g), g[a] \in Kids
                 PROVE  (\E y \in put : y.val = g[a] /\ a = y.key + 1) \/ (a <= Len(q) /\ q[a] = g[a])
      OBVIOUS
    <3>1. a \in 1 .. Len(tq) /\ g[a] = tq[a]
      BY <1>1, Sorts
    <3> QED
      BY <3>1 DEF SetWell, NoStranger
  <2>4. \A a \in 1 .. Len(q) : q[a] \in Kids => (g[a] = q[a] <=> ~Holds(old, q[a]))
    <3>1. \A a \in 1 .. Len(q) : g[a] = tq[a]
      BY <1>1, SMTT(30)
    <3> QED
      BY <3>1 DEF SetWell, KeptOrOld
  <2>5. \A w \in Kids : Holds(old, w) => Holds(q, w) /\ \A j \in 1 .. Len(pairs) : pairs[j].val # w
    BY DEF SetWell, OldWereThere
  <2> QED
    BY <2>1, <2>2, <2>3, <2>4, <2>5
<1>3. /\ r \in [done : BOOLEAN, q : Seq(Items), old : Items]
      /\ ~r.done => r.q = g
      /\ r.done => p \in 1 .. Len(g) /\ g[p] # v /\ r.q = ReplaceAt(g, p, v) /\ r.old = g[p]
  BY ONLY tq \in Seq(Items), k \in Indexes, v \in Content, r = SetAt(tq, k, v, refused),
          g = Grown(tq, k), p = Find(g, k), SetAtIs
<1>4. CASE ~r.done
  <2>1. u = [t EXCEPT !.q = g]
    BY <1>3, <1>4 DEF SetOne
  <2>2. u.q = g /\ u.old = old /\ u.put = put
    BY <2>1 DEF SetSoFar
  <2>3. Len(u.q) >= Len(q) /\ PutByPairs(u, pairs, i) /\ Stored(u.q, u.put)
    BY <1>1, <1>2, <2>2 DEF PutByPairs, Stored
  <2>4. NoStranger(u, q) /\ KeptOrOld(u, q) /\ OldWereThere(u, q, pairs)
    BY <1>2, <2>2 DEF NoStranger, KeptOrOld, OldWereThere
  <2> QED
    BY <2>3, <2>4 DEF SetWell
<1>5. CASE r.done
  <2> PICK o \in Items : o = g[p]
    BY <1>3, <1>5
  <2> PICK g2 \in Seq(Items) : g2 = r.q
    BY <1>3
  <2> DEFINE put2 == IF v \in Kids THEN put \cup {x} ELSE put
             old2 == Append(old, o)
  <2>1. u.q = g2 /\ u.old = old2 /\ u.put = put2
    <3>1. u = [q |-> g2, old |-> old2, put |-> put2]
      BY <1>3, <1>5 DEF SetOne
    <3> QED
      BY <3>1
  <2>2. /\ p \in 1 .. Len(g) /\ g[p] = o /\ o # v /\ Len(g2) = Len(g)
        /\ \A a \in 1 .. Len(g) : g2[a] = IF a = p THEN v ELSE g[a]
    BY <1>3, <1>5 DEF ReplaceAt
  <2>3. \A w : Holds(old2, w) <=> Holds(old, w) \/ w = o
    BY AppendHolds
  <2>4. k # kIdxLast => k \in Nat /\ p = k + 1 /\ (p <= Len(q) => Find(q, k) = p)
    <3>1. k \in Nat => Find(g, k) = IF k < Len(g) THEN k + 1 ELSE 0
      BY FindIs
    <3>2. k = kIdxEnd => Find(g, k) = 0
      BY FindIs
    <3>3. k \in Nat => Find(q, k) = IF k < Len(q) THEN k + 1 ELSE 0
      BY FindIs
    <3> QED
      BY <1>1, <2>2, <3>1, <3>2, <3>3 DEF Indexes
  (* No node that was set is overwritten. *)
  <2>5. \A y \in put : y.key + 1 # p
    <3> SUFFICES ASSUME NEW y \in put, y.key + 1 = p PROVE FALSE
      OBVIOUS
    <3> PICK j \in 1 .. (i - 1) : pairs[j] = y /\ y.val \in Kids
      BY <1>2
    <3>1. j \in 1 .. Len(pairs) /\ i # j
      OBVIOUS
    <3>2. k # y.key /\ k # kIdxLast
      BY <3>1 DEF PairsApart
    <3>3. y.key \in Nat
      BY <1>2
    <3> QED
      BY <2>4, <3>2, <3>3, SMTT(30)
  (* The replaced node was there, and no pair sets it. *)
  <2>6. ASSUME o \in Kids PROVE p <= Len(q) /\ q[p] = o
    BY <1>2, <2>2, <2>5, <2>6, SMTT(30)
  <2>7. ASSUME o \in Kids, NEW j \in 1 .. Len(pairs), pairs[j].val = o PROVE FALSE
    <3>1. j # i
      BY <2>2, <2>7
    <3>2. Has(q, o)
      BY <2>2, <2>6, <2>7, HasIs DEF Holds
    <3>3. k # kIdxLast /\ ~HasAt(q, k, o)
      BY <2>7, <3>1, <3>2 DEF PairsApart
    <3> QED
      BY <2>2, <2>4, <2>6, <2>7, <3>3 DEF HasAt
  <2>8. \A a \in 1 .. Len(q) : q[a] \in Kids /\ q[a] = o => a = p
    BY <1>1, <2>2, <2>6 DEF Once
  <2>9. Len(u.q) >= Len(q)
    BY <1>1, <2>1, <2>2
  <2>10. PutByPairs(u, pairs, i)
    <3> SUFFICES ASSUME NEW y \in put2 PROVE \E j \in 1 .. i : pairs[j] = y /\ y.val \in Kids
      BY <2>1 DEF PutByPairs
    <3>1. CASE y \in put
      <4> PICK j \in 1 .. (i - 1) : pairs[j] = y /\ y.val \in Kids
        BY <1>2, <3>1
      <4> QED
        OBVIOUS
    <3>2. CASE y = x /\ v \in Kids
      BY <3>2
    <3> QED
      BY <3>1, <3>2
  <2>11. Stored(u.q, u.put)
    <3> SUFFICES ASSUME NEW y \in put2
                 PROVE  y.val \in Kids /\ y.key \in Nat /\ y.key + 1 \in 1 .. Len(g2) /\ g2[y.key + 1] = y.val
      BY <2>1 DEF Stored
    <3>1. CASE y \in put
      <4> PICK a \in 1 .. Len(g) : a = y.key + 1 /\ g[a] = y.val /\ y.val \in Kids /\ y.key \in Nat
        BY ONLY <1>2, <3>1
      <4>1. a # p
        BY <2>5, <3>1
      <4> QED
        BY <2>2, <4>1
    <3>2. CASE y = x /\ v \in Kids
      <4>1. k # kIdxLast
        BY <3>2 DEF PairsApart
      <4> QED
        BY <2>2, <2>4, <3>2, <4>1
    <3> QED
      BY <3>1, <3>2
  <2>12. NoStranger(u, q)
    <3> SUFFICES ASSUME NEW a \in 1 .. Len(u.q), u.q[a] \in Kids
                 PROVE  \/ \E y \in u.put : y.val = u.q[a] /\ a = y.key + 1
                        \/ a <= Len(q) /\ q[a] = u.q[a]
      BY DEF NoStranger
    <3> PICK w \in Kids : w = u.q[a]
      OBVIOUS
    <3>1. a \in 1 .. Len(g2) /\ g2[a] = w
      BY <2>1
    <3>2. CASE a = p
      <4>1. v = w /\ k # kIdxLast
        BY <2>2, <3>1, <3>2 DEF PairsApart
      <4>2. x \in u.put /\ x.val = w
        BY <2>1, <4>1
      <4>3. a = x.key + 1
        BY <2>4, <3>2, <4>1
      <4> QED
        BY <4>2, <4>3
    <3>3. CASE a # p
      <4>1. a \in 1 .. Len(g) /\ g[a] = w
        BY <2>2, <3>1, <3>3
      <4>2. (\E y \in put : y.val = w /\ a = y.key + 1) \/ (a <= Len(q) /\ q[a] = w)
        <5>1. g[a] \in Kids =>
                (\E y \in put : y.val = g[a] /\ a = y.key + 1) \/ (a <= Len(q) /\ q[a] = g[a])
          BY ONLY <1>2, <4>1
        <5> QED
          BY ONLY <4>1, <5>1, w \in Kids
      <4>3. put \subseteq u.put
        BY <2>1
      <4> QED
        BY ONLY <4>2, <4>3, w = u.q[a]
    <3> QED
      BY ONLY <3>2, <3>3
  <2>13. KeptOrOld(u, q)
    <3> SUFFICES ASSUME NEW a \in 1 .. Len(q), q[a] \in Kids
                 PROVE  g2[a] = q[a] <=> ~Holds(old2, q[a])
      BY <2>1 DEF KeptOrOld
    <3> PICK w \in Kids : w = q[a]
      OBVIOUS
    <3>1. a \in 1 .. Len(g) /\ (g[a] = w <=> ~Holds(old, w))
      BY <1>1, <1>2
    <3>2. CASE a # p
      BY <2>2, <2>3, <2>8, <3>1, <3>2
    <3>3. CASE a = p /\ o = w
      BY <2>2, <2>3, <3>3
    <3>4. CASE a = p /\ o # w
      <4>1. Holds(old, w)
        BY <2>2, <3>1, <3>4
      <4>2. v # w
        BY <1>2, <4>1
      <4> QED
        BY <2>2, <2>3, <3>4, <4>1, <4>2
    <3> QED
      BY <3>2, <3>3, <3>4
  <2>14. OldWereThere(u, q, pairs)
    <3> SUFFICES ASSUME NEW w \in Kids, Holds(old2, w)
                 PROVE  Holds(q, w) /\ \A j \in 1 .. Len(pairs) : pairs[j].val # w
      BY <2>1 DEF OldWereThere
    <3>1. CASE Holds(old, w)
      BY <1>2, <3>1
    <3>2. CASE w = o
      <4>1. Holds(q, w)
        BY <2>2, <2>6, <3>2 DEF Holds
      <4> QED
        BY <2>7, <3>2, <4>1
    <3> QED
      BY <2>3, <3>1, <3>2
  <2> QED
    BY <2>9, <2>10, <2>11, <2>12, <2>13, <2>14 DEF SetWell
<1> QED
  BY <1>3, <1>4, <1>5

(* What BulkSet has set, with one place of each node to be tidied. *)
LEMMA SetAllDoes ==
  ASSUME NEW q \in Seq(Items), NEW pairs \in Seq(Pairs), NEW refused, NEW r, r = SetAll(q, pairs, refused)
  PROVE  /\ r \in SetSoFar
         /\ Once(q) /\ PairsApart(q, pairs) =>
              /\ Stored(r.q, r.put) /\ (Once(r.q) \/ OneTwice(r.q, r.put))
              /\ \A c \in Kids : Holds(r.q, c) <=>
                   (\E p \in r.put : p.val = c) \/ (Holds(q, c) /\ ~Holds(r.old, c))
              /\ \A c \in Kids : Holds(r.old, c) => Holds(q, c) /\ ~ \E p \in r.put : p.val = c
<1> PICK f \in [0 .. Len(pairs) -> SetSoFar] :
           /\ f[0] = [q |-> q, old |-> <<>>, put |-> {}]
           /\ \A i \in 1 .. Len(pairs) : f[i] = SetOne(f[i - 1], pairs[i], refused)
           /\ f[Len(pairs)] = r
  BY SetAllRuns
<1> DEFINE n == Len(pairs)
<1>1. n \in Nat
  OBVIOUS
<1>2. r \in SetSoFar
  BY <1>1
<1>3. ASSUME Once(q), PairsApart(q, pairs) PROVE SetWell(r, q, pairs, n)
  <2> DEFINE P(i) == SetWell(f[i], q, pairs, i)
             S == {i \in 0 .. n : P(i)}
  <2>1. P(0)
    <3>1. f[0].q = q /\ f[0].old = <<>> /\ f[0].put = {}
      OBVIOUS
    <3>2. PutByPairs(f[0], pairs, 0) /\ Stored(f[0].q, f[0].put)
      BY <3>1 DEF PutByPairs, Stored
    <3>3. NoStranger(f[0], q) /\ KeptOrOld(f[0], q) /\ OldWereThere(f[0], q, pairs)
      BY <3>1 DEF NoStranger, KeptOrOld, OldWereThere, Holds
    <3> QED
      BY <3>1, <3>2, <3>3 DEF SetWell
  <2>2. ASSUME NEW i \in 1 .. n, P(i - 1) PROVE P(i)
    <3>0. i - 1 \in 0 .. n
      BY <1>1
    <3> PICK t \in SetSoFar : t = f[i - 1]
      BY <3>0
    <3> PICK u : u = SetOne(t, pairs[i], refused)
      OBVIOUS
    <3>1. SetWell(t, q, pairs, i - 1) /\ f[i] = u
      BY <2>2
    <3>2. SetWell(u, q, pairs, i)
      BY <1>3, <3>1, SetOneDoes
    <3> QED
      BY <3>1, <3>2
  <2> HIDE DEF P
  <2>3. \A i \in 0 .. n : i \in S
    <3>1. 0 \in S /\ \A i \in 1 .. n : i - 1 \in S => i \in S
      BY <1>1, <2>1, <2>2
    <3> HIDE DEF S, n
    <3> QED
      BY <1>1, <3>1, InductionUpTo
  <2>4. P(n)
    BY <1>1, <2>3
  <2> QED
    BY <2>4 DEF P
<1>4. ASSUME Once(q), PairsApart(q, pairs)
      PROVE  /\ Stored(r.q, r.put) /\ (Once(r.q) \/ OneTwice(r.q, r.put))
             /\ \A c \in Kids : Holds(r.q, c) <=>
                  (\E p \in r.put : p.val = c) \/ (Holds(q, c) /\ ~Holds(r.old, c))
             /\ \A c \in Kids : Holds(r.old, c) => Holds(q, c) /\ ~ \E p \in r.put : p.val = c
  <2> PICK tq \in Seq(Items), old \in Seq(Items), put \in SUBSET Pairs :
        r.q = tq /\ r.old = old /\ r.put = put
    BY <1>2 DEF SetSoFar
  <2>1. /\ Len(q) \in Nat /\ Len(tq) \in Nat /\ Len(q) <= Len(tq)
        /\ \A y \in put : \E j \in 1 .. n : pairs[j] = y /\ y.val \in Kids
        /\ Stored(tq, put)
        /\ \A a \in 1 .. Len(tq) : tq[a] \in Kids =>
             \/ \E y \in put : y.val = tq[a] /\ a = y.key + 1
             \/ a <= Len(q) /\ q[a] = tq[a]
    BY <1>3, <1>4 DEF SetWell, PutByPairs, NoStranger
  <2>2. /\ \A a \in 1 .. Len(q) : q[a] \in Kids => (tq[a] = q[a] <=> ~Holds(old, q[a]))
        /\ \A w \in Kids : Holds(old, w) => Holds(q, w) /\ \A j \in 1 .. n : pairs[j].val # w
    BY <1>3, <1>4 DEF SetWell, KeptOrOld, OldWereThere
  <2>3. \A y \in put : y.val \in Kids /\ y.key \in Nat /\ y.key + 1 \in 1 .. Len(tq) /\ tq[y.key + 1] = y.val
    BY <2>1 DEF Stored
  <2>4. \A c \in Kids : Holds(old, c) => Holds(q, c) /\ ~ \E p \in put : p.val = c
    BY ONLY <2>1, <2>2
  <2>5. ASSUME NEW c \in Kids, Holds(tq, c)
        PROVE  (\E p \in put : p.val = c) \/ (Holds(q, c) /\ ~Holds(old, c))
    <3> PICK a \in 1 .. Len(tq) : tq[a] = c
      BY <2>5 DEF Holds
    <3>1. CASE a <= Len(q) /\ q[a] = c
      <4>1. a \in 1 .. Len(q)
        BY <2>1, <3>1
      <4>2. Holds(q, c)
        BY <3>1, <4>1 DEF Holds
      <4>3. ~Holds(old, c)
        BY <2>2, <3>1, <4>1
      <4> QED
        BY <4>2, <4>3
    <3> QED
      BY <2>1, <3>1
  <2>6. ASSUME NEW p \in put PROVE Holds(tq, p.val)
    BY <2>3 DEF Holds
  <2>7. ASSUME NEW c \in Kids, Holds(q, c), ~Holds(old, c) PROVE Holds(tq, c)
    <3> PICK a \in 1 .. Len(q) : q[a] = c
      BY <2>7 DEF Holds
    <3>1. a \in 1 .. Len(tq) /\ tq[a] = c
      BY <2>1, <2>2, <2>7
    <3> QED
      BY <3>1 DEF Holds
  (* A node that was there before and is set is the only one that is set. *)
  <2>8. ASSUME NEW p \in put, Holds(q, p.val) PROVE put = {p}
    <3> SUFFICES ASSUME NEW y \in put PROVE y = p
      OBVIOUS
    <3> PICK i \in 1 .. n : pairs[i] = p /\ p.val \in Kids
      BY <2>1
    <3> PICK j \in 1 .. n : pairs[j] = y /\ y.val \in Kids
      BY <2>1
    <3>1. Has(q, pairs[i].val)
      BY <2>8, HasIs
    <3>2. j # i => pairs[j].val \notin Kids
      BY <1>4, <3>1 DEF PairsApart
    <3> QED
      BY <3>2
  <2>9. ASSUME ~Once(tq) PROVE OneTwice(tq, put)
    <3> PICK i \in 1 .. Len(tq), j \in 1 .. Len(tq) : tq[i] = tq[j] /\ tq[i] \in Kids /\ i # j
      BY <2>9 DEF Once
    <3> PICK c \in Kids : c = tq[i]
      OBVIOUS
    <3> DEFINE Was(a) == a <= Len(q) /\ q[a] = c
               Put(a, y) == y.val = c /\ a = y.key + 1
    <3>1. ~(Was(i) /\ Was(j))
      BY <1>4, <2>1 DEF Once
    <3>2. \E y \in put : y.val = c
      BY <2>1, <3>1
    <3> PICK p \in put : p.val = c
      BY <3>2
    <3>3. \A y \in put : y.val = c => y = p
      <4> SUFFICES ASSUME NEW y \in put, y.val = c PROVE y = p
        OBVIOUS
      <4> PICK a \in 1 .. n : pairs[a] = p
        BY <2>1
      <4> PICK b \in 1 .. n : pairs[b] = y
        BY <2>1
      <4>1. a # b => pairs[b].val # pairs[a].val
        BY <1>4 DEF PairsApart
      <4> QED
        BY <4>1
    <3>4. ~(i = p.key + 1 /\ j = p.key + 1)
      OBVIOUS
    <3>5. (Was(i) \/ i = p.key + 1) /\ (Was(j) \/ j = p.key + 1)
      BY <2>1, <3>3
    <3> PICK b \in {i, j} : Was(b) /\ b # p.key + 1
      BY <3>1, <3>4, <3>5
    <3>6. b \in 1 .. Len(tq) /\ tq[b] = c /\ b \in 1 .. Len(q) /\ q[b] = c
      BY <2>1
    <3>7. put = {p}
      BY <2>8, <3>6 DEF Holds
    <3>8. OnceBut(tq, b)
      <4> SUFFICES ASSUME NEW x \in (1 .. Len(tq)) \ {b}, NEW y \in (1 .. Len(tq)) \ {b},
                          tq[x] = tq[y], tq[x] \in Kids
                   PROVE  x = y
        BY DEF OnceBut
      <4>1. x = p.key + 1 \/ (x <= Len(q) /\ q[x] = tq[x])
        BY <2>1, <3>7
      <4>2. y = p.key + 1 \/ (y <= Len(q) /\ q[y] = tq[y])
        BY <2>1, <3>7
      <4>3. ASSUME x # p.key + 1 PROVE tq[x] # c /\ x \in 1 .. Len(q) /\ q[x] = tq[x]
        BY ONLY <1>4, <2>1, <3>6, <4>1, <4>3 DEF Once
      <4>4. ASSUME y # p.key + 1 PROVE tq[y] # c /\ y \in 1 .. Len(q) /\ q[y] = tq[y]
        BY ONLY <1>4, <2>1, <3>6, <4>2, <4>4 DEF Once
      <4>5. x = p.key + 1 => tq[x] = c
        BY <2>3
      <4>6. y = p.key + 1 => tq[y] = c
        BY <2>3
      <4>7. CASE x = p.key + 1
        BY <4>4, <4>5, <4>7
      <4>8. CASE x # p.key + 1
        <5>1. y # p.key + 1
          BY <4>3, <4>6, <4>8
        <5> QED
          BY <1>4, <4>3, <4>4, <4>8, <5>1 DEF Once
      <4> QED
        BY <4>7, <4>8
    <3> QED
      BY <3>6, <3>7, <3>8 DEF OneTwice
  <2> QED
    BY <2>1, <2>4, <2>5, <2>6, <2>7, <2>9
<1> QED
  BY <1>2, <1>4

-----------------------------------------------------------------------------
(* The calls. *)

Agreed == \A a \in Arrays : Agrees(items[a], a, parent)

(* From the arrays but on, nodes that are another's now are missing.       *)
OthersShed(on) ==
  \A b \in Arrays \ {on} : IsWithout(items'[b], items[b], {c \in Kids : parent'[c] # b})
OneMayGrow == \E on \in Arrays : OthersShed(on)

(* Before a call nothing is missing. *)
LEMMA NothingShed ==
  ASSUME TypeOK, Agreed, NEW s, s.parent = parent, NEW a \in Arrays, s.items[a] = items[a]
  PROVE  Shed(s, a)
<1>1. items[a] \in Seq(Items)
  BY DEF TypeOK
<1>2. \A n \in 1 .. Len(items[a]) : items[a][n] \notin Elsewhere(a, parent)
  <2> SUFFICES ASSUME NEW n \in 1 .. Len(items[a]), NEW c \in Kids, items[a][n] = c PROVE parent[c] = a
    BY DEF Elsewhere
  <2>1. Holds(items[a], c)
    BY DEF Holds
  <2> QED
    BY <2>1 DEF Agreed, Agrees
<1> QED
  BY <1>1, <1>2, WithoutNone DEF Shed

LEMMA CallIs ==
  ASSUME NEW c \in Calls
  PROVE  /\ c.op # "ParentSet" => c.on \in Arrays
         /\ c.op \in {"Set", "Insert", "CompareExchange"} => c.key \in Indexes /\ c.val \in Content
         /\ c.op = "Erase" => c.key \in Indexes
         /\ c.op = "BulkErase" => c.keys \in Seq(Indexes)
         /\ c.op = "KeyChange" => c.from \in Indexes /\ c.to \in Indexes
         /\ c.op = "ParentSet" => c.child \in Kids /\ c.into \in Arrays \cup {NoNode}
         /\ c.op \in {"BulkSet", "BulkInsert"} =>
              /\ c.pairs \in Seq(Pairs)
              /\ \A i, j \in 1 .. Len(c.pairs) :
                   c.pairs[i].val = c.pairs[j].val /\ i # j => c.pairs[i].val \notin Kids
         /\ c.op = "BulkInsertAt" => c.key \in Indexes /\ c.vals \in Seq(Items)
         /\ c.op = "ForEach" => c.from \in Indexes \cup {NoKey} /\ c.to \in Scalars
<1>1. CASE c \in [op : {"Set", "Insert"}, on : Arrays, key : Indexes, val : Content]
  BY <1>1
<1>2. CASE c \in [op : {"CompareExchange"}, on : Arrays, key : Indexes, val : Content, expected : Items]
  BY <1>2
<1>3. CASE c \in [op : {"Erase"}, on : Arrays, key : Indexes]
  BY <1>3
<1>4. CASE c \in [op : {"BulkErase"}, on : Arrays, keys : Seq(Indexes)]
  BY <1>4
<1>5. CASE c \in [op : {"Clear"}, on : Arrays]
  BY <1>5
<1>6. CASE c \in [op : {"KeyChange"}, on : Arrays, from : Indexes, to : Indexes]
  BY <1>6
<1>7. CASE c \in [op : {"ParentSet"}, child : Kids, into : Arrays \cup {NoNode}]
  BY <1>7
<1>8. CASE c \in {b \in [op : {"BulkSet", "BulkInsert"}, on : Arrays,
                         pairs : Seq([key : Indexes, val : Content])] :
                     NoNodeTwice([i \in DOMAIN b.pairs |-> b.pairs[i].val])}
  <2>1. c.op \in {"BulkSet", "BulkInsert"} /\ c.on \in Arrays
    BY <1>8
  <2> PICK ps : ps = c.pairs
    OBVIOUS
  <2>2. ps \in Seq(Pairs) /\ NoNodeTwice([i \in DOMAIN ps |-> ps[i].val])
    BY <1>8 DEF Pairs
  <2>3. \A i, j \in 1 .. Len(ps) : ps[i].val = ps[j].val /\ i # j => ps[i].val \notin Kids
    <3> PICK vs : vs = [i \in DOMAIN ps |-> ps[i].val]
      OBVIOUS
    <3>1. DOMAIN ps = 1 .. Len(ps) /\ DOMAIN vs = 1 .. Len(ps) /\ \A i \in 1 .. Len(ps) : vs[i] = ps[i].val
      BY <2>2
    <3>2. \A i, j \in DOMAIN vs : vs[i] = vs[j] /\ i # j => vs[i] \notin Kids
      BY <2>2 DEF NoNodeTwice
    <3> QED
      BY <3>1, <3>2
  <2> QED
    BY <2>1, <2>2, <2>3
<1>9. CASE c \in {b \in [op : {"BulkInsertAt"}, on : Arrays, key : Indexes, vals : Seq(Content)] :
                     NoNodeTwice(b.vals)}
  <2>1. c.op = "BulkInsertAt" /\ c.on \in Arrays /\ c.key \in Indexes /\ c.vals \in Seq(Content)
    BY <1>9
  <2>2. c.vals \in Seq(Items)
    BY <2>1, Sorts
  <2> QED
    BY <2>1, <2>2
<1>10. CASE c \in [op : {"ForEach"}, on : Arrays, from : Indexes \cup {NoKey},
                   erase : SUBSET Content, assign : SUBSET Content, to : Scalars]
  BY <1>10
<1> QED
  BY <1>1, <1>2, <1>3, <1>4, <1>5, <1>6, <1>7, <1>8, <1>9, <1>10 DEF Calls

(* An array that nobody watches refuses nothing. *)
LEMMA Unwatched ==
  ASSUME NEW a, a \notin Watched, NEW refused \in Refusals(a)
  PROVE  refused = {}
  BY DEF Refusals

LEMMA HoldingIs ==
  ASSUME TypeOK, NEW on \in Arrays, NEW q \in Seq(Items), NEW s, s = Holding(on, q)
  PROVE  /\ s \in States /\ s.items[on] = q /\ s.parent = parent
         /\ Agreed => Around(s, on)
<1>1. s = [items |-> [items EXCEPT ![on] = q], parent |-> parent]
  BY DEF Holding
<1>2. /\ [items EXCEPT ![on] = q] \in [Arrays -> Seq(Items)]
      /\ [items EXCEPT ![on] = q][on] = q
      /\ \A a \in Arrays \ {on} : [items EXCEPT ![on] = q][a] = items[a]
  BY DEF TypeOK
<1>3. s \in States
  BY <1>1, <1>2 DEF States, TypeOK
<1>4. Agreed => Around(s, on)
  <2> SUFFICES ASSUME Agreed, NEW a \in Arrays \ {on} PROVE Agrees(s.items[a], a, s.parent) /\ Shed(s, a)
    BY DEF Around
  <2>1. s.items[a] = items[a] /\ s.parent = parent
    BY <1>1, <1>2
  <2> QED
    BY <2>1, NothingShed DEF Agreed
<1> QED
  BY <1>1, <1>2, <1>3, <1>4

(* A call may end where all arrays agree with the parents. *)
LEMMA Ends ==
  ASSUME NEW s \in States, NEW on \in Arrays \cup {NoNode}, Become(s)
  PROVE  /\ TypeOK'
         /\ Around(s, on) /\ (on \in Arrays => Agrees(s.items[on], on, s.parent)) =>
              Agreed' /\ (Arrays # {} => OneMayGrow)
<1>1. items' = s.items /\ parent' = s.parent
  BY DEF Become
<1>2. TypeOK'
  BY <1>1 DEF TypeOK, States
<1>3. ASSUME Around(s, on), on \in Arrays => Agrees(s.items[on], on, s.parent)
      PROVE  Agreed' /\ (Arrays # {} => OneMayGrow)
  <2>1. \A a \in Arrays : Agrees(s.items[a], a, s.parent)
    BY <1>3 DEF Around
  <2>2. Agreed'
    BY <1>1, <2>1 DEF Agreed, Agrees
  <2>3. ASSUME NEW b \in Arrays \ {on}
        PROVE  IsWithout(items'[b], items[b], {c \in Kids : parent'[c] # b})
    <3>1. IsWithout(s.items[b], items[b], Elsewhere(b, s.parent))
      BY <1>3, <2>3 DEF Around, Shed
    <3>2. Elsewhere(b, s.parent) = {c \in Kids : parent'[c] # b}
      BY <1>1 DEF Elsewhere
    <3> QED
      BY <1>1, <3>1, <3>2
  <2>4. OthersShed(on)
    BY <2>3 DEF OthersShed
  <2>5. CASE on \in Arrays
    BY <2>2, <2>4, <2>5 DEF OneMayGrow
  <2>6. CASE on \notin Arrays
    <3>1. \A a \in Arrays : OthersShed(a)
      BY <2>4, <2>6 DEF OthersShed
    <3> QED
      BY <2>2, <3>1 DEF OneMayGrow
  <2> QED
    BY <2>5, <2>6
<1> QED
  BY <1>2, <1>3

LEMMA NothingDoes ==
  ASSUME TypeOK, Nothing
  PROVE  TypeOK' /\ (Agreed => Agreed')
  BY DEF Nothing, vars, TypeOK, Agreed, Agrees

LEMMA SetDoes ==
  ASSUME TypeOK, NEW c \in Calls, NEW refused \in Refusals(AskedOn(c)), Set(c, refused)
  PROVE  TypeOK' /\ (Agreed /\ IsCareful(c) => Agreed' /\ (Nothing \/ OneMayGrow))
<1>1. c.op = "Set"
  BY DEF Set
<1> PICK on \in Arrays, k \in Indexes, v \in Content : on = c.on /\ k = c.key /\ v = c.val
  BY <1>1, CallIs
<1> PICK q \in Seq(Items) : q = items[on]
  BY DEF TypeOK
<1> PICK r : r = SetAt(q, k, v, refused)
  OBVIOUS
<1>2. r \in [done : BOOLEAN, q : Seq(Items), old : Items] /\ v \in Items
  BY SetAtIs, Sorts
<1> PICK rq \in Seq(Items), old \in Items : rq = r.q /\ old = r.old
  BY <1>2
<1>3. CASE ~r.done
  <2> PICK s : s = Holding(on, rq)
    OBVIOUS
  <2>1. Become(s)
    BY <1>3 DEF Set
  <2>2. s \in States /\ s.items[on] = rq /\ s.parent = parent /\ (Agreed => Around(s, on))
    BY HoldingIs
  <2>3. rq = Grown(q, k)
    BY <1>3, SetAtIs
  <2>4. ASSUME Agreed PROVE Agrees(rq, on, parent)
    BY <2>3, <2>4, GrownHolds DEF Agreed, Agrees
  <2> QED
    BY <2>1, <2>2, <2>4, Ends
<1>4. CASE r.done
  <2> PICK t : t = IF v \in Kids THEN RemoveDuplicates(rq, v, k) ELSE rq
    OBVIOUS
  <2>1. t \in Seq(Items)
    BY RemoveDuplicatesTyped
  <2> PICK s0 \in States : s0 = Holding(on, t)
    BY <2>1, HoldingIs
  <2> PICK s1 \in States : s1 = Orphan(s0, old)
    BY OrphanDoes
  <2> PICK s2 \in States : s2 = Adopt(s1, on, v)
    BY <1>2, AdoptDoes
  <2>2. Become(s2)
    BY <1>4 DEF Set
  <2>3. s0.items[on] = t /\ s0.parent = parent /\ (Agreed => Around(s0, on))
    BY ONLY TypeOK, on \in Arrays, t \in Seq(Items), s0 = Holding(on, t), <2>1, HoldingIs
  <2>6. ASSUME Agreed, IsCareful(c) PROVE Around(s2, on) /\ Agrees(s2.items[on], on, s2.parent)
    <3>1. Once(q) /\ \A w \in Kids : Holds(q, w) <=> parent[w] = on
      BY <2>6 DEF Agreed, Agrees
    <3>2. v \in Kids => k # kIdxLast
      BY <1>1, <2>6 DEF IsCareful, AskedOn
    <3>3. /\ Once(t) /\ \A w \in Kids : Holds(t, w) <=> (Holds(q, w) /\ w # old) \/ w = v
          /\ old # v /\ (old \in Kids => Holds(q, old))
      <4>1. CASE v \in Kids
        BY <1>4, <3>1, <3>2, <4>1, SetIsTidied
      <4>2. CASE v \notin Kids
        <5>1. t = rq
          BY <4>2
        <5>2. old # v
          <6> PICK g, p : g = Grown(q, k) /\ p = Find(g, k)
            OBVIOUS
          <6>1. r.done => g[p] # v /\ r.old = g[p]
            BY ONLY q \in Seq(Items), k \in Indexes, v \in Content, r = SetAt(q, k, v, refused),
                    g = Grown(q, k), p = Find(g, k), SetAtIs
          <6> QED
            BY <1>4, <6>1
        <5> QED
          BY <1>4, <3>1, <4>2, <5>1, <5>2, SetAtHolds
      <4> QED
        BY <4>1, <4>2
    <3>4. /\ Around(s1, on) /\ s1.items[on] = t
          /\ \A w \in Kids : s1.parent[w] = IF w = old THEN NoNode ELSE parent[w]
      <4>1. old \in Kids => s0.parent[old] = on
        BY <2>3, <3>1, <3>3
      <4>2. Around(s0, on) /\ (old \in Kids => s0.parent[old] = on) =>
              /\ Around(s1, on) /\ s1.items[on] = s0.items[on]
              /\ \A w \in Kids : s1.parent[w] = IF w = old THEN NoNode ELSE s0.parent[w]
        BY ONLY s0 \in States, on \in Arrays, old \in Items, s1 = Orphan(s0, old), OrphanDoes
      <4> QED
        BY ONLY <2>3, <2>6, <4>1, <4>2
    <3>5. /\ Around(s2, on) /\ s2.items[on] = t
          /\ \A w \in Kids : s2.parent[w] = IF w = v THEN on ELSE s1.parent[w]
      <4>1. Around(s1, on) =>
              /\ Around(s2, on) /\ s2.items[on] = s1.items[on]
              /\ \A w \in Kids : s2.parent[w] = IF w = v THEN on ELSE s1.parent[w]
        BY ONLY s1 \in States, on \in Arrays, <1>2, s2 = Adopt(s1, on, v), AdoptDoes
      <4> QED
        BY <3>4, <4>1
    <3>6. \A w \in Kids : Holds(t, w) <=> s2.parent[w] = on
      BY ONLY <3>1, <3>3, <3>4, <3>5, on \in Arrays, Sorts
    <3> QED
      BY ONLY <3>3, <3>5, <3>6 DEF Agrees
  <2> QED
    BY <2>2, <2>6, Ends
<1> QED
  BY <1>2, <1>3, <1>4

LEMMA InsertDoes ==
  ASSUME TypeOK, NEW c \in Calls, NEW refused \in Refusals(AskedOn(c)), Insert(c, refused)
  PROVE  TypeOK' /\ (Agreed /\ IsCareful(c) => Agreed' /\ (Nothing \/ OneMayGrow))
<1>1. c.op = "Insert"
  BY DEF Insert
<1> PICK on \in Arrays, k \in Indexes, v \in Content : on = c.on /\ k = c.key /\ v = c.val
  BY <1>1, CallIs
<1> PICK q \in Seq(Items) : q = items[on]
  BY DEF TypeOK
<1>2. CASE Nothing
  BY <1>2, NothingDoes
<1>3. CASE ~Nothing
  <2> PICK t : t = EmplaceAt(q, k, v)
    OBVIOUS
  <2>1. v \in Items
    BY Sorts
  <2> PICK p \in 1 .. (Len(q) + 1) : t = InsertAt(q, p, v) /\ t \in Seq(Items)
    BY <2>1, EmplaceAtTyped
  <2> PICK s0 : s0 = Holding(on, t)
    OBVIOUS
  <2> PICK s1 : s1 = Adopt(s0, on, v)
    OBVIOUS
  <2>2. Become(s1) /\ ~(v \in Kids /\ Has(q, v))
    BY <1>3 DEF Insert
  <2>3. s0 \in States /\ s0.items[on] = t /\ s0.parent = parent /\ (Agreed => Around(s0, on))
    BY HoldingIs
  <2>4. s1 \in States
    BY <2>1, <2>3, AdoptDoes
  <2>5. ASSUME Agreed PROVE Around(s1, on) /\ Agrees(s1.items[on], on, s1.parent)
    <3>1. Once(q) /\ \A w \in Kids : Holds(q, w) <=> parent[w] = on
      BY <2>5 DEF Agreed, Agrees
    <3>2. v \in Kids => ~Holds(q, v)
      BY <2>2, HasIs
    <3>3. Once(t) /\ \A w \in Kids : Holds(t, w) <=> Holds(q, w) \/ w = v
      BY <2>1, <3>1, <3>2, InsertAtHolds
    <3>4. /\ Around(s1, on) /\ s1.items[on] = t
          /\ \A w \in Kids : s1.parent[w] = IF w = v THEN on ELSE parent[w]
      BY <2>1, <2>3, <2>5, AdoptDoes
    <3>5. \A w \in Kids : Holds(t, w) <=> s1.parent[w] = on
      BY <3>1, <3>3, <3>4
    <3> QED
      BY <3>3, <3>4, <3>5 DEF Agrees
  <2> QED
    BY <2>2, <2>4, <2>5, Ends
<1> QED
  BY <1>2, <1>3

LEMMA CompareExchangeDoes ==
  ASSUME TypeOK, NEW c \in Calls, NEW refused \in Refusals(AskedOn(c)), CompareExchange(c, refused)
  PROVE  TypeOK' /\ (Agreed /\ IsCareful(c) => Agreed' /\ (Nothing \/ OneMayGrow))
<1>1. c.op = "CompareExchange"
  BY DEF CompareExchange
<1> PICK on \in Arrays, k \in Indexes, v \in Content : on = c.on /\ k = c.key /\ v = c.val
  BY <1>1, CallIs
<1> PICK q \in Seq(Items) : q = items[on]
  BY DEF TypeOK
<1> PICK p \in 0 .. Len(q) : p = Find(q, k)
  BY FindIs
<1> PICK r : r = SetAt(q, k, v, refused)
  OBVIOUS
<1>2. r \in [done : BOOLEAN, q : Seq(Items), old : Items] /\ v \in Items
  BY SetAtIs, Sorts
<1> PICK t : t = IF p # 0 THEN ReplaceAt(q, p, v) ELSE r.q
  OBVIOUS
<1>3. t \in Seq(Items)
  <2>1. p # 0 => ReplaceAt(q, p, v) \in Seq(Items)
    BY <1>2 DEF ReplaceAt
  <2> QED
    BY <1>2, <2>1
<1>4. CASE Nothing
  BY <1>4, NothingDoes
<1>5. CASE ~Nothing
  <2> PICK s0 \in States : s0 = Holding(on, t)
    BY <1>3, HoldingIs
  <2> PICK s1 \in States : s1 = Adopt(s0, on, v)
    BY <1>2, AdoptDoes
  <2>1. Become(s1) /\ c.expected = (IF p # 0 THEN q[p] ELSE Empty) /\ (p = 0 \/ v \notin refused)
    BY <1>5 DEF CompareExchange
  <2>2. s0.items[on] = t /\ s0.parent = parent /\ (Agreed => Around(s0, on))
    BY <1>3, HoldingIs
  <2>3. ASSUME Agreed, IsCareful(c) PROVE Around(s1, on) /\ Agrees(s1.items[on], on, s1.parent)
    <3>1. Once(q) /\ \A w \in Kids : Holds(q, w) <=> parent[w] = on
      BY <2>3 DEF Agreed, Agrees
    <3>2. /\ c.expected \notin Kids
          /\ v \in Kids => ~Has(q, v) /\ Find(Grown(q, k), k) # 0 /\ (on \in Watched => p # 0)
      BY <1>1, <2>3 DEF IsCareful, AskedOn
    <3>3. v \in Kids => ~Holds(q, v)
      BY <3>2, HasIs
    <3>4. Once(t) /\ \A w \in Kids : Holds(t, w) <=> Holds(q, w) \/ w = v
      <4>1. CASE p # 0
        <5>1. t = ReplaceAt(q, p, v) /\ q[p] \notin Kids /\ p \in 1 .. Len(q)
          BY <2>1, <3>2, <4>1
        <5>2. Once(ReplaceAt(q, p, v)) /\
              \A w \in Kids : Holds(ReplaceAt(q, p, v), w) <=> (Holds(q, w) /\ w # q[p]) \/ w = v
          BY ONLY q \in Seq(Items), <1>2, <3>1, <3>3, <5>1, ReplaceAtHolds
        <5> QED
          BY <5>1, <5>2
      <4>2. CASE p = 0
        <5> PICK g, a : g = Grown(q, k) /\ a = Find(g, k)
          OBVIOUS
        <5>1. /\ a # 0 => a \in 1 .. Len(g) /\ g[a] = Empty
          <6>1. /\ g \in Seq(Items) /\ \A j \in 1 .. Len(g) : g[j] = IF j <= Len(q) THEN q[j] ELSE Empty
                /\ a # 0 => a > Len(q)
            BY ONLY <4>2, q \in Seq(Items), k \in Indexes, p = Find(q, k), g = Grown(q, k),
                    a = Find(g, k), GrownIs
          <6>2. a \in 0 .. Len(g)
            BY <6>1, FindIs
          <6> QED
            BY <6>1, <6>2
        <5>2. /\ r.done => a \in 1 .. Len(g) /\ r.old = g[a]
              /\ a # 0 /\ v \notin refused /\ g[a] # v => r.done
          BY ONLY q \in Seq(Items), k \in Indexes, v \in Content, r = SetAt(q, k, v, refused),
                  g = Grown(q, k), a = Find(g, k), SetAtIs
        <5>3. v \in Kids => r.done
          <6>1. v \in Kids => a # 0 /\ v \notin refused
            BY <1>1, <3>2, <4>2, Unwatched DEF AskedOn
          <6> QED
            BY <5>1, <5>2, <6>1, Sorts
        <5>4. /\ Once(r.q)
              /\ ~r.done => \A w \in Kids : Holds(r.q, w) <=> Holds(q, w)
              /\ r.done => \A w \in Kids : Holds(r.q, w) <=> (Holds(q, w) /\ w # r.old) \/ w = v
          BY ONLY q \in Seq(Items), k \in Indexes, v \in Content, r = SetAt(q, k, v, refused),
                  <3>1, <3>3, SetAtHolds
        <5>5. r.done => r.old \notin Kids
          BY <5>1, <5>2, Sorts
        <5>6. t = r.q
          BY <4>2
        <5> QED
          BY ONLY <5>3, <5>4, <5>5, <5>6
      <4> QED
        BY <4>1, <4>2
    <3>5. /\ Around(s1, on) /\ s1.items[on] = t
          /\ \A w \in Kids : s1.parent[w] = IF w = v THEN on ELSE parent[w]
      <4>1. Around(s0, on) =>
              /\ Around(s1, on) /\ s1.items[on] = s0.items[on]
              /\ \A w \in Kids : s1.parent[w] = IF w = v THEN on ELSE s0.parent[w]
        BY ONLY s0 \in States, on \in Arrays, <1>2, s1 = Adopt(s0, on, v), AdoptDoes
      <4> QED
        BY <2>2, <2>3, <4>1
    <3>6. \A w \in Kids : Holds(t, w) <=> s1.parent[w] = on
      BY ONLY <3>1, <3>4, <3>5
    <3> QED
      BY ONLY <3>4, <3>5, <3>6 DEF Agrees
  <2> QED
    BY <2>1, <2>3, Ends
<1> QED
  BY <1>4, <1>5

LEMMA EraseDoes ==
  ASSUME TypeOK, NEW c \in Calls, NEW refused \in Refusals(AskedOn(c)), Erase(c, refused)
  PROVE  TypeOK' /\ (Agreed /\ IsCareful(c) => Agreed' /\ (Nothing \/ OneMayGrow))
<1>1. c.op = "Erase"
  BY DEF Erase
<1> PICK on \in Arrays, k \in Indexes : on = c.on /\ k = c.key
  BY <1>1, CallIs
<1> PICK q \in Seq(Items) : q = items[on]
  BY DEF TypeOK
<1> PICK p \in 0 .. Len(q) : p = Find(q, k)
  BY FindIs
<1>2. CASE Nothing
  BY <1>2, NothingDoes
<1>3. CASE ~Nothing
  <2>1. p \in 1 .. Len(q) /\ Become(Leave(Holding(on, RemoveAt(q, p)), q[p]))
    BY <1>3 DEF Erase
  <2> PICK old \in Items : old = q[p]
    BY <2>1
  <2> PICK t \in Seq(Items) : t = RemoveAt(q, p)
    BY <2>1, RemoveAtIs
  <2> PICK s0 \in States : s0 = Holding(on, t)
    BY HoldingIs
  <2> PICK s1 \in States : s1 = Leave(s0, old)
    BY LeaveTyped
  <2>2. s0.items[on] = t /\ s0.parent = parent /\ (Agreed => Around(s0, on))
    BY HoldingIs
  <2>3. ASSUME Agreed PROVE Around(s1, on) /\ Agrees(s1.items[on], on, s1.parent)
    <3>1. Once(q) /\ \A w \in Kids : Holds(q, w) <=> parent[w] = on
      BY <2>3 DEF Agreed, Agrees
    <3>2. Once(t) /\ \A w \in Kids : Holds(t, w) <=> Holds(q, w) /\ w # old
      BY <2>1, <3>1, RemovedIsGone
    <3>3. /\ Around(s1, on) /\ s1.items[on] = t
          /\ \A w \in Kids : s1.parent[w] = IF w = old THEN NoNode ELSE parent[w]
      <4>1. Around(s0, on) /\ (old \in Kids => ~Holds(s0.items[on], old)) =>
              /\ Around(s1, on) /\ s1.items[on] = s0.items[on]
              /\ \A w \in Kids : s1.parent[w] = IF w = old THEN NoNode ELSE s0.parent[w]
        BY ONLY s0 \in States, on \in Arrays, old \in Items, s1 = Leave(s0, old), LeaveDoes
      <4> QED
        BY ONLY <2>2, <2>3, <3>2, <4>1
    <3>4. \A w \in Kids : Holds(t, w) <=> s1.parent[w] = on
      BY ONLY <3>1, <3>2, <3>3, on \in Arrays, Sorts
    <3> QED
      BY ONLY <3>2, <3>3, <3>4 DEF Agrees
  <2> QED
    BY <2>1, <2>3, Ends
<1> QED
  BY <1>2, <1>3

LEMMA BulkEraseDoes ==
  ASSUME TypeOK, NEW c \in Calls, BulkErase(c)
  PROVE  TypeOK' /\ (Agreed /\ IsCareful(c) => Agreed' /\ (Nothing \/ OneMayGrow))
<1>1. c.op = "BulkErase"
  BY DEF BulkErase
<1> PICK on \in Arrays, keys \in Seq(Indexes) : on = c.on /\ keys = c.keys
  BY <1>1, CallIs
<1> PICK q \in Seq(Items) : q = items[on]
  BY DEF TypeOK
<1> PICK r : r = EraseAll(q, keys)
  OBVIOUS
<1>2. r \in Erased
  BY EraseAllDoes
<1> PICK t \in Seq(Items), out \in Seq(Items) : t = r.q /\ out = r.out
  BY <1>2 DEF Erased
<1> PICK s0 \in States : s0 = Holding(on, t)
  BY HoldingIs
<1> PICK s1 \in States : s1 = LeaveAll(s0, out)
  BY LeaveAllDoes
<1>3. Become(s1)
  BY DEF BulkErase
<1>4. s0.items[on] = t /\ s0.parent = parent /\ (Agreed => Around(s0, on))
  BY HoldingIs
<1>5. ASSUME Agreed PROVE Around(s1, on) /\ Agrees(s1.items[on], on, s1.parent)
  <2>1. Once(q) /\ \A w \in Kids : Holds(q, w) <=> parent[w] = on
    BY <1>5 DEF Agreed, Agrees
  <2>2. /\ Once(t) /\ \A w \in Kids : Holds(t, w) <=> Holds(q, w) /\ ~Holds(out, w)
    BY <2>1, EraseAllDoes
  <2>3. /\ Around(s1, on) /\ s1.items[on] = t
        /\ \A w \in Kids : s1.parent[w] = IF Holds(out, w) THEN NoNode ELSE parent[w]
    <3>1. NoneOf(out, t)
      BY <2>2 DEF Holds, NoneOf
    <3>2. Around(s0, on) /\ NoneOf(out, s0.items[on])
      BY <1>4, <1>5, <3>1
    <3>3. /\ Around(s1, on) /\ s1.items[on] = s0.items[on]
          /\ \A w \in Kids : s1.parent[w] = IF Holds(out, w) THEN NoNode ELSE s0.parent[w]
      BY ONLY s0 \in States, on \in Arrays, out \in Seq(Items), s1 = LeaveAll(s0, out), <3>2, LeaveAllDoes
    <3> QED
      BY ONLY <1>4, <3>3
  <2>4. \A w \in Kids : Holds(t, w) <=> s1.parent[w] = on
    BY ONLY <2>1, <2>2, <2>3, on \in Arrays, Sorts
  <2> QED
    BY ONLY <2>2, <2>3, <2>4 DEF Agrees
<1> QED
  BY <1>3, <1>5, Ends

LEMMA ClearDoes ==
  ASSUME TypeOK, NEW c \in Calls, Clear(c)
  PROVE  TypeOK' /\ (Agreed /\ IsCareful(c) => Agreed' /\ (Nothing \/ OneMayGrow))
<1>1. c.op = "Clear"
  BY DEF Clear
<1> PICK on \in Arrays : on = c.on
  BY <1>1, CallIs
<1> PICK q \in Seq(Items) : q = items[on]
  BY DEF TypeOK
<1>0. <<>> \in Seq(Items)
  OBVIOUS
<1> PICK t \in Seq(Items) : t = <<>>
  BY <1>0
<1> PICK s0 \in States : s0 = Holding(on, t)
  BY HoldingIs
<1> PICK s1 \in States : s1 = LeaveAll(s0, q)
  BY LeaveAllDoes
<1>2. Become(s1)
  BY DEF Clear
<1>3. s0.items[on] = t /\ s0.parent = parent /\ (Agreed => Around(s0, on))
  BY ONLY TypeOK, on \in Arrays, t \in Seq(Items), s0 = Holding(on, t), HoldingIs
<1>4. Once(t) /\ \A w : ~Holds(t, w)
  BY DEF Once, Holds
<1>5. ASSUME Agreed PROVE Around(s1, on) /\ Agrees(s1.items[on], on, s1.parent)
  <2>1. \A w \in Kids : Holds(q, w) <=> parent[w] = on
    BY <1>5 DEF Agreed, Agrees
  <2>2. /\ Around(s1, on) /\ s1.items[on] = t
        /\ \A w \in Kids : s1.parent[w] = IF Holds(q, w) THEN NoNode ELSE parent[w]
    <3>1. Around(s0, on) /\ NoneOf(q, s0.items[on])
      BY <1>3, <1>4, <1>5 DEF NoneOf
    <3>2. /\ Around(s1, on) /\ s1.items[on] = s0.items[on]
          /\ \A w \in Kids : s1.parent[w] = IF Holds(q, w) THEN NoNode ELSE s0.parent[w]
      BY ONLY s0 \in States, on \in Arrays, q \in Seq(Items), s1 = LeaveAll(s0, q), <3>1, LeaveAllDoes
    <3> QED
      BY ONLY <1>3, <3>2
  <2>3. \A w \in Kids : Holds(t, w) <=> s1.parent[w] = on
    BY ONLY <1>4, <2>1, <2>2, on \in Arrays, Sorts
  <2> QED
    BY ONLY <1>4, <2>2, <2>3 DEF Agrees
<1> QED
  BY <1>2, <1>5, Ends

(* What is moved is stored behind the others, which close up, with empty   *)
(* values between; or nothing changes.                                     *)
MovedFrom(q, p, to, m) ==
  /\ to \in Nat /\ to >= Len(q) /\ m \in Seq(Items) /\ Len(m) = to + 1
  /\ \A j \in 1 .. (to + 1) :
       m[j] = IF j = to + 1 THEN q[p]
              ELSE IF j < Len(q) THEN IF j < p THEN q[j] ELSE q[j + 1]
              ELSE Empty

LEMMA MovedIs ==
  ASSUME NEW q \in Seq(Items), NEW from \in Indexes, NEW to \in Indexes, NEW refused,
         NEW m, m = Moved(q, from, to, refused)
  PROVE  /\ m \in Seq(Items)
         /\ CanMoveTo(q, to) => m = q \/ \E p \in 1 .. Len(q) : MovedFrom(q, p, to, m)
<1> PICK p \in 0 .. Len(q) : p = Find(q, from)
  BY FindIs
<1>1. CASE Find(q, to) # 0 \/ p = 0 \/ Empty \in refused
  BY <1>1 DEF Moved
<1>2. CASE ~(Find(q, to) # 0 \/ p = 0 \/ Empty \in refused)
  <2>1. p \in 1 .. Len(q) /\ Find(q, to) = 0 /\ Len(q) \in Nat
    BY <1>2
  <2> PICK v \in Items : v = q[p]
    BY <2>1
  <2> PICK u \in Seq(Items) : u = RemoveAt(q, p)
    BY <2>1, RemoveAtIs
  <2>2. m = SetAt(u, to, v, {}).q
    BY <1>2 DEF Moved
  <2> PICK g \in Seq(Items) : g = Grown(u, to)
    BY GrownIs
  <2> PICK a \in 0 .. Len(g) : a = Find(g, to)
    BY FindIs
  <2>3. m = IF a = 0 \/ g[a] = v THEN g ELSE ReplaceAt(g, a, v)
    <3>1. CASE a = 0 \/ g[a] = v
      <4>1. SetAt(u, to, v, {}) = [done |-> FALSE, q |-> g, old |-> Empty]
        BY <3>1 DEF SetAt
      <4> QED
        BY <2>2, <3>1, <4>1
    <3>2. CASE ~(a = 0 \/ g[a] = v)
      <4>1. SetAt(u, to, v, {}) = [done |-> TRUE, q |-> ReplaceAt(g, a, v), old |-> g[a]]
        BY <3>2 DEF SetAt
      <4> QED
        BY <2>2, <3>2, <4>1
    <3> QED
      BY <3>1, <3>2
  <2>4. a # 0 => /\ ReplaceAt(g, a, v) \in Seq(Items) /\ Len(ReplaceAt(g, a, v)) = Len(g)
                 /\ \A j \in 1 .. Len(g) : ReplaceAt(g, a, v)[j] = IF j = a THEN v ELSE g[j]
    BY DEF ReplaceAt
  <2>5. m \in Seq(Items)
    BY <2>3, <2>4
  <2>6. ASSUME CanMoveTo(q, to) PROVE MovedFrom(q, p, to, m)
    <3>1. /\ Len(u) = Len(q) - 1
          /\ \A j \in 1 .. (Len(q) - 1) : u[j] = IF j < p THEN q[j] ELSE q[j + 1]
      BY ONLY q \in Seq(Items), <2>1, u = RemoveAt(q, p), RemoveAtIs
    <3>2. to \in Nat /\ to >= Len(q)
      <4>1. /\ to \in Nat => Find(q, to) = IF to < Len(q) THEN to + 1 ELSE 0
            /\ to = kIdxLast => Find(q, to) = Len(q)
        BY FindIs
      <4> QED
        BY <2>1, <2>6, <4>1 DEF Indexes, CanMoveTo
    <3>3. to - Len(u) \in 0 .. (MaxIncrease - 1)
      BY <2>1, <2>6, <3>1, <3>2, ArrayAssumption DEF CanMoveTo
    <3>4. /\ Len(g) = to + 1
          /\ \A j \in 1 .. Len(g) : g[j] = IF j <= Len(u) THEN u[j] ELSE Empty
      BY ONLY u \in Seq(Items), to \in Indexes, g = Grown(u, to), <3>2, <3>3, GrownIs, ZenonT(40)
    <3>5. a = to + 1
      <4>1. to \in Nat => Find(g, to) = IF to < Len(g) THEN to + 1 ELSE 0
        BY FindIs
      <4> QED
        BY <3>2, <3>4, <4>1
    <3>6. Len(m) = to + 1 /\ \A j \in 1 .. (to + 1) : m[j] = IF j = to + 1 THEN v ELSE g[j]
      BY ONLY <2>3, <2>4, <3>2, <3>4, <3>5
    <3>7. \A j \in 1 .. (to + 1) :
            m[j] = IF j = to + 1 THEN q[p]
                   ELSE IF j < Len(q) THEN IF j < p THEN q[j] ELSE q[j + 1]
                   ELSE Empty
      <4> SUFFICES ASSUME NEW j \in 1 .. (to + 1), j # to + 1
                   PROVE  m[j] = IF j < Len(q) THEN IF j < p THEN q[j] ELSE q[j + 1] ELSE Empty
        BY <3>6
      <4>1. m[j] = IF j <= Len(q) - 1 THEN u[j] ELSE Empty
        BY <3>1, <3>4, <3>6
      <4>2. j <= Len(q) - 1 <=> j < Len(q)
        BY <2>1, <3>2
      <4>3. j <= Len(q) - 1 => u[j] = IF j < p THEN q[j] ELSE q[j + 1]
        BY <2>1, <3>1, <3>2
      <4> QED
        BY <4>1, <4>2, <4>3
    <3> QED
      BY <2>5, <3>2, <3>6, <3>7 DEF MovedFrom
  <2> QED
    BY <2>1, <2>5, <2>6
<1> QED
  BY <1>1, <1>2

LEMMA MovedHolds ==
  ASSUME NEW q \in Seq(Items), NEW p \in 1 .. Len(q), NEW to, NEW m, MovedFrom(q, p, to, m), Once(q)
  PROVE  Once(m) /\ \A c \in Kids : Holds(m, c) <=> Holds(q, c)
<1> DEFINE n == to + 1
           at(j) == IF j = n THEN p ELSE IF j < p THEN j ELSE j + 1
<1>1. /\ to \in Nat /\ n \in Nat /\ Len(q) \in Nat /\ Len(m) = n /\ n > Len(q)
      /\ \A j \in 1 .. n : m[j] = IF j = n THEN q[p]
                                  ELSE IF j < Len(q) THEN IF j < p THEN q[j] ELSE q[j + 1]
                                  ELSE Empty
  BY DEF MovedFrom
<1>2. \A j \in 1 .. n : m[j] \in Kids => at(j) \in 1 .. Len(q) /\ q[at(j)] = m[j]
  <2> SUFFICES ASSUME NEW j \in 1 .. n, m[j] \in Kids PROVE at(j) \in 1 .. Len(q) /\ q[at(j)] = m[j]
    OBVIOUS
  <2>1. CASE j = n
    BY <1>1, <2>1
  <2>2. CASE j # n
    <3>1. j < Len(q)
      BY <1>1, <2>2, Sorts
    <3>2. m[j] = IF j < p THEN q[j] ELSE q[j + 1]
      BY <1>1, <2>2, <3>1
    <3> QED
      BY <1>1, <2>2, <3>1, <3>2
  <2> QED
    BY <2>1, <2>2
<1>3. Once(m)
  <2> SUFFICES ASSUME NEW i \in 1 .. n, NEW j \in 1 .. n, m[i] = m[j], m[i] \in Kids PROVE i = j
    BY <1>1 DEF Once
  <2>1. at(i) \in 1 .. Len(q) /\ at(j) \in 1 .. Len(q) /\ q[at(i)] = q[at(j)] /\ q[at(i)] \in Kids
    BY <1>2
  <2>2. at(i) = at(j)
    <3> HIDE DEF at
    <3> QED
      BY <2>1 DEF Once
  <2> QED
    BY <1>1, <2>1, <2>2
<1>4. ASSUME NEW c \in Kids, Holds(m, c) PROVE Holds(q, c)
  <2> PICK j \in 1 .. n : m[j] = c
    BY <1>1, <1>4 DEF Holds
  <2> HIDE DEF at
  <2> QED
    BY <1>2 DEF Holds
<1>5. ASSUME NEW c \in Kids, Holds(q, c) PROVE Holds(m, c)
  <2> PICK i \in 1 .. Len(q) : q[i] = c
    BY <1>5 DEF Holds
  <2>1. CASE i = p
    <3>1. n \in 1 .. Len(m) /\ m[n] = c
      BY <1>1, <2>1
    <3> QED
      BY <3>1 DEF Holds
  <2>2. CASE i < p
    <3>1. i \in 1 .. Len(m) /\ i < Len(q) /\ i # n
      BY <1>1, <2>2
    <3>2. m[i] = c
      BY <1>1, <2>2, <3>1
    <3> QED
      BY <3>1, <3>2 DEF Holds
  <2>3. CASE i > p
    <3>1. i - 1 \in 1 .. Len(m) /\ i - 1 < Len(q) /\ i - 1 # n /\ ~(i - 1 < p)
      BY <1>1, <2>3
    <3>2. m[i - 1] = c
      BY <1>1, <2>3, <3>1
    <3> QED
      BY <3>1, <3>2 DEF Holds
  <2> QED
    BY <2>1, <2>2, <2>3
<1> QED
  BY <1>3, <1>4, <1>5

LEMMA KeyChangeDoes ==
  ASSUME TypeOK, NEW c \in Calls, NEW refused \in Refusals(AskedOn(c)), KeyChange(c, refused)
  PROVE  TypeOK' /\ (Agreed /\ IsCareful(c) => Agreed' /\ (Nothing \/ OneMayGrow))
<1>1. c.op = "KeyChange"
  BY DEF KeyChange
<1> PICK on \in Arrays, from \in Indexes, to \in Indexes : on = c.on /\ from = c.from /\ to = c.to
  BY <1>1, CallIs
<1> PICK q \in Seq(Items) : q = items[on]
  BY DEF TypeOK
<1> PICK m \in Seq(Items) : m = Moved(q, from, to, refused)
  BY MovedIs
<1> PICK s \in States : s = Holding(on, m)
  BY HoldingIs
<1>2. Become(s)
  BY DEF KeyChange
<1>3. s.items[on] = m /\ s.parent = parent /\ (Agreed => Around(s, on))
  BY ONLY TypeOK, on \in Arrays, m \in Seq(Items), s = Holding(on, m), HoldingIs
<1>4. ASSUME Agreed, IsCareful(c) PROVE Agrees(m, on, parent)
  <2>1. Once(q) /\ \A w \in Kids : Holds(q, w) <=> parent[w] = on
    BY <1>4 DEF Agreed, Agrees
  <2>2. CanMoveTo(q, to)
    BY <1>1, <1>4 DEF IsCareful, AskedOn
  <2>3. Once(m) /\ \A w \in Kids : Holds(m, w) <=> Holds(q, w)
    BY <2>1, <2>2, MovedIs, MovedHolds
  <2> QED
    BY ONLY <2>1, <2>3 DEF Agrees
<1> QED
  BY <1>2, <1>3, <1>4, Ends

LEMMA ParentSetDoes ==
  ASSUME TypeOK, NEW c \in Calls, NEW refused \in Refusals(AskedOn(c)), ParentSet(c, refused)
  PROVE  TypeOK' /\ (Agreed /\ IsCareful(c) => Agreed' /\ (Nothing \/ OneMayGrow))
<1>1. c.op = "ParentSet"
  BY DEF ParentSet
<1> PICK into \in Arrays \cup {NoNode}, v \in Kids : into = c.into /\ v = c.child
  BY <1>1, CallIs
<1>2. v \in Items
  BY Sorts
<1>3. [items |-> items, parent |-> parent] \in States
  BY DEF TypeOK, States
<1> PICK s0 \in States : s0 = [items |-> items, parent |-> parent]
  BY <1>3
<1>4. s0.items = items /\ s0.parent = parent
  OBVIOUS
<1> PICK s1 : s1 = Adopt(s0, into, v)
  OBVIOUS
<1>5. CASE Nothing
  BY <1>5, NothingDoes
<1>6. CASE into = NoNode /\ parent[v] # NoNode /\ Become(Leave(s0, v))
  <2> PICK s2 \in States : s2 = Leave(s0, v)
    BY <1>2, LeaveTyped
  <2>1. ASSUME Agreed PROVE Around(s2, NoNode)
    <3>1. Around(s0, NoNode)
      BY <1>4, <2>1, NothingShed DEF Agreed, Around
    <3>2. NoNode \notin Arrays
      BY Sorts
    <3> QED
      BY ONLY s0 \in States, <1>2, s2 = Leave(s0, v), <3>1, <3>2, LeaveDoes
  <2>2. Arrays # {}
    BY <1>6 DEF TypeOK
  <2> QED
    BY <1>6, <2>1, <2>2, Ends, Sorts
<1>7. CASE /\ into # NoNode /\ parent[v] # into
           /\ IF Has(s1.items[into], v) \/ v \in refused THEN Become(s1)
              ELSE Become([s1 EXCEPT !.items[into] = Append(@, v)])
  <2>1. into \in Arrays
    BY <1>7
  <2>2. s1 \in States
    BY <1>2, <2>1, AdoptDoes
  <2> PICK t : t = Append(s1.items[into], v)
    OBVIOUS
  <2>3. s1.items[into] \in Seq(Items)
    BY <2>1, <2>2 DEF States
  <2>4. t \in Seq(Items)
    BY <1>2, <2>3
  <2> PICK s2 : s2 = [s1 EXCEPT !.items[into] = t]
    OBVIOUS
  <2>5. /\ s2 \in States /\ s2.items[into] = t /\ s2.parent = s1.parent
        /\ \A a \in Arrays \ {into} : s2.items[a] = s1.items[a]
    <3> PICK its, par : its = s1.items /\ par = s1.parent
      OBVIOUS
    <3>1. its \in [Arrays -> Seq(Items)] /\ par \in [Kids -> Arrays \cup {NoNode}]
          /\ s1 = [items |-> its, parent |-> par]
      BY <2>2 DEF States
    <3>2. s2 = [items |-> [its EXCEPT ![into] = t], parent |-> par]
      BY <3>1
    <3> PICK its2 : its2 = [its EXCEPT ![into] = t]
      OBVIOUS
    <3>3. its2 \in [Arrays -> Seq(Items)] /\ its2[into] = t /\ \A a \in Arrays \ {into} : its2[a] = its[a]
      BY ONLY its2 = [its EXCEPT ![into] = t], <2>1, <2>4, <3>1
    <3>4. s2 = [items |-> its2, parent |-> par]
      BY ONLY <3>2, its2 = [its EXCEPT ![into] = t]
    <3> QED
      BY ONLY <3>1, <3>3, <3>4 DEF States
  <2>6. Become(s1) \/ Become(s2)
    BY <1>7
  <2>7. ASSUME Agreed, IsCareful(c)
        PROVE  Become(s2) /\ Around(s2, into) /\ Agrees(s2.items[into], into, s2.parent)
    <3> PICK q \in Seq(Items) : q = items[into]
      BY <2>1 DEF TypeOK
    <3>1. Once(q) /\ \A w \in Kids : Holds(q, w) <=> parent[w] = into
      BY <2>1, <2>7 DEF Agreed, Agrees
    <3>2. Around(s0, into)
      BY <1>4, <2>7, NothingShed DEF Agreed, Around
    <3>3. /\ Around(s1, into) /\ s1.items[into] = q
          /\ \A w \in Kids : s1.parent[w] = IF w = v THEN into ELSE parent[w]
      <4>1. /\ Around(s1, into) /\ s1.items[into] = s0.items[into]
            /\ \A w \in Kids : s1.parent[w] = IF w = v THEN into ELSE s0.parent[w]
        BY ONLY s0 \in States, <2>1, <1>2, s1 = Adopt(s0, into, v), <3>2, AdoptDoes
      <4> QED
        BY <1>4, <4>1
    <3>4. ~Holds(q, v)
      BY <1>7, <3>1
    <3>5. refused = {}
      <4>1. AskedOn(c) = into
        BY <1>1 DEF AskedOn
      <4>2. into \notin Watched
        BY <1>1, <2>7 DEF IsCareful
      <4> QED
        BY <4>1, <4>2, Unwatched
    <3>6. Become(s2)
      <4>1. ~Has(s1.items[into], v)
        BY <3>3, <3>4, HasIs
      <4> QED
        BY <1>7, <3>5, <4>1
    <3>7. Once(t) /\ \A w : Holds(t, w) <=> Holds(q, w) \/ w = v
      BY <1>2, <3>1, <3>3, <3>4, AppendHolds
    <3>8. Around(s2, into)
      BY <2>5, <3>3 DEF Around, Shed
    <3>9. \A w \in Kids : Holds(t, w) <=> s2.parent[w] = into
      BY ONLY <2>5, <3>1, <3>3, <3>7
    <3> QED
      BY ONLY <2>5, <3>6, <3>7, <3>8, <3>9 DEF Agrees
  <2>8. TypeOK'
    BY <2>2, <2>5, <2>6, Ends
  <2> QED
    BY <2>1, <2>5, <2>7, <2>8, Ends
<1> QED
  BY <1>5, <1>6, <1>7 DEF ParentSet

LEMMA BulkSetDoes ==
  ASSUME TypeOK, NEW c \in Calls, NEW refused \in Refusals(AskedOn(c)), BulkSet(c, refused)
  PROVE  TypeOK' /\ (Agreed /\ IsCareful(c) => Agreed' /\ (Nothing \/ OneMayGrow))
<1>1. c.op = "BulkSet"
  BY DEF BulkSet
<1> PICK on \in Arrays, pairs \in Seq(Pairs) : on = c.on /\ pairs = c.pairs
  BY <1>1, CallIs
<1> PICK q \in Seq(Items) : q = items[on]
  BY DEF TypeOK
<1> PICK r \in SetSoFar : r = SetAll(q, pairs, refused)
  BY SetAllDoes
<1> PICK rq \in Seq(Items), old \in Seq(Items), put \in SUBSET Pairs :
      rq = r.q /\ old = r.old /\ put = r.put
  BY DEF SetSoFar
<1> PICK vs : vs = {p.val : p \in put}
  OBVIOUS
<1> PICK t \in Seq(Items) : t = TidyAll(rq, put)
  BY TidyAllDoes
<1> PICK s0 \in States : s0 = Holding(on, t)
  BY HoldingIs
<1> PICK s1 \in States : s1 = LeaveAll(s0, old)
  BY LeaveAllDoes
<1> PICK s2 \in States : s2 = AdoptEach(s1, on, vs)
  BY ONLY s1 \in States, on \in Arrays, AdoptEachDoes
<1>2. Become(s2)
  BY DEF BulkSet
<1>3. s0.items[on] = t /\ s0.parent = parent /\ (Agreed => Around(s0, on))
  BY ONLY TypeOK, on \in Arrays, t \in Seq(Items), s0 = Holding(on, t), HoldingIs
<1>4. ASSUME Agreed, IsCareful(c) PROVE Around(s2, on) /\ Agrees(s2.items[on], on, s2.parent)
  <2>1. Once(q) /\ \A w \in Kids : Holds(q, w) <=> parent[w] = on
    BY <1>4 DEF Agreed, Agrees
  <2>2. PairsApart(q, pairs)
    <3>1. \A i \in DOMAIN pairs :
           pairs[i].val \in Kids =>
             /\ pairs[i].key # kIdxLast
             /\ \A j \in DOMAIN pairs \ {i} :
                  /\ pairs[j].key \notin {pairs[i].key, kIdxLast}
                  /\ Has(q, pairs[i].val) =>
                       pairs[j].val \notin Kids /\ ~HasAt(q, pairs[j].key, pairs[i].val)
      BY <1>1, <1>4 DEF IsCareful, AskedOn
    <3>2. \A i, j \in 1 .. Len(pairs) : pairs[i].val = pairs[j].val /\ i # j => pairs[i].val \notin Kids
      BY <1>1, CallIs
    <3>3. DOMAIN pairs = 1 .. Len(pairs)
      OBVIOUS
    <3> QED
      BY ONLY <3>1, <3>2, <3>3 DEF PairsApart
  <2>3. /\ Stored(rq, put) /\ (Once(rq) \/ OneTwice(rq, put))
        /\ \A w \in Kids : Holds(rq, w) <=>
             (\E p \in put : p.val = w) \/ (Holds(q, w) /\ ~Holds(old, w))
        /\ \A w \in Kids : Holds(old, w) => Holds(q, w) /\ ~ \E p \in put : p.val = w
    <3>1. /\ Stored(r.q, r.put) /\ (Once(r.q) \/ OneTwice(r.q, r.put))
          /\ \A w \in Kids : Holds(r.q, w) <=>
               (\E p \in r.put : p.val = w) \/ (Holds(q, w) /\ ~Holds(r.old, w))
          /\ \A w \in Kids : Holds(r.old, w) => Holds(q, w) /\ ~ \E p \in r.put : p.val = w
      BY ONLY q \in Seq(Items), pairs \in Seq(Pairs), r = SetAll(q, pairs, refused), <2>1, <2>2, SetAllDoes
    <3> QED
      BY ONLY rq = r.q, old = r.old, put = r.put, <3>1
  <2>4. Once(t) /\ \A w \in Kids : Holds(t, w) <=> Holds(rq, w)
    BY ONLY rq \in Seq(Items), t = TidyAll(rq, put), <2>3, TidyAllDoes
  <2>5. \A w : w \in vs <=> \E p \in put : p.val = w
    OBVIOUS
  <2>6. /\ Around(s1, on) /\ s1.items[on] = t
        /\ \A w \in Kids : s1.parent[w] = IF Holds(old, w) THEN NoNode ELSE parent[w]
    <3>1. NoneOf(old, t)
      <4>1. \A i \in 1 .. Len(old) : Holds(old, old[i])
        BY DEF Holds
      <4> QED
        BY ONLY <2>3, <2>4, <4>1 DEF NoneOf
    <3>2. Around(s0, on) /\ NoneOf(old, s0.items[on])
      BY ONLY <1>3, <1>4, <3>1
    <3>3. /\ Around(s1, on) /\ s1.items[on] = s0.items[on]
          /\ \A w \in Kids : s1.parent[w] = IF Holds(old, w) THEN NoNode ELSE s0.parent[w]
      BY ONLY s0 \in States, on \in Arrays, old \in Seq(Items), s1 = LeaveAll(s0, old), <3>2, LeaveAllDoes
    <3> QED
      BY ONLY <1>3, <3>3
  <2>7. /\ Around(s2, on) /\ s2.items[on] = t
        /\ \A w \in Kids : s2.parent[w] = IF w \in vs THEN on ELSE s1.parent[w]
    <3>1. /\ Around(s2, on) /\ s2.items[on] = s1.items[on]
          /\ \A w \in Kids : s2.parent[w] = IF w \in vs THEN on ELSE s1.parent[w]
      BY ONLY s1 \in States, on \in Arrays, s2 = AdoptEach(s1, on, vs), <2>6, AdoptEachDoes
    <3> QED
      BY ONLY <2>6, <3>1
  <2>8. \A w \in Kids : Holds(t, w) <=> s2.parent[w] = on
    BY ONLY <2>1, <2>3, <2>4, <2>5, <2>6, <2>7, on \in Arrays, Sorts, SMTT(30)
  <2> QED
    BY ONLY <2>4, <2>7, <2>8 DEF Agrees
<1> QED
  BY <1>2, <1>4, Ends

LEMMA BulkInsertDoes ==
  ASSUME TypeOK, NEW c \in Calls, NEW refused \in Refusals(AskedOn(c)), BulkInsert(c, refused)
  PROVE  TypeOK' /\ (Agreed /\ IsCareful(c) => Agreed' /\ (Nothing \/ OneMayGrow))
<1>1. c.op = "BulkInsert"
  BY DEF BulkInsert
<1> PICK on \in Arrays, pairs \in Seq(Pairs) : on = c.on /\ pairs = c.pairs
  BY <1>1, CallIs
<1> PICK q \in Seq(Items) : q = items[on]
  BY DEF TypeOK
<1> PICK r \in InsertedSoFar : r = InsertAll(q, pairs, refused)
  BY InsertAllDoes
<1> PICK t \in Seq(Items), put \in SUBSET Kids : t = r.q /\ put = r.put
  BY DEF InsertedSoFar
<1> PICK s0 \in States : s0 = Holding(on, t)
  BY HoldingIs
<1> PICK s1 \in States : s1 = MoveEach(s0, on, put)
  BY MoveEachDoes
<1>2. Become(s1)
  BY DEF BulkInsert
<1>3. s0.items[on] = t /\ s0.parent = parent /\ (Agreed => Around(s0, on))
  BY ONLY TypeOK, on \in Arrays, t \in Seq(Items), s0 = Holding(on, t), HoldingIs
<1>4. ASSUME Agreed PROVE Around(s1, on) /\ Agrees(s1.items[on], on, s1.parent)
  <2>1. Once(q) /\ \A w \in Kids : Holds(q, w) <=> parent[w] = on
    BY <1>4 DEF Agreed, Agrees
  <2>2. /\ Once(t)
        /\ \A w \in Kids : Holds(t, w) <=> Holds(q, w) \/ w \in put
        /\ \A w \in Kids : w \in put => ~Holds(q, w)
    <3>1. /\ Once(r.q)
          /\ \A w \in Kids : Holds(r.q, w) <=> Holds(q, w) \/ w \in r.put
          /\ \A w \in Kids : w \in r.put => ~Holds(q, w)
      BY ONLY q \in Seq(Items), pairs \in Seq(Pairs), r = InsertAll(q, pairs, refused), <2>1, InsertAllDoes
    <3> QED
      BY ONLY t = r.q, put = r.put, <3>1
  <2>3. Around(s0, on) /\ \A w \in put \cap Kids : s0.parent[w] # on
    BY ONLY <1>3, <1>4, <2>1, <2>2
  <2>4. /\ Around(s1, on) /\ s1.items[on] = t
        /\ \A w \in Kids : s1.parent[w] = IF w \in put THEN on ELSE parent[w]
    <3>1. /\ Around(s1, on) /\ s1.items[on] = s0.items[on]
          /\ \A w \in Kids : s1.parent[w] = IF w \in put THEN on ELSE s0.parent[w]
      BY ONLY s0 \in States, on \in Arrays, s1 = MoveEach(s0, on, put), <2>3, MoveEachDoes
    <3> QED
      BY ONLY <1>3, <3>1
  <2>5. \A w \in Kids : Holds(t, w) <=> s1.parent[w] = on
    BY ONLY <2>1, <2>2, <2>4
  <2> QED
    BY ONLY <2>2, <2>4, <2>5 DEF Agrees
<1> QED
  BY <1>2, <1>4, Ends

LEMMA BulkInsertAtDoes ==
  ASSUME TypeOK, NEW c \in Calls, NEW refused \in Refusals(AskedOn(c)), BulkInsertAt(c, refused)
  PROVE  TypeOK' /\ (Agreed /\ IsCareful(c) => Agreed' /\ (Nothing \/ OneMayGrow))
<1>1. c.op = "BulkInsertAt"
  BY DEF BulkInsertAt
<1> PICK on \in Arrays, k \in Indexes, vals \in Seq(Items) : on = c.on /\ k = c.key /\ vals = c.vals
  BY <1>1, CallIs
<1> PICK q \in Seq(Items) : q = items[on]
  BY DEF TypeOK
<1> PICK r \in InsertedUpTo : r = InsertAllAt(q, k, vals, refused)
  BY InsertAllAtDoes
<1> PICK t \in Seq(Items), put \in Seq(Items) : t = r.q /\ put = r.put
  BY DEF InsertedUpTo
<1> PICK s0 \in States : s0 = Holding(on, t)
  BY HoldingIs
<1> PICK s1 \in States : s1 = AdoptAll(s0, on, put)
  BY AdoptAllDoes
<1>2. Become(s1)
  BY DEF BulkInsertAt
<1>3. s0.items[on] = t /\ s0.parent = parent /\ (Agreed => Around(s0, on))
  BY ONLY TypeOK, on \in Arrays, t \in Seq(Items), s0 = Holding(on, t), HoldingIs
<1>4. ASSUME Agreed PROVE Around(s1, on) /\ Agrees(s1.items[on], on, s1.parent)
  <2>1. Once(q) /\ \A w \in Kids : Holds(q, w) <=> parent[w] = on
    BY <1>4 DEF Agreed, Agrees
  <2>2. Once(t) /\ \A w \in Kids : Holds(t, w) <=> Holds(q, w) \/ Holds(put, w)
    <3>1. Once(r.q) /\ \A w \in Kids : Holds(r.q, w) <=> Holds(q, w) \/ Holds(r.put, w)
      BY ONLY q \in Seq(Items), k \in Indexes, vals \in Seq(Items), r = InsertAllAt(q, k, vals, refused),
              <2>1, InsertAllAtDoes
    <3> QED
      BY ONLY t = r.q, put = r.put, <3>1
  <2>3. /\ Around(s1, on) /\ s1.items[on] = t
        /\ \A w \in Kids : s1.parent[w] = IF Holds(put, w) THEN on ELSE parent[w]
    <3>1. Around(s0, on)
      BY ONLY <1>3, <1>4
    <3>2. /\ Around(s1, on) /\ s1.items[on] = s0.items[on]
          /\ \A w \in Kids : s1.parent[w] = IF Holds(put, w) THEN on ELSE s0.parent[w]
      BY ONLY s0 \in States, on \in Arrays, put \in Seq(Items), s1 = AdoptAll(s0, on, put), <3>1, AdoptAllDoes, SMTT(30)
    <3> QED
      BY ONLY <1>3, <3>2
  <2>4. \A w \in Kids : Holds(t, w) <=> s1.parent[w] = on
    BY ONLY <2>1, <2>2, <2>3
  <2> QED
    BY ONLY <2>2, <2>3, <2>4 DEF Agrees
<1> QED
  BY <1>2, <1>4, Ends

(* What comes before the first and what is visited from there on. *)
LEMMA SplitHolds ==
  ASSUME NEW q \in Seq(Items), NEW first \in 1 .. Len(q), NEW before \in Seq(Items),
         NEW visited \in Seq(Items),
         Len(before) = first - 1, \A j \in 1 .. (first - 1) : before[j] = q[j],
         Len(visited) = Len(q) - first + 1,
         \A j \in 1 .. (Len(q) - first + 1) : visited[j] = q[first + j - 1],
         Once(q)
  PROVE  /\ Once(before) /\ Once(visited)
         /\ \A w \in Kids : ~(Holds(before, w) /\ Holds(visited, w))
         /\ \A w \in Kids : Holds(q, w) <=> Holds(before, w) \/ Holds(visited, w)
<1>1. Once(before)
  <2> SUFFICES ASSUME NEW i \in 1 .. Len(before), NEW j \in 1 .. Len(before),
                      before[i] = before[j], before[i] \in Kids
               PROVE  i = j
    BY DEF Once
  <2>1. i \in 1 .. Len(q) /\ j \in 1 .. Len(q)
    OBVIOUS
  <2>2. before[i] = q[i] /\ before[j] = q[j]
    OBVIOUS
  <2> QED
    BY <2>1, <2>2 DEF Once
<1>2. Once(visited)
  <2> SUFFICES ASSUME NEW i \in 1 .. Len(visited), NEW j \in 1 .. Len(visited),
                      visited[i] = visited[j], visited[i] \in Kids
               PROVE  i = j
    BY DEF Once
  <2> PICK a, b : a = first + i - 1 /\ b = first + j - 1
    OBVIOUS
  <2>1. a \in 1 .. Len(q) /\ b \in 1 .. Len(q) /\ (a = b => i = j)
    OBVIOUS
  <2>2. visited[i] = q[a] /\ visited[j] = q[b]
    OBVIOUS
  <2> QED
    BY <2>1, <2>2 DEF Once
<1>3. \A w \in Kids : ~(Holds(before, w) /\ Holds(visited, w))
  <2> SUFFICES ASSUME NEW w \in Kids, NEW i \in 1 .. Len(before), before[i] = w,
                      NEW j \in 1 .. Len(visited), visited[j] = w
               PROVE  FALSE
    BY DEF Holds
  <2> PICK b : b = first + j - 1
    OBVIOUS
  <2>1. i \in 1 .. Len(q) /\ b \in 1 .. Len(q) /\ i # b
    OBVIOUS
  <2>2. q[i] = w /\ q[b] = w
    OBVIOUS
  <2> QED
    BY <2>1, <2>2 DEF Once
<1>4. ASSUME NEW w, NEW i \in 1 .. Len(q), q[i] = w PROVE Holds(before, w) \/ Holds(visited, w)
  <2>1. CASE i < first
    <3>1. i \in 1 .. Len(before) /\ before[i] = w
      BY <1>4, <2>1
    <3> QED
      BY <3>1 DEF Holds
  <2>2. CASE i >= first
    <3> PICK j \in 1 .. Len(visited) : j = i - first + 1
      BY <2>2
    <3>1. first + j - 1 = i
      OBVIOUS
    <3>2. visited[j] = w
      BY <1>4, <3>1
    <3> QED
      BY <3>2 DEF Holds
  <2> QED
    BY <2>1, <2>2
<1>5. ASSUME NEW w, Holds(before, w) PROVE Holds(q, w)
  <2> PICK j \in 1 .. Len(before) : before[j] = w
    BY <1>5 DEF Holds
  <2>1. j \in 1 .. Len(q) /\ q[j] = w
    OBVIOUS
  <2> QED
    BY <2>1 DEF Holds
<1>6. ASSUME NEW w, Holds(visited, w) PROVE Holds(q, w)
  <2> PICK j \in 1 .. Len(visited) : visited[j] = w
    BY <1>6 DEF Holds
  <2> PICK b \in 1 .. Len(q) : b = first + j - 1
    OBVIOUS
  <2>1. q[b] = w
    OBVIOUS
  <2> QED
    BY <2>1 DEF Holds
<1>7. \A w : Holds(q, w) => \E i \in 1 .. Len(q) : q[i] = w
  BY DEF Holds
<1> QED
  BY <1>1, <1>2, <1>3, <1>4, <1>5, <1>6, <1>7

LEMMA ForEachDoes ==
  ASSUME TypeOK, NEW c \in Calls, NEW refused \in Refusals(AskedOn(c)), ForEach(c, refused)
  PROVE  TypeOK' /\ (Agreed /\ IsCareful(c) => Agreed' /\ (Nothing \/ OneMayGrow))
<1>1. c.op = "ForEach"
  BY DEF ForEach
<1> PICK on \in Arrays, from \in Indexes \cup {NoKey} : on = c.on /\ from = c.from /\ c.to \in Scalars
  BY <1>1, CallIs
<1> PICK q \in Seq(Items) : q = items[on]
  BY DEF TypeOK
<1> PICK first \in 0 .. Len(q) : first = First(q, from)
  BY FindIs DEF First
<1>2. CASE Nothing
  BY <1>2, NothingDoes
<1>3. CASE ~Nothing
  <2>1. first \in 1 .. Len(q) /\ first - 1 \in 0 .. Len(q) /\ first \in 1 .. (Len(q) + 1)
    BY <1>3 DEF ForEach
  <2> PICK before \in Seq(Items) : before = SubSeq(q, 1, first - 1)
    BY <2>1, PrefixIs
  <2> PICK visited \in Seq(Items) : visited = SubSeq(q, first, Len(q))
    BY <2>1, SuffixIs
  <2> PICK t \in Seq(Items) : t = Treated(c, before, visited, refused)
    BY TreatedDoes
  <2> PICK s0 \in States : s0 = Holding(on, t)
    BY HoldingIs
  <2> PICK s1 \in States : s1 = LeaveTreated(c, s0, visited)
    BY ONLY LeaveTreatedDoes
  <2> PICK gone : gone = c.erase \cup c.assign
    OBVIOUS
  <2>2. Become(s1)
    BY <1>3 DEF ForEach
  <2>3. s0.items[on] = t /\ s0.parent = parent /\ (Agreed => Around(s0, on))
    BY ONLY TypeOK, on \in Arrays, t \in Seq(Items), s0 = Holding(on, t), HoldingIs
  <2>4. ASSUME Agreed, IsCareful(c) PROVE Around(s1, on) /\ Agrees(s1.items[on], on, s1.parent)
    <3>1. Once(q) /\ \A w \in Kids : Holds(q, w) <=> parent[w] = on
      BY <2>4 DEF Agreed, Agrees
    <3>2. refused = {} \/ gone \cap Kids = {}
      <4>1. AskedOn(c) = on
        BY <1>1 DEF AskedOn
      <4>2. on \in Watched => gone \cap Kids = {}
        BY <1>1, <2>4 DEF IsCareful
      <4> QED
        BY <4>1, <4>2, Unwatched
    <3>3. /\ Len(before) = first - 1 /\ \A j \in 1 .. (first - 1) : before[j] = q[j]
      BY ONLY q \in Seq(Items), <2>1, before = SubSeq(q, 1, first - 1), PrefixIs
    <3>4. /\ Len(visited) = Len(q) - first + 1
          /\ \A j \in 1 .. (Len(q) - first + 1) : visited[j] = q[first + j - 1]
      BY ONLY q \in Seq(Items), <2>1, visited = SubSeq(q, first, Len(q)), SuffixIs
    <3>5. Once(before) /\ Once(visited)
      BY ONLY q \in Seq(Items), before \in Seq(Items), visited \in Seq(Items),
              <2>1, <3>1, <3>3, <3>4, SplitHolds
    <3>6. \A w \in Kids : ~(Holds(before, w) /\ Holds(visited, w))
      BY ONLY q \in Seq(Items), before \in Seq(Items), visited \in Seq(Items),
              <2>1, <3>1, <3>3, <3>4, SplitHolds
    <3>7. \A w \in Kids : Holds(q, w) <=> Holds(before, w) \/ Holds(visited, w)
      BY ONLY q \in Seq(Items), before \in Seq(Items), visited \in Seq(Items),
              <2>1, <3>1, <3>3, <3>4, SplitHolds
    <3>8. /\ Once(t)
          /\ \A w \in Kids : Holds(t, w) <=> Holds(before, w) \/ (Holds(visited, w) /\ w \notin gone)
      BY ONLY c.to \in Scalars, before \in Seq(Items), visited \in Seq(Items), gone = c.erase \cup c.assign,
              t = Treated(c, before, visited, refused), <3>2, <3>5, <3>6, TreatedDoes
    <3>9. /\ Around(s1, on) /\ s1.items[on] = t
          /\ \A w \in Kids : s1.parent[w] = IF Holds(visited, w) /\ w \in gone THEN NoNode ELSE parent[w]
      <4>1. \A i \in 1 .. Len(visited) : visited[i] \in Kids \cap gone => ~Holds(t, visited[i])
        <5>1. \A i \in 1 .. Len(visited) : Holds(visited, visited[i])
          BY DEF Holds
        <5> QED
          BY ONLY <3>6, <3>8, <5>1
      <4>2. /\ Around(s0, on)
            /\ \A i \in 1 .. Len(visited) :
                 visited[i] \in Kids \cap (c.erase \cup c.assign) => ~Holds(s0.items[on], visited[i])
        BY ONLY <2>3, <2>4, <4>1, gone = c.erase \cup c.assign
      <4>3. /\ Around(s1, on) /\ s1.items[on] = s0.items[on]
            /\ \A w \in Kids :
                 s1.parent[w] = IF Holds(visited, w) /\ w \in c.erase \cup c.assign
                                THEN NoNode ELSE s0.parent[w]
        BY ONLY s0 \in States, on \in Arrays, visited \in Seq(Items), s1 = LeaveTreated(c, s0, visited),
                <4>2, LeaveTreatedDoes
      <4> QED
        BY ONLY <2>3, <4>3, gone = c.erase \cup c.assign
    <3>10. \A w \in Kids : Holds(t, w) <=> s1.parent[w] = on
      BY ONLY <3>1, <3>6, <3>7, <3>8, <3>9, on \in Arrays, Sorts
    <3> QED
      BY ONLY <3>8, <3>9, <3>10 DEF Agrees
  <2> QED
    BY <2>2, <2>4, Ends
<1> QED
  BY <1>2, <1>3

-----------------------------------------------------------------------------
(* The theorems. *)

LEMMA CallDoes ==
  ASSUME TypeOK, NEW c \in Calls, NEW refused \in Refusals(AskedOn(c)), Call(c, refused)
  PROVE  TypeOK' /\ (Agreed /\ IsCareful(c) => Agreed' /\ (Nothing \/ OneMayGrow))
<1>1. CASE Set(c, refused)
  BY <1>1, SetDoes
<1>2. CASE Insert(c, refused)
  BY <1>2, InsertDoes
<1>3. CASE CompareExchange(c, refused)
  BY <1>3, CompareExchangeDoes
<1>4. CASE Erase(c, refused)
  BY <1>4, EraseDoes
<1>5. CASE BulkErase(c)
  BY <1>5, BulkEraseDoes
<1>6. CASE Clear(c)
  BY <1>6, ClearDoes
<1>7. CASE KeyChange(c, refused)
  BY <1>7, KeyChangeDoes
<1>8. CASE ParentSet(c, refused)
  BY <1>8, ParentSetDoes
<1>9. CASE BulkSet(c, refused)
  BY <1>9, BulkSetDoes
<1>10. CASE BulkInsert(c, refused)
  BY <1>10, BulkInsertDoes
<1>11. CASE BulkInsertAt(c, refused)
  BY <1>11, BulkInsertAtDoes
<1>12. CASE ForEach(c, refused)
  BY <1>12, ForEachDoes
<1> QED
  BY <1>1, <1>2, <1>3, <1>4, <1>5, <1>6, <1>7, <1>8, <1>9, <1>10, <1>11, <1>12 DEF Call

LEMMA InitAgrees ==
  ASSUME Init
  PROVE  TypeOK /\ Agreed
<1>1. <<>> \in Seq(Items)
  OBVIOUS
<1>2. TypeOK
  BY <1>1 DEF Init, TypeOK
<1>3. \A a \in Arrays : items[a] = <<>>
  BY DEF Init
<1>4. \A c \in Kids : parent[c] = NoNode
  BY DEF Init
<1>5. Agreed
  BY <1>3, <1>4, Sorts DEF Agreed, Agrees, Once, Holds
<1> QED
  BY <1>2, <1>5

(* Every call leaves arrays of values and parents that are arrays: no      *)
(* place of a deque is left without a value.                               *)
THEOREM TypeCorrect == Spec => []TypeOK
<1>1. Init => TypeOK
  BY InitAgrees
<1>2. TypeOK /\ [Next]_vars => TypeOK'
  <2> SUFFICES ASSUME TypeOK, [Next]_vars PROVE TypeOK'
    OBVIOUS
  <2>1. CASE Next
    <3> PICK c \in Made : \E refused \in Refusals(AskedOn(c)) : Call(c, refused)
      BY <2>1 DEF Next
    <3> PICK refused \in Refusals(AskedOn(c)) : Call(c, refused)
      OBVIOUS
    <3>1. c \in Calls
      BY CallsAssumption
    <3> QED
      BY <3>1, CallDoes
  <2>2. CASE UNCHANGED vars
    BY <2>2 DEF vars, TypeOK
  <2> QED
    BY <2>1, <2>2
<1> QED
  BY <1>1, <1>2, PTL DEF Spec

(* What careful calls keep: arrays and parents agree, and no array is      *)
(* longer than the bound, within which HeldOnceByParent looks for nodes.   *)
Inv ==
  /\ TypeOK
  /\ Agreed
  /\ \A a \in Arrays : Len(items[a]) <= MaxLen

LEMMA InvHolds ==
  ASSUME Careful
  PROVE  Spec => []Inv
<1>1. Init => Inv
  <2> SUFFICES ASSUME Init PROVE Inv
    OBVIOUS
  <2>1. \A a \in Arrays : Len(items[a]) <= MaxLen
    BY ArrayAssumption DEF Init
  <2> QED
    BY <2>1, InitAgrees DEF Inv
<1>2. Inv /\ [Next]_vars => Inv'
  <2> SUFFICES ASSUME Inv, [Next]_vars PROVE Inv'
    OBVIOUS
  <2>1. CASE Next
    <3> PICK c \in Made : \E refused \in Refusals(AskedOn(c)) : IsCareful(c) /\ Call(c, refused)
      BY <2>1 DEF Next
    <3> PICK refused \in Refusals(AskedOn(c)) : IsCareful(c) /\ Call(c, refused)
      OBVIOUS
    <3>1. c \in Calls
      BY CallsAssumption
    <3>2. TypeOK' /\ Agreed'
      BY <3>1, CallDoes DEF Inv
    <3>3. \A a \in Arrays : Len(items'[a]) <= MaxLen
      <4>1. (\E s : Become(s)) \/ Nothing
        <5>1. Set(c, refused) => \E s : Become(s)
          BY DEF Set
        <5>2. Insert(c, refused) => Nothing \/ \E s : Become(s)
          BY DEF Insert
        <5>3. CompareExchange(c, refused) => Nothing \/ \E s : Become(s)
          BY DEF CompareExchange
        <5>4. Erase(c, refused) => Nothing \/ \E s : Become(s)
          BY DEF Erase
        <5>5. BulkErase(c) \/ Clear(c) \/ KeyChange(c, refused) => \E s : Become(s)
          BY DEF BulkErase, Clear, KeyChange
        <5>6. ParentSet(c, refused) => Nothing \/ \E s : Become(s)
          BY DEF ParentSet
        <5>7. BulkSet(c, refused) \/ BulkInsert(c, refused) \/ BulkInsertAt(c, refused) => \E s : Become(s)
          BY DEF BulkSet, BulkInsert, BulkInsertAt
        <5>8. ForEach(c, refused) => Nothing \/ \E s : Become(s)
          BY DEF ForEach
        <5> QED
          BY <5>1, <5>2, <5>3, <5>4, <5>5, <5>6, <5>7, <5>8 DEF Call
      <4>2. (\E s : Become(s)) => \A a \in Arrays : Len(items'[a]) <= MaxLen
        BY DEF Become
      <4>3. Nothing => \A a \in Arrays : Len(items'[a]) <= MaxLen
        BY DEF Nothing, vars, Inv
      <4> QED
        BY <4>1, <4>2, <4>3
    <3> QED
      BY <3>2, <3>3 DEF Inv
  <2>2. CASE UNCHANGED vars
    BY <2>2 DEF vars, Inv, TypeOK, Agreed, Agrees
  <2> QED
    BY <2>1, <2>2
<1> QED
  BY <1>1, <1>2, PTL DEF Spec

(* A node is held where its parent says, once, and nowhere else, as long   *)
(* as every caller keeps to IsCareful.                                     *)
THEOREM AlwaysHeldOnceByParent ==
  ASSUME Careful
  PROVE  Spec => []HeldOnceByParent
<1>1. Inv => HeldOnceByParent
  <2> SUFFICES ASSUME Inv, NEW c \in Kids
               PROVE  IF parent[c] = NoNode THEN Places(c) = {}
                      ELSE Cardinality(Places(c)) = 1 /\ \A p \in Places(c) : p[1] = parent[c]
    BY DEF HeldOnceByParent
  <2>1. \A a \in Arrays : items[a] \in Seq(Items) /\ Len(items[a]) <= MaxLen /\ Len(items[a]) \in Nat
    BY DEF Inv, TypeOK
  <2>2. \A a \in Arrays : Once(items[a]) /\ (Holds(items[a], c) <=> parent[c] = a)
    BY DEF Inv, Agreed, Agrees
  <2>3. MaxLen \in Nat /\ NoNode \notin Arrays /\ parent[c] \in Arrays \cup {NoNode}
    BY ArrayAssumption DEF Inv, TypeOK
  <2>4. ASSUME NEW p \in Places(c)
        PROVE  /\ p[1] \in Arrays /\ parent[c] = p[1] /\ p = <<p[1], p[2]>>
               /\ p[2] \in 1 .. Len(items[p[1]]) /\ items[p[1]][p[2]] = c
    <3>1. p \in Arrays \X (1 .. MaxLen) /\ p[2] <= Len(items[p[1]]) /\ items[p[1]][p[2]] = c
      BY DEF Places
    <3> PICK a \in Arrays, i \in 1 .. MaxLen : p = <<a, i>>
      BY <3>1
    <3>2. i \in 1 .. Len(items[a]) /\ items[a][i] = c
      BY <2>1, <2>3, <3>1
    <3>3. Holds(items[a], c)
      BY <3>2 DEF Holds
    <3> QED
      BY <2>2, <3>2, <3>3
  <2>5. CASE parent[c] = NoNode
    BY <2>3, <2>4, <2>5
  <2>6. CASE parent[c] # NoNode
    <3> PICK a \in Arrays : a = parent[c]
      BY <2>3, <2>6
    <3> PICK i \in 1 .. Len(items[a]) : items[a][i] = c
      BY <2>2 DEF Holds
    <3>1. <<a, i>> \in Places(c)
      BY <2>1, <2>3 DEF Places
    <3>2. ASSUME NEW p \in Places(c) PROVE p = <<a, i>>
      <4>1. p[1] = a /\ p[2] \in 1 .. Len(items[a]) /\ items[a][p[2]] = c /\ p = <<p[1], p[2]>>
        BY <2>4
      <4>2. p[2] = i
        BY <2>2, <4>1 DEF Once
      <4> QED
        BY <4>1, <4>2
    <3>3. Places(c) = {<<a, i>>}
      BY <3>1, <3>2
    <3>4. Cardinality(Places(c)) = 1
      BY <3>3, FS_Singleton
    <3> QED
      BY <2>4, <2>6, <3>4
  <2> QED
    BY <2>5, <2>6
<1> QED
  BY <1>1, InvHolds, PTL

(* A call changes one array; the others lose the nodes that were taken     *)
(* from them, keep the rest and its order, and get nothing.                *)
THEOREM OthersAlwaysOnlyLoseNodes ==
  ASSUME Careful
  PROVE  Spec => OthersOnlyLoseNodes
<1>1. Inv /\ [Next]_vars =>
        [\E a \in Arrays : \A b \in Arrays \ {a} :
           IsWithout(items'[b], items[b], {c \in Kids : parent'[c] # b})]_vars
  <2> SUFFICES ASSUME Inv, Next PROVE Nothing \/ OneMayGrow
    BY DEF Nothing, OneMayGrow, OthersShed
  <2> PICK c \in Made : \E refused \in Refusals(AskedOn(c)) : IsCareful(c) /\ Call(c, refused)
    BY DEF Next
  <2> PICK refused \in Refusals(AskedOn(c)) : IsCareful(c) /\ Call(c, refused)
    OBVIOUS
  <2>1. c \in Calls
    BY CallsAssumption
  <2> QED
    BY <2>1, CallDoes DEF Inv
<1> QED
  BY <1>1, InvHolds, PTL DEF Spec, OthersOnlyLoseNodes

(* To move a value to a free index within reach loses none and doubles     *)
(* none, whoever calls, and whatever the callback answers.                 *)
LEMMA MovedKeeps ==
  ASSUME NEW q \in Seq(Items), NEW p \in 1 .. Len(q), NEW to, NEW m, MovedFrom(q, p, to, m),
         NEW v \in Content
  PROVE  Times(m, v) = Times(q, v)
<1> DEFINE A == {i \in DOMAIN q : q[i] = v}
           B == {j \in DOMAIN m : m[j] = v}
           n == to + 1
           at(j) == IF j = n THEN p ELSE IF j < p THEN j ELSE j + 1
           back(i) == IF i = p THEN n ELSE IF i < p THEN i ELSE i - 1
           f == [i \in A |-> back(i)]
<1>1. /\ to \in Nat /\ n \in Nat /\ Len(q) \in Nat /\ Len(m) = n /\ n > Len(q)
      /\ DOMAIN q = 1 .. Len(q) /\ DOMAIN m = 1 .. n
      /\ \A j \in 1 .. n : m[j] = IF j = n THEN q[p]
                                  ELSE IF j < Len(q) THEN IF j < p THEN q[j] ELSE q[j + 1]
                                  ELSE Empty
  BY DEF MovedFrom
<1>2. \A i \in A : back(i) \in B
  <2> SUFFICES ASSUME NEW i \in 1 .. Len(q), q[i] = v PROVE back(i) \in 1 .. n /\ m[back(i)] = v
    BY <1>1
  <2>1. CASE i = p
    BY <1>1, <2>1
  <2>2. CASE i < p
    <3>1. i \in 1 .. n /\ i < Len(q) /\ i # n
      BY <1>1, <2>2
    <3>2. m[i] = q[i]
      BY <1>1, <2>2, <3>1
    <3> QED
      BY <2>2, <3>1, <3>2
  <2>3. CASE i > p
    <3> PICK j : j = i - 1
      OBVIOUS
    <3>1. j \in 1 .. n /\ j < Len(q) /\ j # n /\ ~(j < p) /\ j + 1 = i
      BY <1>1, <2>3
    <3>2. m[j] = q[i]
      BY <1>1, <3>1
    <3> QED
      BY <2>3, <3>1, <3>2
  <2> QED
    BY <2>1, <2>2, <2>3
<1>3. \A j \in B : at(j) \in A /\ back(at(j)) = j
  <2> SUFFICES ASSUME NEW j \in 1 .. n, m[j] = v
                 PROVE at(j) \in 1 .. Len(q) /\ q[at(j)] = v /\ back(at(j)) = j
    BY <1>1
  <2>1. CASE j = n
    BY <1>1, <2>1
  <2>2. CASE j # n
    <3>1. j < Len(q)
      BY <1>1, <2>2, Sorts
    <3>2. m[j] = IF j < p THEN q[j] ELSE q[j + 1]
      BY <1>1, <2>2, <3>1
    <3> QED
      BY <1>1, <2>2, <3>1, <3>2
  <2> QED
    BY <2>1, <2>2
<1>4. \A i, j \in A : back(i) = back(j) => i = j
  <2> SUFFICES ASSUME NEW i \in 1 .. Len(q), NEW j \in 1 .. Len(q), back(i) = back(j) PROVE i = j
    BY <1>1
  <2> QED
    BY <1>1
<1>5. IsFiniteSet(A)
  <2>1. IsFiniteSet(1 .. Len(q))
    BY <1>1, FS_Interval
  <2>2. A \in SUBSET (1 .. Len(q))
    BY <1>1
  <2> HIDE DEF A
  <2> QED
    BY <2>1, <2>2, FS_Subset
<1>6. f \in Bijection(A, B)
  <2> HIDE DEF A, B, at, back
  <2>1. f \in [A -> B]
    BY <1>2
  <2>2. \A i, j \in A : f[i] = f[j] => i = j
    BY <1>4
  <2>3. \A j \in B : \E i \in A : f[i] = j
    BY <1>3
  <2> HIDE DEF f
  <2> QED
    BY <2>1, <2>2, <2>3 DEF Bijection, Injection, IsInjective, Surjection
<1>7. Cardinality(B) = Cardinality(A)
  <2> HIDE DEF A, B, f
  <2>1. ExistsBijection(A, B)
    BY <1>6 DEF ExistsBijection
  <2> QED
    BY <1>5, <2>1, FS_Bijection
<1> QED
  BY <1>7 DEF Times

THEOREM KeyChangeAlwaysKeepsValues == Spec => []KeyChangeKeepsValues
<1>1. TypeOK => KeyChangeKeepsValues
  <2> SUFFICES ASSUME TypeOK, NEW a \in Arrays, NEW from \in 0 .. MaxLen, NEW to \in 0 .. MaxLen,
                      NEW refused \in Refusals(a), CanMoveTo(items[a], to), NEW v \in Content
               PROVE  Times(Moved(items[a], from, to, refused), v) = Times(items[a], v)
    BY DEF KeyChangeKeepsValues
  <2> PICK q \in Seq(Items) : q = items[a]
    BY DEF TypeOK
  <2> PICK m : m = Moved(q, from, to, refused)
    OBVIOUS
  <2>1. from \in Indexes /\ to \in Indexes
    BY DEF Indexes
  <2>2. m = q \/ \E p \in 1 .. Len(q) : MovedFrom(q, p, to, m)
    BY ONLY q \in Seq(Items), <2>1, m = Moved(q, from, to, refused), q = items[a],
            CanMoveTo(items[a], to), MovedIs
  <2>3. Times(m, v) = Times(q, v)
    BY <2>2, MovedKeeps
  <2> QED
    BY <2>3
<1> QED
  BY <1>1, TypeCorrect, PTL
=============================================================================
