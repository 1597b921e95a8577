---------------------------- MODULE MCOperators ----------------------------
(***************************************************************************)
(* Values of 4 bits for 64 and 3 bits for 32, doubles with a mantissa of 2 *)
(* bits in quarters, of which halves are written in full; paths over a     *)
(* letter, a digit and the characters with a meaning; XML of four          *)
(* elements; documents of three nodes.  A behaviour works on a stored      *)
(* value, on a path, on an XML text or on a document: on one of them.      *)
(***************************************************************************)
EXTENDS StoredValue, Paths, XmlText, ImproperParents

CONSTANTS n1, n2, n3

Init == SlotInit /\ PathInit /\ XmlInit /\ CheckInit

Next ==
  \/ PathInit /\ XmlInit /\ CheckInit /\ SlotNext /\ UNCHANGED <<path, xmlVars, checkVars>>
  \/ SlotInit /\ XmlInit /\ CheckInit /\ PathNext /\ UNCHANGED <<slotVars, xmlVars, checkVars>>
  \/ SlotInit /\ PathInit /\ CheckInit /\ XmlNext /\ UNCHANGED <<slotVars, path, checkVars>>
  \/ SlotInit /\ PathInit /\ XmlInit /\ CheckNext /\ UNCHANGED <<slotVars, path, xmlVars>>

Spec == Init /\ [][Next]_<<slotVars, path, xmlVars, checkVars>>

(* In quarters.  The integers 5, 7 and 9 to 15 without 12 are no doubles,  *)
(* and the doubles 8, 12 and 16 are beyond int64, where llround gives the  *)
(* least number on x86-64.                                                 *)
MCDoubleNumbers ==
  LET positive == {1, 2, 3, 4, 6, 8, 12, 16, 24, 32, 48, 64}
  IN  {0} \cup positive \cup {-u : u \in positive}
MCWrittenNumbers == {2 * n : n \in -32 .. 32}
MCLLRoundBeyond == [u \in MCDoubleNumbers |-> -(MaxInt64 + 1)]

MCTexts ==
  {IntegerText(n) : n \in {-9, -8, -1, 0, 1, 5, 7, 8, 15, 16}}
  \cup {DoubleText(u) : u \in {-35, -7, -1, 1, 2, 3, 5, 7, 31, 63, 65}}

MCSettable == XValues
MCSteps == {XValue("int64", -1), XValue("int64", 3), XValue("uint64", 1), XValue("uint64", 9),
            XValue("double", 1), XValue("double", 4)}

(* Up to three pointers, or one that is const and another, are held by the *)
(* first node and those below it.  The parents are any, but no node is its *)
(* own ancestor.                                                           *)
MCRoots == [node : {n1}, const : BOOLEAN]

Places == [holder : Nodes, pointer : Pointers]

Placements ==
  {places \in UNION {[1 .. m -> Places] : m \in 0 .. 3} :
     /\ \A i \in DOMAIN places :
          \/ places[i].holder = n1
          \/ \E j \in 1 .. i - 1 : places[j].pointer.node = places[i].holder
     /\ \A i, j \in DOMAIN places : i # j =>
          /\ places[i].pointer.const => ~places[j].pointer.const /\ Len(places) < 3
          /\ places[i].holder = places[j].holder
               => places[i].pointer.node # places[j].pointer.node}

HeldBy(places, n) ==
  LET own == SelectSeq(places, LAMBDA p : p.holder = n)
  IN  [i \in DOMAIN own |-> own[i].pointer]

Held == {[n \in Nodes |-> HeldBy(places, n)] : places \in Placements}

Parents ==
  {parent \in [Nodes -> Nodes \cup {NoNode}] :
     \A loop \in SUBSET Nodes \ {{}} : \E n \in loop : parent[n] \notin loop}

MCTrees == [held : Held, parent : Parents]

Alike == Permutations({n2, n3})
=============================================================================
