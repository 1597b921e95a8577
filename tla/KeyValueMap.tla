---------------------------- MODULE KeyValueMap ----------------------------
(***************************************************************************)
(* What the container of a map node promises: a dictionary whose size is   *)
(* the number of keys that hold a value.  A step writes or removes one key *)
(* or removes all of them.                                                 *)
(***************************************************************************)
EXTENDS Integers, FiniteSets

CONSTANTS Keys, Contents, Nothing

VARIABLES dict, size

Holding(d) == {k \in Keys : d[k] # Nothing}

Init ==
  /\ dict = [k \in Keys |-> Nothing]
  /\ size = 0

Write(k, v) ==
  /\ dict' = [dict EXCEPT ![k] = v]
  /\ size' = Cardinality(Holding(dict'))

RemoveAll ==
  /\ dict' = [k \in Keys |-> Nothing]
  /\ size' = 0

Next ==
  \/ \E k \in Keys, v \in Contents \cup {Nothing} : Write(k, v)
  \/ RemoveAll

Spec == Init /\ [][Next]_<<dict, size>>
=============================================================================
