---------------------------- MODULE MCArrayNode ----------------------------
(* An instance of ArrayNode: two arrays, one of them watched, and every    *)
(* call on them with a few keys.                                           *)
EXTENDS ArrayNode

CONSTANTS A, B, n1, n2, v1

TwoArrays == {A, B}
TwoKids == {n1, n2}
OneScalar == {v1}
ByName == <<n1, n2>>

Keys == {0, 1, 2, kIdxEnd, kIdxLast}

Pairs == [key : {0, 1, kIdxEnd, kIdxLast}, val : Content]
TwoPairs ==
  {ps \in [1..2 -> Pairs] : NoNodeTwice([i \in 1..2 |-> ps[i].val])}
TwoValues == {vs \in [1..2 -> Content] : NoNodeTwice(vs)}

EveryCall ==
  [op : {"Set", "Insert"}, on : Arrays, key : Keys, val : Content]
  \cup [op : {"CompareExchange"}, on : Arrays, key : Keys, val : Content, expected : Items]
  \cup [op : {"Erase"}, on : Arrays, key : Keys]
  \cup [op : {"BulkErase"}, on : Arrays, keys : [1..2 -> {0, 1, kIdxLast}]]
  \cup [op : {"Clear"}, on : Arrays]
  \cup [op : {"KeyChange"}, on : Arrays, from : Keys, to : Keys]
  \cup [op : {"ParentSet"}, child : Kids, into : Arrays \cup {NoNode}]
  \cup [op : {"BulkSet", "BulkInsert"}, on : Arrays, pairs : TwoPairs]
  \cup [op : {"BulkInsertAt"}, on : Arrays, key : {0, 1, kIdxEnd, kIdxLast}, vals : TwoValues]
  \cup {f \in [op : {"ForEach"}, on : Arrays, from : {NoKey, 0, 1},
              erase : SUBSET Content, assign : SUBSET Content, to : Scalars] :
           f.erase \cap f.assign = {}}
=============================================================================
