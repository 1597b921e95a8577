--------------------------- MODULE MCGetOrCreate ---------------------------
(***************************************************************************)
(* Two threads that share the map under "a" and the array under "l", and   *)
(* get in each other's way under "x".                                      *)
(***************************************************************************)
EXTENDS GetOrCreate

CONSTANTS t1, t2, s0, s1, s2

MCKeys == {"a", "l", "x", "u", "v"}

SetBy(path, v) == [op |-> "Set", path |-> path, val |-> v]
InsertBy(path, v) == [op |-> "Insert", path |-> path, val |-> v]
Get(path, type, convert) == [op |-> "NodeGet", path |-> path, type |-> type, convert |-> convert]
Emplace(path, v) == [op |-> "EmplaceToArray", path |-> path, val |-> v]
AtBy(path) == [op |-> "At", path |-> path]
EraseBy(path) == [op |-> "Erase", path |-> path]

MCCallsOf == [t \in {t1, t2} |->
  IF t = t1
  THEN {SetBy(<<"a", "u">>, s1), Emplace(<<"l">>, s1), Get(<<"x">>, "Map", TRUE),
        AtBy(<<"x", "x", "u">>), Emplace(<<"x">>, s1)}
  ELSE {InsertBy(<<"a", "v">>, s2), Emplace(<<"l">>, s2), Get(<<"a">>, "Any", FALSE),
        EraseBy(<<"x">>), SetBy(<<"x">>, s2), Emplace(<<"x">>, s2), InsertBy(<<"x">>, s2)}]

MCPresent == [k \in MCKeys |-> IF k = "l" THEN s0 ELSE NoEntry]
MCKept == {"a", "l"}
MCKindAt == [k \in MCKept |-> IF k = "a" THEN "Map" ELSE "Array"]
MCRefusable == {<<Root, "x">>}
=============================================================================
