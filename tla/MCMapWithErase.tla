-------------------------- MODULE MCMapWithErase --------------------------
(* MapWithErase with three keys and one plain value, enough for a tombstone *)
(* before, between and after visible entries.                              *)
EXTENDS MapWithErase, TLC

CONSTANTS a, b

MCKeys == 1..3
OneValue == {a}
TwoKeys == 1..2
TwoValues == {a, b}
=============================================================================
