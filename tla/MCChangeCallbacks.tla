-------------------------- MODULE MCChangeCallbacks --------------------------
(* Instances of ChangeCallbacks: up to three callbacks with two functions, *)
(* registered under ids of the callers' choice or new ones.                *)
EXTENDS ChangeCallbacks

CONSTANTS f, g
TwoCallbacks == {f, g}
AnyId == Ids
=============================================================================
