---------------------------- MODULE StampSource ----------------------------
(***************************************************************************)
(* What a source of time stamps promises its callers, however many threads *)
(* call it: every stamp it hands out is larger than every stamp handed out *)
(* before.  Two stamps are therefore never equal, none equals the reserved *)
(* "absent" stamp, and a call that begins after another one returned gets  *)
(* the larger stamp.                                                       *)
(***************************************************************************)
EXTENDS Integers

CONSTANT Absent      \* the reserved stamp, smaller than any stamp handed out

VARIABLES
  last,        \* the stamp handed out most recently
  handed       \* how many were handed out; the same stamp again would count

Init == last = Absent /\ handed = 0

HandOut ==
  /\ last' \in Int /\ last' > last
  /\ handed' = handed + 1

Spec == Init /\ [][HandOut]_<<last, handed>>
=============================================================================
