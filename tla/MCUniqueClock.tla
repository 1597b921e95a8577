--------------------------- MODULE MCUniqueClock ---------------------------
(* A small instance of UniqueClock: three threads and a clock that may     *)
(* stand still, step back and jump ahead of prev.                          *)
EXTENDS UniqueClock, TLC

CONSTANTS t1, t2, t3

MCThreads == {t1, t2, t3}
MCReadings == {-1, 2, 4}
MCAbsent == -3
=============================================================================
