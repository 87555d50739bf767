----------------------------- MODULE MCSpscRing -----------------------------
(***************************************************************************)
(* SpscRing for TLC: four slots, counters of eight values, so that they    *)
(* wrap around every second turn of the ring, and batches of at most two,  *)
(* so that a pop may leave messages behind.                                *)
(***************************************************************************)
EXTENDS SpscRing

CONSTANTS m1, m2

MCItem == {m1, m2}
=============================================================================
