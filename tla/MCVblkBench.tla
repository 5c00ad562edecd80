----------------------------- MODULE MCVblkBench -----------------------------
(* A small instance of VblkBench for TLC: virtual blocks of 4 units to 20, *)
(* with ints of up to 15.                                                  *)
EXTENDS VblkBench

SmallIntMax == 15

=============================================================================
