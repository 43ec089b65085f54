------------------------------ MODULE MCCOPFeed ------------------------------
(***************************************************************************)
(* COPFeed with the guard's thresholds scaled down (a gap of 1 for 50, a    *)
(* quiet period of 1 s for 10 s), small enough to pass both several times,  *)
(* and packets late enough to fall behind by more than the gap.             *)
(***************************************************************************)
EXTENDS COPFeed
=============================================================================
