----------------------------- MODULE MCCallback -----------------------------
(* Instances of Callback for TLC. *)
EXTENDS Callback

CONSTANTS c1, c2, i1, i2
=============================================================================
