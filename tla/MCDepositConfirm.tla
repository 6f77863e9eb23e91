-------------------------- MODULE MCDepositConfirm --------------------------
(* Instances of DepositConfirm for TLC. *)
EXTENDS DepositConfirm

CONSTANTS w1, w2, i1, i2

\* Three deposits, the first and the last to the same wallet, of 2, 2 and 1:
\* only with what a failed sweep of the first left is the last worth a sweep.
ThreeDeposits == [d \in 1..3 |-> IF d = 2 THEN w2 ELSE w1]
SmallAmounts == [d \in 1..3 |-> IF d = 3 THEN 1 ELSE 2]
=============================================================================
