--------------------------- MODULE MCDepositScan ---------------------------
(* Instances of DepositScan for TLC.  Scanning starts after block 1 and the *)
(* last block it can reach is 6, or 7 where events come late; the transfers *)
(* lie at both ends, in the middle, and two of them share a block.          *)
EXTENDS DepositScan

CONSTANTS t1, t2, t3, t4, x1, x2, x3, x4

Blocks == [t \in {t1, t2, t3, t4} |->
             CASE t = t1 -> 2 [] t \in {t2, t3} -> 4 [] t = t4 -> 6]
OwnTx == [t \in {t1, t2, t3, t4} |->
            CASE t = t1 -> x1 [] t = t2 -> x2 [] t = t3 -> x3 [] t = t4 -> x4]
\* One transaction pays two wallets.
SharedTx == [OwnTx EXCEPT ![t3] = x2]
=============================================================================
