------------------------------ MODULE MCSweep ------------------------------
(* Instances of Sweep for TLC. *)
EXTENDS Sweep, TLC

CONSTANTS d1, d2, w1, hot, i1, i2, h1, h2

\* Two deposits to one wallet, of one token each.
SharedWallet == [d \in {d1, d2} |-> w1]
UnitAmount == [d \in {d1, d2} |-> 1]
OneDeposit == [d \in {d1} |-> w1]
OneAmount == [d \in {d1} |-> 1]
\* 249 / 10^6 * 10^6 falls short in floating point.
OneAwkward == [d \in {d1} |-> 249]

\* Deposits to the same wallet, processes and hashes are interchangeable.
Symmetry == Permutations({d1, d2}) \cup Permutations({i1, i2})
              \cup Permutations({h1, h2})
ProcessSymmetry == Permutations({i1, i2}) \cup Permutations({h1, h2})
=============================================================================
