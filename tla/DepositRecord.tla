---------------------------- MODULE DepositRecord ----------------------------
(***************************************************************************)
(* What the tables Deposit and CallbackLog promise together, with chain,    *)
(* workers and failures left out: a deposit is detected once, confirmed     *)
(* once, and from the step that confirms it on it has one callback, whose   *)
(* outcome may be overwritten, and which is set back only from FAILED.      *)
(* DepositScan, DepositConfirm and Callback each write one part of it, and  *)
(* TestConsole reads it: each implements this with its part in the steps.   *)
(***************************************************************************)
CONSTANT Deposits

VARIABLES
  row,      \* deposit -> its Deposit row: "none", "DETECTED" or "CONFIRMED"
  callback  \* deposit -> the status of its CallbackLog row, or "none"

vars == <<row, callback>>

Outcome == {"SUCCESS", "FAILED"}

\* The story is taken up at any point: only confirmed deposits have a callback,
\* and all of them.
Init ==
  /\ row \in [Deposits -> {"none", "DETECTED", "CONFIRMED"}]
  /\ callback \in [Deposits -> {"none", "PENDING"} \cup Outcome]
  /\ \A d \in Deposits : row[d] = "CONFIRMED" <=> callback[d] # "none"

Detect(d) ==
  /\ row[d] = "none"
  /\ row' = [row EXCEPT ![d] = "DETECTED"]
  /\ UNCHANGED callback

\* One database transaction.
Confirm(d) ==
  /\ row[d] = "DETECTED" /\ callback[d] = "none"
  /\ row' = [row EXCEPT ![d] = "CONFIRMED"]
  /\ callback' = [callback EXCEPT ![d] = "PENDING"]

Settle(d) ==
  /\ callback[d] = "PENDING"
  /\ \E o \in Outcome : callback' = [callback EXCEPT ![d] = o]
  /\ UNCHANGED row

\* The update of another process comes later.
Overwrite(d) ==
  /\ callback[d] \in Outcome
  /\ \E o \in Outcome : callback' = [callback EXCEPT ![d] = o]
  /\ UNCHANGED row

\* An operator sets failed callbacks back, several at once.
SetBack(ds) ==
  /\ \A d \in ds : callback[d] = "FAILED"
  /\ callback' = [d \in Deposits |-> IF d \in ds THEN "PENDING" ELSE callback[d]]
  /\ UNCHANGED row

Next ==
  \/ \E d \in Deposits : Detect(d) \/ Confirm(d) \/ Settle(d) \/ Overwrite(d)
  \/ \E ds \in SUBSET Deposits : SetBack(ds)

Spec == Init /\ [][Next]_vars
=============================================================================
