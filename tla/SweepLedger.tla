---------------------------- MODULE SweepLedger ----------------------------
(***************************************************************************)
(* What SweepLog promises, with queue, workers and failures left out: the   *)
(* chain decides the outcome of every transfer once and for good; the book  *)
(* takes a transfer up at most once, and closes it with the outcome the     *)
(* chain has decided and no other.  Sweep implements this.                  *)
(***************************************************************************)
CONSTANT Entries

VARIABLES
  outcome,  \* what the chain decided about a transfer
  book      \* what SweepLog says about it

vars == <<outcome, book>>

TypeOK ==
  /\ outcome \in [Entries -> {"open", "paid", "void"}]
  /\ book \in [Entries -> {"none", "open", "paid", "void"}]

Init ==
  /\ outcome = [e \in Entries |-> "open"]
  /\ book = [e \in Entries |-> "none"]

Decide(e) ==
  /\ outcome[e] = "open"
  /\ \E o \in {"paid", "void"} : outcome' = [outcome EXCEPT ![e] = o]
  /\ UNCHANGED book

Enter(e) ==
  /\ book[e] = "none"
  /\ book' = [book EXCEPT ![e] = "open"]
  /\ UNCHANGED outcome

Close(e) ==
  /\ book[e] = "open" /\ outcome[e] # "open"
  /\ book' = [book EXCEPT ![e] = outcome[e]]
  /\ UNCHANGED outcome

Next == \E e \in Entries : Decide(e) \/ Enter(e) \/ Close(e)

Spec == Init /\ [][Next]_vars
=============================================================================
