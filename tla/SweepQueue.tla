----------------------------- MODULE SweepQueue -----------------------------
(***************************************************************************)
(* What the workers rely on each other for at the table SweepJob, with      *)
(* chain, locks and failures left out: a deposit is confirmed once, only    *)
(* its confirmation queues the sweep of it, and a sweep that has left the   *)
(* queue does not come back.  DepositConfirm implements this with the work  *)
(* of SweepWorker cut down to its outcomes, and Sweep with the confirmation *)
(* in one step.                                                             *)
(***************************************************************************)
CONSTANT Deposits

VARIABLES
  confirmed,  \* deposits with the status CONFIRMED
  queue       \* deposit -> whether its SweepJob is still to come, there, or gone

vars == <<confirmed, queue>>

Init ==
  /\ confirmed = {}
  /\ queue = [d \in Deposits |-> "none"]

Confirm(d) ==
  /\ d \notin confirmed
  /\ confirmed' = confirmed \cup {d}
  /\ queue' \in {queue, [queue EXCEPT ![d] = "queued"]}

Leave(d) ==
  /\ queue[d] = "queued"
  /\ queue' = [queue EXCEPT ![d] = "gone"]
  /\ UNCHANGED confirmed

Next == \E d \in Deposits : Confirm(d) \/ Leave(d)

Spec == Init /\ [][Next]_vars
=============================================================================
