------------------------------ MODULE Callback ------------------------------
(***************************************************************************)
(* CallbackWorker and the retry endpoints.  A CallbackLog row is posted to  *)
(* the partner until the partner answers 2xx or CALLBACK_MAX_ATTEMPTS       *)
(* attempts have failed; an operator may put FAILED rows back.  The worker  *)
(* counts from the attemptCount of its findMany snapshot and its updates    *)
(* ask for the id only, never for the status or the count they replace.     *)
(***************************************************************************)
EXTENDS Integers

CONSTANTS
  Callbacks,    \* CallbackLog rows
  Instances,    \* server processes
  MaxAttempts,  \* CALLBACK_MAX_ATTEMPTS
  None,
  Faults,       \* the kinds of failure that may happen
  MaxFaults,    \* bound: failures in a behaviour
  MaxRetries    \* bound: uses of the retry endpoints

ASSUME CallbackAssumption ==
  /\ None \notin Callbacks
  /\ MaxAttempts \in Nat \ {0}
  /\ Faults \subseteq {"db", "crash"}
  /\ MaxFaults \in Nat /\ MaxRetries \in Nat

VARIABLES
  status,     \* CallbackLog.status
  attempts,   \* CallbackLog.attemptCount
  accepted,   \* the partner has answered 2xx at least once
  pc,         \* worker: what the process awaits next
  batch,      \* worker: rows of its snapshot still to visit
  snapshot,   \* worker: their attemptCount when they were fetched
  at,         \* worker: row in hand
  faults, retries

vars == <<status, attempts, accepted, pc, batch, snapshot, at, faults, retries>>
rowVars == <<status, attempts>>
workerVars == <<pc, batch, snapshot, at>>

TypeOK ==
  /\ status \in [Callbacks -> {"PENDING", "SUCCESS", "FAILED"}]
  /\ attempts \in [Callbacks -> 0..MaxAttempts]
  /\ accepted \subseteq Callbacks
  /\ pc \in [Instances -> {"idle", "post", "success", "failure"}]
  /\ batch \in [Instances -> SUBSET Callbacks]
  /\ snapshot \in [Instances -> [Callbacks -> 0..MaxAttempts]]
  /\ at \in [Instances -> Callbacks \cup {None}]
  /\ faults \in Nat /\ retries \in Nat

Init ==
  /\ status = [c \in Callbacks |-> "PENDING"]
  /\ attempts = [c \in Callbacks |-> 0]
  /\ accepted = {}
  /\ pc = [i \in Instances |-> "idle"]
  /\ batch = [i \in Instances |-> {}]
  /\ snapshot = [i \in Instances |-> [c \in Callbacks |-> 0]]
  /\ at = [i \in Instances |-> None]
  /\ faults = 0 /\ retries = 0

----------------------------------------------------------------------------
(* CallbackWorker.process *)

\* Mutant of Due: the query takes the FAILED rows as well.
DueUnsuccessful(c) == status[c] # "SUCCESS"

\* The where clause of findAllUnSucces.
Due(c) == status[c] = "PENDING" /\ attempts[c] < MaxAttempts

\* findAllUnSucces
FetchDue(i) ==
  LET due == {c \in Callbacks : Due(c)} IN
  /\ pc[i] = "idle"
  /\ batch' = [batch EXCEPT ![i] = due]
  /\ snapshot' = [snapshot EXCEPT ![i] =
                    [c \in Callbacks |-> IF c \in due THEN attempts[c] ELSE 0]]
  /\ pc' = [pc EXCEPT ![i] = IF due = {} THEN "idle" ELSE "post"]
  /\ UNCHANGED <<rowVars, accepted, at, faults, retries>>

\* The number of the attempt in hand.
Attempt(i) == snapshot[i][at[i]] + 1

Posting(i, c, label) ==
  /\ pc[i] = "post" /\ c \in batch[i]
  /\ batch' = [batch EXCEPT ![i] = @ \ {c}]
  /\ at' = [at EXCEPT ![i] = c]
  /\ pc' = [pc EXCEPT ![i] = label]
  /\ UNCHANGED <<rowVars, snapshot, faults, retries>>

\* The partner answers 2xx.
PostAccepted(i, c) ==
  /\ Posting(i, c, "success")
  /\ accepted' = accepted \cup {c}

\* Mutant of PostRejected: every answer counts as success.
PostRejectedTaken(i, c) ==
  /\ Posting(i, c, "success")
  /\ UNCHANGED accepted

\* It answers anything else, or nothing within the timeout: then it may have
\* taken the callback all the same.
PostRejected(i, c) ==
  /\ Posting(i, c, "failure")
  /\ accepted' \in {accepted, accepted \cup {c}}

\* The row in hand is done with: on to the rest of the snapshot.
LeaveRow(i, rest) ==
  /\ pc' = [pc EXCEPT ![i] = IF rest = {} THEN "idle" ELSE "post"]
  /\ batch' = [batch EXCEPT ![i] = rest]
  /\ at' = [at EXCEPT ![i] = None]
  /\ snapshot' = [snapshot EXCEPT ![i] =
                    [c \in Callbacks |-> IF c \in rest THEN snapshot[i][c] ELSE 0]]

MarkSuccess(i) ==
  /\ pc[i] = "success"
  /\ status' = [status EXCEPT ![at[i]] = "SUCCESS"]
  /\ attempts' = [attempts EXCEPT ![at[i]] = Attempt(i)]
  /\ LeaveRow(i, batch[i])
  /\ UNCHANGED <<accepted, faults, retries>>

\* Mutant of MarkFailure: the last attempt is counted one too late.
MarkFailureLate(i) ==
  /\ pc[i] = "failure"
  /\ status' = IF Attempt(i) > MaxAttempts
                 THEN [status EXCEPT ![at[i]] = "FAILED"] ELSE status
  /\ attempts' = [attempts EXCEPT ![at[i]] = Attempt(i)]
  /\ LeaveRow(i, batch[i])
  /\ UNCHANGED <<accepted, faults, retries>>

\* The catch block: count the attempt, and give up after the last one.
MarkFailure(i) ==
  /\ pc[i] = "failure"
  /\ status' = IF Attempt(i) >= MaxAttempts
                 THEN [status EXCEPT ![at[i]] = "FAILED"] ELSE status
  /\ attempts' = [attempts EXCEPT ![at[i]] = Attempt(i)]
  /\ LeaveRow(i, batch[i])
  /\ UNCHANGED <<accepted, faults, retries>>

----------------------------------------------------------------------------
(* Failures *)

Fault(kind) ==
  /\ kind \in Faults
  /\ faults < MaxFaults
  /\ faults' = faults + 1

\* The update to SUCCESS fails: the catch block takes it for a failed attempt.
SuccessNotSaved(i) ==
  /\ Fault("db")
  /\ pc[i] = "success"
  /\ pc' = [pc EXCEPT ![i] = "failure"]
  /\ UNCHANGED <<rowVars, accepted, batch, snapshot, at, retries>>

\* The update in the catch block fails: the error leaves process().
FailureNotSaved(i) ==
  /\ Fault("db")
  /\ pc[i] = "failure"
  /\ LeaveRow(i, {})
  /\ UNCHANGED <<rowVars, accepted, retries>>

Crash(i) ==
  /\ Fault("crash")
  /\ pc[i] # "idle"
  /\ LeaveRow(i, {})
  /\ UNCHANGED <<rowVars, accepted, retries>>

----------------------------------------------------------------------------
\* Mutant of RetryFailed: the attempts are not set back.
RetryFailedKeepsCount(rows) ==
  /\ retries < MaxRetries /\ retries' = retries + 1
  /\ rows # {} /\ \A c \in rows : status[c] = "FAILED"
  /\ status' = [c \in Callbacks |-> IF c \in rows THEN "PENDING" ELSE status[c]]
  /\ UNCHANGED <<attempts, accepted, workerVars, faults>>

\* retryFailedIds (the FAILED ones of some rows) and retryFailedAll.
RetryFailed(rows) ==
  /\ retries < MaxRetries /\ retries' = retries + 1
  /\ rows # {} /\ \A c \in rows : status[c] = "FAILED"
  /\ status' = [c \in Callbacks |-> IF c \in rows THEN "PENDING" ELSE status[c]]
  /\ attempts' = [c \in Callbacks |-> IF c \in rows THEN 0 ELSE attempts[c]]
  /\ UNCHANGED <<accepted, workerVars, faults>>

CallbackWorker(i) ==
  \/ FetchDue(i) \/ MarkSuccess(i) \/ MarkFailure(i)
  \/ \E c \in Callbacks : PostAccepted(i, c) \/ PostRejected(i, c)

Next ==
  \/ \E i \in Instances :
       CallbackWorker(i) \/ SuccessNotSaved(i) \/ FailureNotSaved(i) \/ Crash(i)
  \/ \E rows \in SUBSET Callbacks : RetryFailed(rows)

Spec == Init /\ [][Next]_vars

\* The workers poll for as long as the process runs; the request has a timeout.
FairSpec == Spec /\ \A i \in Instances : WF_vars(CallbackWorker(i))

----------------------------------------------------------------------------
(* Properties *)

\* A row marked SUCCESS was accepted by the partner.
SuccessWasAccepted == \A c \in Callbacks : status[c] = "SUCCESS" => c \in accepted

\* No PENDING row falls out of the query: its count never reaches the
\* maximum, whichever process writes it last and whatever was set back.
PendingIsDue == \A c \in Callbacks : status[c] = "PENDING" => Due(c)

\* A delivered callback stays delivered: no step takes a row out of SUCCESS,
\* neither a late update of the worker nor a retry.
OutcomeStands ==
  [][\A c \in Callbacks : status[c] = "SUCCESS" => status'[c] = "SUCCESS"]_vars

\* Every callback reaches SUCCESS or FAILED, also after crashes and retries.
CallbacksEnd == \A c \in Callbacks : status[c] = "PENDING" ~> status[c] # "PENDING"
=============================================================================
