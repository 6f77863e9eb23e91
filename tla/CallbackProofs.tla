--------------------------- MODULE CallbackProofs ---------------------------
(***************************************************************************)
(* Proofs about Callback, for any rows, processes, failures and retries.    *)
(* Updates by id overwrite each other freely; what holds all the same rests *)
(* on what each worker knows of the rows in its hands (InHand).             *)
(***************************************************************************)
EXTENDS Callback, TLAPS

\* Rows still to visit, and the row in hand.
Held(i) == batch[i] \cup {c \in Callbacks : at[i] = c /\ pc[i] \in {"success", "failure"}}

\* A row in hand was due when it was fetched, and is posted before it is marked.
InHand ==
  \A i \in Instances :
    /\ pc[i] \in {"success", "failure"} => at[i] \in Callbacks
    /\ pc[i] = "success" => at[i] \in accepted
    /\ \A c \in Held(i) : snapshot[i][c] < MaxAttempts

Sound == TypeOK /\ InHand /\ SuccessWasAccepted /\ PendingIsDue

\* The base case: every row is PENDING and none is in anybody's hands.
LEMMA SoundInit == Init => Sound
  BY CallbackAssumption
  DEF Init, Sound, TypeOK, InHand, Held, SuccessWasAccepted, PendingIsDue, Due

\* Leaving a row keeps what is known of the rest of the snapshot.
LEMMA LeaveKeepsHands ==
  ASSUME Sound, NEW i \in Instances, NEW rest \in SUBSET batch[i],
         LeaveRow(i, rest), UNCHANGED accepted
  PROVE  /\ pc' \in [Instances -> {"idle", "post", "success", "failure"}]
         /\ batch' \in [Instances -> SUBSET Callbacks]
         /\ snapshot' \in [Instances -> [Callbacks -> 0..MaxAttempts]]
         /\ at' \in [Instances -> Callbacks \cup {None}]
         /\ InHand'
<1> USE CallbackAssumption DEF Sound, TypeOK, LeaveRow
<1>1. [c \in Callbacks |-> IF c \in rest THEN snapshot[i][c] ELSE 0]
        \in [Callbacks -> 0..MaxAttempts]
  OBVIOUS
<1>2. snapshot' \in [Instances -> [Callbacks -> 0..MaxAttempts]]
  BY <1>1
<1>3. InHand'
  BY DEF InHand, Held
<1>4. QED
  BY <1>2, <1>3

\* Every step of a worker, a failure or an operator keeps it.
LEMMA SoundStep == Sound /\ [Next]_vars => Sound'
<1> SUFFICES ASSUME Sound, [Next]_vars PROVE Sound'
  OBVIOUS
<1> USE CallbackAssumption DEF Sound, TypeOK, rowVars, workerVars
<1>1. ASSUME NEW i \in Instances, FetchDue(i) PROVE Sound'
  <2> DEFINE due == {c \in Callbacks : Due(c)}
             taken == [c \in Callbacks |-> IF c \in due THEN attempts[c] ELSE 0]
  <2>1. taken \in [Callbacks -> 0..MaxAttempts] /\ \A c \in due : taken[c] < MaxAttempts
    BY DEF Due
  <2>2. /\ snapshot' = [snapshot EXCEPT ![i] = taken]
        /\ batch' = [batch EXCEPT ![i] = due]
        /\ pc' = [pc EXCEPT ![i] = IF due = {} THEN "idle" ELSE "post"]
        /\ UNCHANGED <<rowVars, accepted, at, faults, retries>>
    BY <1>1 DEF FetchDue
  <2> HIDE DEF due, taken
  <2>3. due \subseteq Callbacks
    BY DEF due
  <2>4. TypeOK'
    BY <2>1, <2>2, <2>3
  <2>5. InHand'
    BY <2>1, <2>2, <2>3 DEF InHand, Held
  <2>6. QED
    BY <2>2, <2>4, <2>5 DEF SuccessWasAccepted, PendingIsDue, Due
<1>2. ASSUME NEW i \in Instances, NEW c \in Callbacks,
             PostAccepted(i, c) \/ PostRejected(i, c)
      PROVE  Sound'
  <2>1. PICK label \in {"success", "failure"} :
          /\ Posting(i, c, label)
          /\ accepted' \in {accepted, accepted \cup {c}}
          /\ label = "success" => c \in accepted'
    BY <1>2 DEF PostAccepted, PostRejected
  <2>2. /\ c \in batch[i] /\ accepted \subseteq accepted' /\ accepted' \subseteq Callbacks
        /\ batch' = [batch EXCEPT ![i] = @ \ {c}]
        /\ at' = [at EXCEPT ![i] = c]
        /\ pc' = [pc EXCEPT ![i] = label]
        /\ UNCHANGED <<status, attempts, snapshot, faults, retries>>
    BY <2>1 DEF Posting
  <2>3. TypeOK'
    BY <2>2
  <2>4. InHand'
    BY <2>1, <2>2 DEF InHand, Held
  <2>5. SuccessWasAccepted' /\ PendingIsDue'
    BY <2>2 DEF SuccessWasAccepted, PendingIsDue, Due
  <2>6. QED
    BY <2>3, <2>4, <2>5
<1>3. ASSUME NEW i \in Instances, MarkSuccess(i) \/ MarkFailure(i) PROVE Sound'
  <2>1. /\ LeaveRow(i, batch[i])
        /\ UNCHANGED <<accepted, faults, retries>>
        /\ attempts' = [attempts EXCEPT ![at[i]] = Attempt(i)]
    BY <1>3 DEF MarkSuccess, MarkFailure
  <2>2. at[i] \in Callbacks /\ Attempt(i) \in 1..MaxAttempts
    <3>1. at[i] \in Held(i) /\ at[i] \in Callbacks
      BY <1>3 DEF MarkSuccess, MarkFailure, InHand, Held
    <3>2. QED
      BY <3>1 DEF InHand, Attempt
  <2>3. \/ status' = [status EXCEPT ![at[i]] = "SUCCESS"] /\ at[i] \in accepted
        \/ status' = [status EXCEPT ![at[i]] = "FAILED"]
        \/ status' = status /\ Attempt(i) < MaxAttempts
    BY <1>3, <2>2 DEF MarkSuccess, MarkFailure, InHand
  <2>4. status' \in [Callbacks -> {"PENDING", "SUCCESS", "FAILED"}]
    BY <2>2, <2>3
  <2>5. attempts' \in [Callbacks -> 0..MaxAttempts]
    BY <2>1, <2>2
  <2>6. InHand' /\ TypeOK'
    BY <2>1, <2>4, <2>5, LeaveKeepsHands
  <2>7. SuccessWasAccepted' /\ PendingIsDue'
    BY <2>1, <2>2, <2>3 DEF SuccessWasAccepted, PendingIsDue, Due
  <2>8. QED
    BY <2>6, <2>7
<1>4. ASSUME NEW i \in Instances, SuccessNotSaved(i) PROVE Sound'
  BY <1>4 DEF SuccessNotSaved, Fault, InHand, Held, SuccessWasAccepted, PendingIsDue, Due
<1>5. ASSUME NEW i \in Instances, FailureNotSaved(i) \/ Crash(i) PROVE Sound'
  <2>1. LeaveRow(i, {}) /\ UNCHANGED <<rowVars, accepted, retries>> /\ faults' = faults + 1
    BY <1>5 DEF FailureNotSaved, Crash, Fault
  <2>2. InHand' /\ TypeOK'
    BY <2>1, LeaveKeepsHands
  <2>3. QED
    BY <2>1, <2>2 DEF SuccessWasAccepted, PendingIsDue, Due
<1>6. ASSUME NEW rows \in SUBSET Callbacks, RetryFailed(rows) PROVE Sound'
  BY <1>6 DEF RetryFailed, InHand, Held, SuccessWasAccepted, PendingIsDue, Due
<1>7. CASE UNCHANGED vars
  BY <1>7 DEF vars, InHand, Held, SuccessWasAccepted, PendingIsDue, Due
<1>8. QED
  BY <1>1, <1>2, <1>3, <1>4, <1>5, <1>6, <1>7 DEF Next, CallbackWorker

\* What holds of rows and workers, in every reachable state.
THEOREM SoundInvariant == Spec => []Sound
<1>1. QED
  BY SoundInit, SoundStep, PTL DEF Spec

\* A row marked SUCCESS was accepted by the partner, whatever fails and
\* whoever overwrites whom.
THEOREM AcceptedTheorem == Spec => []SuccessWasAccepted
<1>1. Sound => SuccessWasAccepted
  BY DEF Sound
<1>2. QED
  BY <1>1, SoundInvariant, PTL

\* No PENDING row falls out of the query, for any number of attempts,
\* processes and retries.
THEOREM DueTheorem == Spec => []PendingIsDue
<1>1. Sound => PendingIsDue
  BY DEF Sound
<1>2. QED
  BY <1>1, SoundInvariant, PTL

\* The variables keep their types, whatever is cut short.
THEOREM TypeCorrect == Spec => []TypeOK
<1>1. Sound => TypeOK
  BY DEF Sound
<1>2. QED
  BY <1>1, SoundInvariant, PTL
-----------------------------------------------------------------------------
\* One server process: the premise that run callback_overwritten does without.
OneInstance == \A i, j \in Instances : i = j

\* The rows that the only worker has still to mark are PENDING, and none of
\* them twice. The retry endpoints change FAILED rows, which are none of them.
StillPending ==
  \A i \in Instances :
    /\ \A c \in Held(i) : status[c] = "PENDING"
    /\ pc[i] \in {"success", "failure"} => at[i] \notin batch[i]

\* Nothing is in hand.
LEMMA PendingInit == Init => StillPending
  BY CallbackAssumption DEF Init, StillPending, Held

\* Every step keeps it, and takes no row out of SUCCESS.
LEMMA PendingStep ==
  ASSUME OneInstance, Sound, StillPending, [Next]_vars
  PROVE  StillPending' /\ \A c \in Callbacks : status[c] = "SUCCESS" => status'[c] = "SUCCESS"
<1> USE CallbackAssumption DEF Sound, TypeOK, rowVars, workerVars, OneInstance
<1> DEFINE Stands == \A c \in Callbacks : status[c] = "SUCCESS" => status'[c] = "SUCCESS"
<1>1. ASSUME NEW i \in Instances, FetchDue(i) PROVE StillPending' /\ Stands
  BY <1>1 DEF FetchDue, Due, StillPending, Held
<1>2. ASSUME NEW i \in Instances, NEW c \in Callbacks,
             PostAccepted(i, c) \/ PostRejected(i, c)
      PROVE  StillPending' /\ Stands
  BY <1>2 DEF PostAccepted, PostRejected, Posting, StillPending, Held
<1>3. ASSUME NEW i \in Instances, MarkSuccess(i) \/ MarkFailure(i)
      PROVE  StillPending' /\ Stands
  <2>1. /\ at[i] \in Callbacks /\ status[at[i]] = "PENDING" /\ at[i] \notin batch[i]
        /\ pc'[i] \notin {"success", "failure"} /\ batch'[i] = batch[i]
    BY <1>3 DEF MarkSuccess, MarkFailure, LeaveRow, InHand, StillPending, Held
  <2>2. \A c \in Callbacks : c # at[i] => status'[c] = status[c]
    BY <1>3 DEF MarkSuccess, MarkFailure
  <2>3. QED
    BY <2>1, <2>2 DEF StillPending, Held
<1>4. ASSUME NEW i \in Instances, SuccessNotSaved(i) PROVE StillPending' /\ Stands
  BY <1>4 DEF SuccessNotSaved, StillPending, Held
<1>5. ASSUME NEW i \in Instances, FailureNotSaved(i) \/ Crash(i) PROVE StillPending' /\ Stands
  BY <1>5 DEF FailureNotSaved, Crash, LeaveRow, StillPending, Held
<1>6. ASSUME NEW rows \in SUBSET Callbacks, RetryFailed(rows) PROVE StillPending' /\ Stands
  BY <1>6 DEF RetryFailed, StillPending, Held
<1>7. CASE UNCHANGED vars
  BY <1>7 DEF vars, StillPending, Held
<1>8. QED
  BY <1>1, <1>2, <1>3, <1>4, <1>5, <1>6, <1>7 DEF Next, CallbackWorker

\* With one server process no row leaves SUCCESS, whatever fails and whatever
\* is set back: only another process overwrites an outcome.
THEOREM OutcomeTheorem == ASSUME OneInstance PROVE Spec => OutcomeStands
<1>1. Sound /\ StillPending /\ [Next]_vars => StillPending'
  BY PendingStep
<1>2. Sound /\ StillPending /\ [Next]_vars
        => [\A c \in Callbacks : status[c] = "SUCCESS" => status'[c] = "SUCCESS"]_vars
  BY PendingStep
<1>3. QED
  BY <1>1, <1>2, PendingInit, SoundInvariant, PTL DEF Spec, OutcomeStands

\* A row that was given up has had its last attempt, and the row in hand is not one.
GivenUpLate == \A c \in Callbacks : status[c] = "FAILED" => attempts[c] = MaxAttempts

\* Only the attempt in hand is counted, and a row set back is no longer FAILED.
LEMMA GivenUpStep ==
  ASSUME OneInstance, Sound, StillPending, GivenUpLate, [Next]_vars
  PROVE  GivenUpLate'
<1> USE CallbackAssumption DEF Sound, TypeOK, rowVars, workerVars
<1>1. ASSUME NEW i \in Instances, MarkSuccess(i) PROVE GivenUpLate'
  BY <1>1 DEF MarkSuccess, InHand, GivenUpLate
<1>2. ASSUME NEW i \in Instances, MarkFailure(i) PROVE GivenUpLate'
  <2>1. at[i] \in Callbacks /\ at[i] \in Held(i) /\ status[at[i]] = "PENDING"
    BY <1>2 DEF MarkFailure, InHand, Held, StillPending
  <2>2. Attempt(i) >= MaxAttempts <=> Attempt(i) = MaxAttempts
    BY <2>1 DEF InHand, Attempt
  <2>3. attempts' = [attempts EXCEPT ![at[i]] = Attempt(i)]
    BY <1>2 DEF MarkFailure
  <2>4. CASE Attempt(i) = MaxAttempts
    <3>1. status' = [status EXCEPT ![at[i]] = "FAILED"]
      BY <1>2, <2>2, <2>4 DEF MarkFailure
    <3>2. \A c \in Callbacks : c # at[i] => status'[c] = status[c] /\ attempts'[c] = attempts[c]
      BY <2>1, <2>3, <3>1
    <3>3. attempts'[at[i]] = MaxAttempts
      BY <2>1, <2>3, <2>4
    <3>4. QED
      BY <3>2, <3>3 DEF GivenUpLate
  <2>5. CASE Attempt(i) # MaxAttempts
    BY <1>2, <2>1, <2>2, <2>3, <2>5 DEF MarkFailure, GivenUpLate
  <2>6. QED
    BY <2>4, <2>5
<1>3. ASSUME NEW rows \in SUBSET Callbacks, RetryFailed(rows) PROVE GivenUpLate'
  BY <1>3 DEF RetryFailed, GivenUpLate
<1>4. CASE UNCHANGED <<status, attempts>>
  BY <1>4 DEF GivenUpLate
<1>5. QED
  BY <1>1, <1>2, <1>3, <1>4
  DEF Next, CallbackWorker, FetchDue, PostAccepted, PostRejected, Posting, SuccessNotSaved,
      FailureNotSaved, Crash, vars

\* With one server process a callback is given up only after CALLBACK_MAX_ATTEMPTS
\* attempts since it was created or set back, whatever fails in between.
THEOREM GivenUpTheorem == ASSUME OneInstance PROVE Spec => []GivenUpLate
<1>1. Init => GivenUpLate
  BY DEF Init, GivenUpLate
<1>2. Sound /\ StillPending /\ [Next]_vars => StillPending'
  BY PendingStep
<1>3. Sound /\ StillPending /\ GivenUpLate /\ [Next]_vars => GivenUpLate'
  BY GivenUpStep
<1>4. QED
  BY <1>1, <1>2, <1>3, PendingInit, SoundInvariant, PTL DEF Spec
-----------------------------------------------------------------------------
\* How the status of a callback may change: an attempt settles it, an operator sets
\* back what has failed, and one process overwrites what another has stored.
Ways ==
  {<<"PENDING", "SUCCESS">>, <<"PENDING", "FAILED">>, <<"FAILED", "PENDING">>,
   <<"FAILED", "SUCCESS">>, <<"SUCCESS", "FAILED">>}

StatusWays == [][\A c \in Callbacks :
                  status'[c] # status[c] => <<status[c], status'[c]>> \in Ways]_vars

\* No delivered callback is posted again, although an outcome may be overwritten: no
\* step of any number of processes makes a SUCCESS row PENDING. This is what the test
\* console sees of its callback (module TestConsole, Onwards).
THEOREM WaysTheorem == Spec => StatusWays
<1> DEFINE ByTheWays == \A c \in Callbacks : status'[c] # status[c] => <<status[c], status'[c]>> \in Ways
<1>1. Sound /\ [Next]_vars => [ByTheWays]_vars
  <2> SUFFICES ASSUME Sound, Next PROVE ByTheWays
    OBVIOUS
  <2> USE DEF Sound, TypeOK, Ways
  <2>1. ASSUME NEW i \in Instances, MarkSuccess(i) PROVE ByTheWays
    BY <2>1 DEF MarkSuccess
  <2>2. ASSUME NEW i \in Instances, MarkFailure(i) PROVE ByTheWays
    BY <2>2 DEF MarkFailure
  <2>3. ASSUME NEW rows \in SUBSET Callbacks, RetryFailed(rows) PROVE ByTheWays
    BY <2>3 DEF RetryFailed
  <2>4. CASE UNCHANGED status
    BY <2>4
  <2>5. QED
    BY <2>1, <2>2, <2>3, <2>4
    DEF Next, CallbackWorker, FetchDue, PostAccepted, PostRejected, Posting, SuccessNotSaved,
        FailureNotSaved, Crash, rowVars
<1>2. QED
  BY <1>1, SoundInvariant, PTL DEF Spec, StatusWays
-----------------------------------------------------------------------------
(* Callback implements DepositRecord: the part that follows the confirmation *)

AllConfirmed == [c \in Callbacks |-> "CONFIRMED"]

Record == INSTANCE DepositRecord
            WITH Deposits <- Callbacks, row <- AllConfirmed, callback <- status

\* Every row is PENDING at the start.
LEMMA RecordInit == Init => Record!Init
  BY DEF Init, Record!Init, Record!Outcome, AllConfirmed

\* A worker settles its row or overwrites what another has made of it; an operator sets
\* failed rows back.
LEMMA RecordStep ==
  ASSUME Sound, [Next]_vars
  PROVE  [Record!Next]_(Record!vars)
<1>0. /\ status \in [Callbacks -> {"PENDING", "SUCCESS", "FAILED"}]
      /\ \A i \in Instances : pc[i] \in {"success", "failure"} => at[i] \in Callbacks
  BY DEF Sound, TypeOK, InHand
<1>1. CASE UNCHANGED status
  BY <1>1 DEF Record!vars, AllConfirmed
<1>2. ASSUME NEW c \in Callbacks, NEW o \in Record!Outcome, status' = [status EXCEPT ![c] = o]
      PROVE  Record!Settle(c) \/ Record!Overwrite(c)
  BY <1>0, <1>2 DEF Record!Settle, Record!Overwrite, Record!Outcome, AllConfirmed
<1>3. ASSUME NEW i \in Instances, MarkSuccess(i) PROVE Record!Next
  BY <1>0, <1>2, <1>3 DEF MarkSuccess, Record!Outcome, Record!Next
<1>4. ASSUME NEW i \in Instances, MarkFailure(i), ~ UNCHANGED status PROVE Record!Next
  BY <1>0, <1>2, <1>4 DEF MarkFailure, Record!Outcome, Record!Next
<1>5. ASSUME NEW rows \in SUBSET Callbacks, RetryFailed(rows) PROVE Record!SetBack(rows)
  BY <1>5 DEF RetryFailed, Record!SetBack, AllConfirmed
<1>6. QED
  BY <1>1, <1>3, <1>4, <1>5
  DEF Next, CallbackWorker, FetchDue, PostAccepted, PostRejected, Posting, SuccessNotSaved,
      FailureNotSaved, Crash, vars, rowVars, Record!Next

\* A callback reaches an outcome, may swap it for the other when two processes had it, and
\* starts again only when it has failed and is set back: the last part of the life of a deposit.
THEOREM RecordTheorem == Spec => Record!Spec
<1>1. Sound /\ [Next]_vars => [Record!Next]_(Record!vars)
  BY RecordStep
<1>2. QED
  BY <1>1, RecordInit, SoundInvariant, PTL DEF Spec, Record!Spec
=============================================================================
