------------------------ MODULE DepositConfirmProofs ------------------------
(***************************************************************************)
(* Proofs about DepositConfirm, for any number of deposits, wallets and     *)
(* processes and any amounts.  NoFundsForgotten is about wallets all of     *)
(* whose deposits are confirmed; what is kept on the way there is Covered.  *)
(***************************************************************************)
EXTENDS DepositConfirm, TLAPS

\* Deposits still to visit, and the one in hand.
Held(i) == batch[i] \cup {d \in Deposits : at[i] = d}

\* A deposit in hand has a row and was deep enough when it was fetched.
InHand == \A i \in Instances : \A d \in Held(i) :
            Deep(d) /\ status[d] \in {"DETECTED", "CONFIRMED"}

\* A job comes with the confirmation.
JobOnlyConfirmed == \A d \in Deposits : status[d] # "CONFIRMED" => job[d] = "none"

\* The money of a wallet waits for a job, is about to leave, was left by a
\* sweep that failed since the last payment, or some payment to the wallet is
\* still to be confirmed and whoever has read its balance has seen all of it.
Awaited(d) ==
  \/ status[d] = "onchain"
  \/ status[d] = "DETECTED" /\ \A i \in Instances : at[i] = d => seen[i] >= token[WalletOf[d]]

Covered(w) ==
  \/ Queued(w) \/ Leaving(w) \/ failed[w]
  \/ \E d \in Deposits : WalletOf[d] = w /\ Awaited(d)

Sound ==
  /\ TypeOK
  /\ InHand
  /\ JobOnlyConfirmed
  /\ OneCallbackPerConfirmed
  /\ ConfirmedIsDeep
  /\ \A w \in Wallets : token[w] > Minimum => Covered(w)

\* The base case: nothing is paid yet.
LEMMA SoundInit == Init => Sound
  BY ConfirmAssumption
  DEF Init, Sound, TypeOK, InHand, Held, JobOnlyConfirmed, OneCallbackPerConfirmed,
      ConfirmedIsDeep, Deposits

\* Every step of a worker, of the chain or of a sweep keeps it.
LEMMA SoundStep == Sound /\ [Next]_vars => Sound'
<1> SUFFICES ASSUME Sound, [Next]_vars PROVE Sound'
  OBVIOUS
<1> USE ConfirmAssumption DEF Sound, TypeOK, InHand, Held, JobOnlyConfirmed,
      OneCallbackPerConfirmed, ConfirmedIsDeep, Covered, Queued, Leaving, Awaited, workerVars, sweepVars
<1> DEFINE Positive == 0 \notin Deposits
<1>0. Positive
  BY DEF Deposits
<1>1. CASE NewBlock
  BY <1>1 DEF NewBlock, Deep
<1>2. ASSUME NEW d \in Deposits, Pay(d) PROVE Sound'
  <2>1. status[d] = "none" /\ status' = [status EXCEPT ![d] = "onchain"]
    BY <1>2 DEF Pay
  <2>2. \A i \in Instances : d \notin Held(i)
    BY <2>1
  <2>3. InHand' /\ ConfirmedIsDeep'
    BY <1>2, <2>1, <2>2 DEF Pay, Deep
  <2>4. \A w \in Wallets : token'[w] > Minimum => Covered(w)'
    <3>1. Covered(WalletOf[d])'
      BY <2>1
    <3>2. ASSUME NEW w \in Wallets, w # WalletOf[d], token'[w] > Minimum
          PROVE  Covered(w)'
      BY <1>2, <3>2, <2>1 DEF Pay
    <3>3. QED
      BY <3>1, <3>2
  <2>5. TypeOK'
    BY <1>2 DEF Pay
  <2>6. QED
    BY <1>2, <2>3, <2>4, <2>5 DEF Pay
<1>3. ASSUME NEW d \in Deposits, Detect(d) PROVE Sound'
  <2>1. \A i \in Instances : d \notin Held(i)
    BY <1>3 DEF Detect
  <2>2. \A w \in Wallets : token'[w] > Minimum => Covered(w)'
    BY <1>3, <2>1 DEF Detect
  <2>3. QED
    BY <1>3, <2>1, <2>2 DEF Detect, Deep
<1>4. ASSUME NEW d \in Deposits, Sweep(d) PROVE Sound'
  <2>1. CASE BroadcastSweep(d)
    <3>1. /\ job' = [job EXCEPT ![d] = "done"] /\ job[d] = "PENDING"
          /\ sweep' = [sweep EXCEPT ![d] = token[WalletOf[d]]] /\ token[WalletOf[d]] > 0
          /\ UNCHANGED <<head, status, block, callbacks, token, failed, batch, at, seen, faults>>
      BY <2>1 DEF BroadcastSweep
    <3>2. Leaving(WalletOf[d])'
      BY <3>1
    <3>3. ASSUME NEW w \in Wallets, w # WalletOf[d], token'[w] > Minimum PROVE Covered(w)'
      BY <3>1, <3>3
    <3>4. QED
      BY <3>1, <3>2, <3>3 DEF Deep
  <2>2. CASE SkipSweep(d)
    <3>1. /\ job' = [job EXCEPT ![d] = "done"] /\ job[d] = "PENDING"
          /\ token[WalletOf[d]] = 0
          /\ UNCHANGED <<head, status, block, callbacks, token, sweep, failed, batch, at, seen, faults>>
      BY <2>2 DEF SkipSweep
    <3>2. ASSUME NEW w \in Wallets, token'[w] > Minimum PROVE Covered(w)'
      BY <3>1, <3>2
    <3>3. QED
      BY <3>1, <3>2 DEF Deep
  <2>3. CASE SweepMoves(d)
    <3>1. /\ sweep[d] \in 1..token[WalletOf[d]]
          /\ token' = [token EXCEPT ![WalletOf[d]] = @ - sweep[d]]
          /\ sweep' = [sweep EXCEPT ![d] = 0]
          /\ UNCHANGED <<head, status, block, callbacks, job, failed, batch, at, seen, faults>>
      BY <2>3 DEF SweepMoves
    <3>2. TypeOK' /\ \A w \in Wallets : token'[w] \in Nat /\ token'[w] <= token[w]
      BY <3>1
    <3>3. ASSUME NEW w \in Wallets, token'[w] > Minimum PROVE Covered(w)'
      <4>1. Covered(w)
        BY <3>2, <3>3
      <4>2. CASE Queued(w) \/ failed[w]
        BY <3>1, <4>2
      <4>3. ASSUME NEW e \in Deposits, WalletOf[e] = w, sweep[e] > 0, token[w] - sweep[e] <= Minimum
            PROVE  Covered(w)'
        <5>1. e # d
          BY <3>1, <3>3, <4>3
        <5>2. sweep'[e] = sweep[e] /\ token'[w] - sweep[e] <= Minimum
          BY <3>1, <3>2, <4>3, <5>1
        <5>3. QED
          BY <4>3, <5>2
      <4>4. ASSUME NEW e \in Deposits, WalletOf[e] = w, Awaited(e) PROVE Awaited(e)'
        BY <3>1, <3>2, <4>4
      <4>5. \/ Queued(w) \/ failed[w] \/ Leaving(w)
            \/ \E e \in Deposits : WalletOf[e] = w /\ Awaited(e)
        BY <4>1
      <4>6. QED
        BY <4>2, <4>3, <4>4, <4>5
    <3>4. QED
      BY <3>1, <3>2, <3>3 DEF Deep
  <2>4. CASE SweepFails(d)
    <3>1. /\ sweep' = [sweep EXCEPT ![d] = 0]
          /\ failed' = [failed EXCEPT ![WalletOf[d]] = TRUE]
          /\ UNCHANGED <<head, status, block, callbacks, job, token, batch, at, seen, faults>>
      BY <2>4 DEF SweepFails
    <3>2. ASSUME NEW w \in Wallets, token'[w] > Minimum PROVE Covered(w)'
      BY <3>1, <3>2
    <3>3. QED
      BY <3>1, <3>2 DEF Deep
  <2>5. QED
    BY <1>4, <2>1, <2>2, <2>3, <2>4 DEF Sweep
<1>5. ASSUME NEW i \in Instances, FetchDetected(i) PROVE Sound'
  <2>1. batch'[i] \subseteq {d \in Deposits : status[d] = "DETECTED" /\ Deep(d)}
    BY <1>5 DEF FetchDetected
  <2>2. QED
    BY <1>5, <2>1 DEF FetchDetected, Deep
<1>6. ASSUME NEW i \in Instances, NEW d \in Deposits, ReadBalance(i, d) PROVE Sound'
  <2>1. d \in Held(i) /\ token[WalletOf[d]] \in Nat
    BY <1>6 DEF ReadBalance
  <2>2. \A w \in Wallets : token'[w] > Minimum => Covered(w)'
    BY <1>6, <2>1, <1>0 DEF ReadBalance
  <2>3. QED
    BY <1>6, <2>1, <2>2 DEF ReadBalance, Deep
<1>7. ASSUME NEW i \in Instances, ConfirmDeposit(i) PROVE Sound'
  <2>1. at[i] \in Deposits /\ at[i] \in Held(i)
    BY <1>7 DEF ConfirmDeposit
  <2>2. CASE status[at[i]] = "DETECTED"
    <3>1. /\ status' = [status EXCEPT ![at[i]] = "CONFIRMED"]
          /\ callbacks' = [callbacks EXCEPT ![at[i]] = @ + 1]
          /\ job' = IF seen[i] > Minimum THEN [job EXCEPT ![at[i]] = "PENDING"] ELSE job
          /\ at' = [at EXCEPT ![i] = 0] /\ seen' = [seen EXCEPT ![i] = 0]
          /\ UNCHANGED <<head, block, token, sweep, failed, batch, faults>>
      BY <1>7, <2>1, <2>2 DEF ConfirmDeposit, Confirm, DepositDone
    <3>2. TypeOK' /\ OneCallbackPerConfirmed' /\ JobOnlyConfirmed'
      BY <2>1, <2>2, <3>1
    <3>3. InHand' /\ ConfirmedIsDeep'
      BY <2>1, <2>2, <3>1, <1>0 DEF Deep
    <3>4. ASSUME NEW w \in Wallets, token'[w] > Minimum PROVE Covered(w)'
      <4>1. CASE Queued(w)
        BY <4>1, <2>1, <3>1
      <4>2. ASSUME NEW d \in Deposits, WalletOf[d] = w, Awaited(d), d # at[i]
            PROVE  Covered(w)'
        BY <4>2, <2>1, <3>1, <1>0
      <4>3. CASE WalletOf[at[i]] = w /\ Awaited(at[i])
        BY <4>3, <2>1, <2>2, <3>1, <3>4
      <4>4. CASE Leaving(w) \/ failed[w]
        BY <4>4, <3>1
      <4>5. \/ Queued(w) \/ Leaving(w) \/ failed[w]
            \/ \E d \in Deposits : WalletOf[d] = w /\ Awaited(d)
        BY <3>1, <3>4
      <4> HIDE DEF Covered, Queued, Leaving, Awaited
      <4>6. QED
        BY <4>1, <4>2, <4>3, <4>4, <4>5
    <3>5. QED
      BY <3>2, <3>3, <3>4
  <2>3. CASE status[at[i]] # "DETECTED"
    <3>1. /\ at' = [at EXCEPT ![i] = 0] /\ seen' = [seen EXCEPT ![i] = 0]
          /\ UNCHANGED <<head, status, callbacks, job, block, token, sweep, failed, batch, faults>>
      BY <1>7, <2>3 DEF ConfirmDeposit, DepositDone
    <3>2. \A w \in Wallets : token'[w] > Minimum => Covered(w)'
      BY <3>1, <1>0
    <3>3. QED
      BY <3>1, <3>2, <1>0 DEF Deep
  <2>4. QED
    BY <2>2, <2>3
<1>8. ASSUME NEW i \in Instances, Abort(i) PROVE Sound'
  <2>1. /\ at' = [at EXCEPT ![i] = 0] /\ seen' = [seen EXCEPT ![i] = 0]
        /\ batch' = [batch EXCEPT ![i] = {}]
        /\ faults' = faults + 1
        /\ UNCHANGED <<head, status, callbacks, job, block, token, sweep, failed>>
    BY <1>8 DEF Abort, DepositDone
  <2>2. \A w \in Wallets : token'[w] > Minimum => Covered(w)'
    BY <2>1, <1>0
  <2>3. QED
    BY <2>1, <2>2, <1>0 DEF Deep
<1>9. CASE UNCHANGED vars
  BY <1>9 DEF vars, Deep
<1>10. QED
  BY <1>1, <1>2, <1>3, <1>4, <1>5, <1>6, <1>7, <1>8, <1>9 DEF Next, ConfirmWorker

\* What holds of deposits, jobs and workers, in every reachable state.
THEOREM SoundInvariant == Spec => []Sound
<1>1. QED
  BY SoundInit, SoundStep, PTL DEF Spec

\* One callback for a confirmed deposit and none for another, for any number
\* of processes confirming it at once.
THEOREM CallbackTheorem == Spec => []OneCallbackPerConfirmed
<1>1. Sound => OneCallbackPerConfirmed
  BY DEF Sound
<1>2. QED
  BY <1>1, SoundInvariant, PTL

\* No deposit is confirmed before it is deep enough.
THEOREM DeepTheorem == Spec => []ConfirmedIsDeep
<1>1. Sound => ConfirmedIsDeep
  BY DEF Sound
<1>2. QED
  BY <1>1, SoundInvariant, PTL

\* Once all payments to a wallet are confirmed, money above the minimum has a
\* job or is about to leave, or a sweep of the wallet failed after its last
\* payment: although each deposit decides on a balance read earlier, and the
\* chain on each sweep long after its job is gone.
THEOREM FundsTheorem == Spec => []NoFundsForgotten
<1>1. Sound => NoFundsForgotten
  BY DEF Sound, Covered, Awaited, NoFundsForgotten, Settled
<1>2. QED
  BY <1>1, SoundInvariant, PTL

\* The variables keep their types, whatever is cut short.
THEOREM TypeCorrect == Spec => []TypeOK
<1>1. Sound => TypeOK
  BY DEF Sound
<1>2. QED
  BY <1>1, SoundInvariant, PTL
-----------------------------------------------------------------------------
(* DepositConfirm implements SweepQueue: the half that queues *)

Confirmed == {d \in Deposits : status[d] = "CONFIRMED"}
Queue == [d \in Deposits |->
  IF job[d] = "none" THEN "none" ELSE IF job[d] = "PENDING" THEN "queued" ELSE "gone"]

JobQueue == INSTANCE SweepQueue WITH confirmed <- Confirmed, queue <- Queue

\* No deposit and no job at the start.
LEMMA QueueInit == Init => JobQueue!Init
  BY DEF Init, JobQueue!Init, Confirmed, Queue

\* Only the transaction of ConfirmDeposit and the end of a job change deposits or jobs.
LEMMA QueueStep ==
  ASSUME Sound, [Next]_vars
  PROVE  [JobQueue!Next]_(JobQueue!vars)
<1> USE DEF Sound, TypeOK
<1>1. ASSUME NEW d \in Deposits, BroadcastSweep(d) \/ SkipSweep(d) PROVE JobQueue!Leave(d)
  <2>1. Queue[d] = "queued" /\ Queue' = [Queue EXCEPT ![d] = "gone"]
    <3>1. job[d] = "PENDING" /\ job' = [job EXCEPT ![d] = "done"]
      BY <1>1 DEF BroadcastSweep, SkipSweep
    <3>2. QED
      BY <3>1 DEF Queue
  <2>2. UNCHANGED Confirmed
    BY <1>1 DEF BroadcastSweep, SkipSweep, Confirmed
  <2>3. QED
    BY <2>1, <2>2 DEF JobQueue!Leave
<1>2. ASSUME NEW i \in Instances, ConfirmDeposit(i), status[at[i]] = "DETECTED"
      PROVE  at[i] \in Deposits /\ JobQueue!Confirm(at[i])
  <2>1. at[i] \in Deposits /\ job[at[i]] = "none"
    BY <1>2 DEF ConfirmDeposit, JobOnlyConfirmed
  <2>2. /\ status' = [status EXCEPT ![at[i]] = "CONFIRMED"]
        /\ job' = job \/ job' = [job EXCEPT ![at[i]] = "PENDING"]
    BY <1>2 DEF ConfirmDeposit, Confirm
  <2>3. at[i] \notin Confirmed /\ Confirmed' = Confirmed \cup {at[i]}
    BY <1>2, <2>1, <2>2 DEF Confirmed
  <2>4. Queue' = Queue \/ Queue' = [Queue EXCEPT ![at[i]] = "queued"]
    <3>1. CASE job' = job
      BY <3>1 DEF Queue
    <3>2. CASE job' = [job EXCEPT ![at[i]] = "PENDING"]
      BY <2>1, <3>2 DEF Queue
    <3>3. QED
      BY <2>2, <3>1, <3>2
  <2>5. JobQueue!Confirm(at[i])
    BY <2>3, <2>4 DEF JobQueue!Confirm
  <2>6. QED
    BY <2>1, <2>5
<1>3. ASSUME UNCHANGED job, Confirmed' = Confirmed PROVE UNCHANGED JobQueue!vars
  BY <1>3 DEF JobQueue!vars, Queue
<1>4. CASE UNCHANGED <<job, status>>
  BY <1>3, <1>4 DEF Confirmed
<1>5. ASSUME NEW d \in Deposits, Pay(d) \/ Detect(d) PROVE UNCHANGED JobQueue!vars
  BY <1>3, <1>5 DEF Pay, Detect, Confirmed
<1>6. ASSUME NEW i \in Instances, ConfirmDeposit(i) PROVE [JobQueue!Next]_(JobQueue!vars)
  BY <1>2, <1>4, <1>6 DEF ConfirmDeposit, JobQueue!Next
<1>7. QED
  BY <1>1, <1>4, <1>5, <1>6
  DEF Next, Sweep, SweepMoves, SweepFails, ConfirmWorker, NewBlock, FetchDetected, ReadBalance,
      Abort, vars, JobQueue!Next

\* A deposit is confirmed once, and only then, in the same step, its sweep is queued,
\* however many processes confirm it: what Sweep assumes of its deposits (QueueSweep).
THEOREM QueueTheorem == Spec => JobQueue!Spec
<1>1. Sound /\ [Next]_vars => [JobQueue!Next]_(JobQueue!vars)
  BY QueueStep
<1>2. QED
  BY <1>1, QueueInit, SoundInvariant, PTL DEF Spec, JobQueue!Spec
-----------------------------------------------------------------------------
(* DepositConfirm implements DepositRecord: the part that confirms *)

\* A payment that is only on the chain has no row yet.
Rows == [d \in Deposits |-> IF status[d] = "onchain" THEN "none" ELSE status[d]]
Callbacks == [d \in Deposits |->
  IF callbacks[d] = 0 THEN "none" ELSE IF callbacks[d] = 1 THEN "PENDING" ELSE "twice"]

Record == INSTANCE DepositRecord WITH row <- Rows, callback <- Callbacks

\* No row and no callback at the start.
LEMMA RecordInit == Init => Record!Init
  BY DEF Init, Record!Init, Rows, Callbacks

\* Detect stores a row; the transaction of ConfirmDeposit changes it and creates the callback.
LEMMA RecordStep ==
  ASSUME Sound, [Next]_vars
  PROVE  [Record!Next]_(Record!vars)
<1>0. /\ status \in [Deposits -> {"none", "onchain", "DETECTED", "CONFIRMED"}]
      /\ callbacks \in [Deposits -> Nat] /\ at \in [Instances -> Deposits \cup {0}]
      /\ \A d \in Deposits : callbacks[d] = (IF status[d] = "CONFIRMED" THEN 1 ELSE 0)
  BY DEF Sound, TypeOK, OneCallbackPerConfirmed
<1>1. CASE UNCHANGED <<status, callbacks>>
  BY <1>1 DEF Record!vars, Rows, Callbacks
<1>2. ASSUME NEW d \in Deposits, Pay(d) PROVE UNCHANGED Record!vars
  <2>1. status' = [status EXCEPT ![d] = "onchain"] /\ status[d] = "none" /\ UNCHANGED callbacks
    BY <1>2 DEF Pay
  <2>2. QED
    BY <1>0, <2>1 DEF Record!vars, Rows, Callbacks
<1>3. ASSUME NEW d \in Deposits, Detect(d) PROVE Record!Detect(d)
  <2>1. status' = [status EXCEPT ![d] = "DETECTED"] /\ status[d] = "onchain" /\ UNCHANGED callbacks
    BY <1>3 DEF Detect
  <2>2. Rows[d] = "none" /\ Rows' = [Rows EXCEPT ![d] = "DETECTED"]
    BY <1>0, <2>1 DEF Rows
  <2>3. QED
    BY <2>1, <2>2 DEF Record!Detect, Callbacks
<1>4. ASSUME NEW i \in Instances, ConfirmDeposit(i), status[at[i]] = "DETECTED"
      PROVE  at[i] \in Deposits /\ Record!Confirm(at[i])
  <2>1. at[i] \in Deposits /\ callbacks[at[i]] = 0
    BY <1>0, <1>4 DEF ConfirmDeposit
  <2>2. /\ status' = [status EXCEPT ![at[i]] = "CONFIRMED"]
        /\ callbacks' = [callbacks EXCEPT ![at[i]] = @ + 1]
    BY <1>4 DEF ConfirmDeposit, Confirm
  <2>3. Rows[at[i]] = "DETECTED" /\ Rows' = [Rows EXCEPT ![at[i]] = "CONFIRMED"]
    BY <1>0, <1>4, <2>1, <2>2 DEF Rows
  <2>4. Callbacks[at[i]] = "none" /\ Callbacks' = [Callbacks EXCEPT ![at[i]] = "PENDING"]
    <3>1. callbacks' = [callbacks EXCEPT ![at[i]] = 1]
      BY <1>0, <2>1, <2>2
    <3>2. /\ \A d \in Deposits : d # at[i] => callbacks'[d] = callbacks[d]
          /\ callbacks'[at[i]] = 1
      BY <1>0, <2>1, <3>1
    <3>3. QED
      BY <2>1, <3>2 DEF Callbacks
  <2>5. QED
    BY <2>1, <2>3, <2>4 DEF Record!Confirm
<1>5. ASSUME NEW i \in Instances, ConfirmDeposit(i), status[at[i]] # "DETECTED"
      PROVE  UNCHANGED <<status, callbacks>>
  BY <1>5 DEF ConfirmDeposit
<1>6. QED
  BY <1>1, <1>2, <1>3, <1>4, <1>5
  DEF Next, ConfirmWorker, NewBlock, Sweep, BroadcastSweep, SkipSweep, SweepMoves, SweepFails,
      FetchDetected, ReadBalance, Abort, vars, Record!Next

\* A deposit is confirmed once, from DETECTED, and the same step creates its one callback,
\* however many processes confirm it: the second part of the life of a deposit.
THEOREM RecordTheorem == Spec => Record!Spec
<1>1. Sound /\ [Next]_vars => [Record!Next]_(Record!vars)
  BY RecordStep
<1>2. QED
  BY <1>1, RecordInit, SoundInvariant, PTL DEF Spec, Record!Spec
=============================================================================
