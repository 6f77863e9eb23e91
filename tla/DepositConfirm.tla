--------------------------- MODULE DepositConfirm ---------------------------
(***************************************************************************)
(* ConfirmWorker.processDepositConfirm: a detected deposit that is          *)
(* CONFIRMATION_COUNT blocks deep becomes CONFIRMED, and the same database  *)
(* transaction creates its CallbackLog row and, when its wallet holds       *)
(* enough, its SweepJob.  The wallet's balance is read from the chain       *)
(* before that transaction, so it may be out of date when it is used.       *)
(* Deposits are numbered in the order of detectedAt.                        *)
(***************************************************************************)
EXTENDS Integers, FiniteSets

CONSTANTS
  N,              \* number of deposits
  Wallets,        \* deposit wallets (the hot wallet, never swept, is not one)
  WalletOf,       \* deposit -> toAddress
  Amount,         \* deposit -> tokens paid
  Instances,      \* server processes
  Confirmations,  \* CONFIRMATION_COUNT
  ScanLag,        \* a block is scanned this many blocks behind the latest
  Minimum,        \* USDT_SWEEP_MIN_AMOUNT
  Take,           \* rows fetched per cycle
  MaxHead,        \* bound: height of the chain
  MaxFaults       \* bound: failures in a behaviour

Deposits == 1..N

ASSUME ConfirmAssumption ==
  /\ N \in Nat
  /\ WalletOf \in [Deposits -> Wallets]
  /\ Amount \in [Deposits -> Nat]
  /\ Confirmations \in Nat /\ ScanLag \in Nat /\ Minimum \in Nat
  /\ Take \in Nat \ {0}
  /\ MaxHead \in Nat /\ MaxFaults \in Nat

VARIABLES
  head,       \* height of the chain
  status,     \* deposit -> "none", paid "onchain", "DETECTED", "CONFIRMED"
  block,      \* deposit -> blockNumber
  callbacks,  \* deposit -> number of CallbackLog rows
  job,        \* SweepJob: deposit -> "none", "PENDING" (or in the hands of a
              \* SweepWorker), "done" (deleted)
  token,      \* wallet -> token balance on chain
  sweep,      \* deposit -> tokens its sweep is to move, while the chain has
              \* not decided on it; or 0
  failed,     \* history: wallet -> a sweep of it failed after its last payment
  batch,      \* worker: deposits of its snapshot still to visit
  at,         \* worker: deposit whose balance it has read, or 0
  seen,       \* worker: that balance
  faults

vars == <<head, status, block, callbacks, job, token, sweep, failed, batch, at, seen, faults>>
workerVars == <<batch, at, seen>>
sweepVars == <<sweep, failed>>

TypeOK ==
  /\ head \in Nat
  /\ status \in [Deposits -> {"none", "onchain", "DETECTED", "CONFIRMED"}]
  /\ block \in [Deposits -> Nat]
  /\ callbacks \in [Deposits -> Nat]
  /\ job \in [Deposits -> {"none", "PENDING", "done"}]
  /\ token \in [Wallets -> Nat]
  /\ sweep \in [Deposits -> Nat]
  /\ failed \in [Wallets -> BOOLEAN]
  /\ batch \in [Instances -> SUBSET Deposits]
  /\ at \in [Instances -> Deposits \cup {0}]
  /\ seen \in [Instances -> Nat]
  /\ faults \in Nat

Init ==
  /\ head = 0
  /\ status = [d \in Deposits |-> "none"]
  /\ block = [d \in Deposits |-> 0]
  /\ callbacks = [d \in Deposits |-> 0]
  /\ job = [d \in Deposits |-> "none"]
  /\ token = [w \in Wallets |-> 0]
  /\ sweep = [d \in Deposits |-> 0]
  /\ failed = [w \in Wallets |-> FALSE]
  /\ batch = [i \in Instances |-> {}]
  /\ at = [i \in Instances |-> 0]
  /\ seen = [i \in Instances |-> 0]
  /\ faults = 0

----------------------------------------------------------------------------
(* The surroundings *)

NewBlock ==
  /\ head < MaxHead
  /\ head' = head + 1
  /\ UNCHANGED <<status, block, callbacks, job, token, sweepVars, workerVars, faults>>

\* The next payment is in the block at the head of the chain.
Pay(d) ==
  /\ status[d] = "none"
  /\ \A e \in 1..(d - 1) : status[e] # "none"
  /\ status' = [status EXCEPT ![d] = "onchain"]
  /\ block' = [block EXCEPT ![d] = head]
  /\ token' = [token EXCEPT ![WalletOf[d]] = @ + Amount[d]]
  /\ failed' = [failed EXCEPT ![WalletOf[d]] = FALSE]
  /\ UNCHANGED <<head, callbacks, job, sweep, workerVars, faults>>

\* DepositWorker finds it, sooner or later (module DepositScan).
Detect(d) ==
  /\ status[d] = "onchain"
  /\ \A e \in 1..(d - 1) : status[e] # "onchain"
  /\ block[d] + ScanLag <= head
  /\ status' = [status EXCEPT ![d] = "DETECTED"]
  /\ UNCHANGED <<head, block, callbacks, job, token, sweepVars, workerVars, faults>>

\* SweepWorker has sent a transfer of the balance it read, recorded it and
\* deleted the job: before the chain has decided on the transfer.  Locks,
\* refills, retries, reorganisations and the unit that rounding may leave are
\* in the module Sweep.
BroadcastSweep(d) ==
  /\ job[d] = "PENDING"
  /\ token[WalletOf[d]] > 0
  /\ job' = [job EXCEPT ![d] = "done"]
  /\ sweep' = [sweep EXCEPT ![d] = token[WalletOf[d]]]
  /\ UNCHANGED <<head, status, block, callbacks, token, failed, workerVars, faults>>

\* SweepWorker has found the wallet empty.
SkipSweep(d) ==
  /\ job[d] = "PENDING"
  /\ token[WalletOf[d]] = 0
  /\ job' = [job EXCEPT ![d] = "done"]
  /\ UNCHANGED <<head, status, block, callbacks, token, sweepVars, workerVars, faults>>

\* The chain executes the transfer; what was paid since is not part of it.
SweepMoves(d) ==
  /\ sweep[d] \in 1..token[WalletOf[d]]
  /\ token' = [token EXCEPT ![WalletOf[d]] = @ - sweep[d]]
  /\ sweep' = [sweep EXCEPT ![d] = 0]
  /\ UNCHANGED <<head, status, block, callbacks, job, failed, workerVars, faults>>

\* The transfer reverts (no energy, or a balance another sweep has moved) or
\* expires.  Its SweepLog row is FAILED then, or left as it is; either way
\* the money stays and no job comes back for it.
SweepFails(d) ==
  /\ sweep[d] > 0
  /\ sweep' = [sweep EXCEPT ![d] = 0]
  /\ failed' = [failed EXCEPT ![WalletOf[d]] = TRUE]
  /\ UNCHANGED <<head, status, block, callbacks, job, token, workerVars, faults>>

----------------------------------------------------------------------------
(* processDepositConfirm *)

Deep(d) == block[d] <= head - Confirmations

\* Mutant of FetchDetected: every detected deposit is taken.
FetchDetectedShallow(i) ==
  LET ready == {d \in Deposits : status[d] = "DETECTED"} IN
  /\ batch[i] = {} /\ at[i] = 0
  /\ batch' = [batch EXCEPT ![i] =
                 {d \in ready : Cardinality({e \in ready : e <= d}) <= Take}]
  /\ UNCHANGED <<head, status, block, callbacks, job, token, sweepVars, at, seen, faults>>

\* getLatestBlockNumber and the findMany it bounds, oldest first.
FetchDetected(i) ==
  LET ready == {d \in Deposits : status[d] = "DETECTED" /\ Deep(d)} IN
  /\ batch[i] = {} /\ at[i] = 0
  /\ batch' = [batch EXCEPT ![i] =
                 {d \in ready : Cardinality({e \in ready : e <= d}) <= Take}]
  /\ UNCHANGED <<head, status, block, callbacks, job, token, sweepVars, at, seen, faults>>

\* getTokenBalance, outside the transaction.
ReadBalance(i, d) ==
  /\ at[i] = 0 /\ d \in batch[i] /\ \A e \in batch[i] : d <= e
  /\ batch' = [batch EXCEPT ![i] = @ \ {d}]
  /\ at' = [at EXCEPT ![i] = d]
  /\ seen' = [seen EXCEPT ![i] = token[WalletOf[d]]]
  /\ UNCHANGED <<head, status, block, callbacks, job, token, sweepVars, faults>>

\* Mutant of Confirm: the job is created as if a worker had it already.
ConfirmLocked(d, worthSweeping) ==
  /\ status' = [status EXCEPT ![d] = "CONFIRMED"]
  /\ callbacks' = [callbacks EXCEPT ![d] = @ + 1]
  /\ job' = IF worthSweeping /\ job[d] = "none"
              THEN [job EXCEPT ![d] = "PROCESSING"] ELSE job

\* What the transaction does once its updateMany has matched the row.
Confirm(d, worthSweeping) ==
  /\ status' = [status EXCEPT ![d] = "CONFIRMED"]
  /\ callbacks' = [callbacks EXCEPT ![d] = @ + 1]
  /\ job' = IF worthSweeping /\ job[d] = "none"
              THEN [job EXCEPT ![d] = "PENDING"] ELSE job

DepositDone(i) ==
  /\ at' = [at EXCEPT ![i] = 0]
  /\ seen' = [seen EXCEPT ![i] = 0]

\* Mutant of ConfirmDeposit: the update is not guarded by DETECTED.
ConfirmDepositUnguarded(i) ==
  /\ at[i] # 0
  /\ Confirm(at[i], seen[i] > Minimum)
  /\ DepositDone(i)
  /\ UNCHANGED <<head, block, token, sweepVars, batch, faults>>

\* Mutant of ConfirmDeposit: the deposit's own amount decides on the job.
ConfirmDepositByAmount(i) ==
  /\ at[i] # 0
  /\ IF status[at[i]] = "DETECTED"
       THEN Confirm(at[i], Amount[at[i]] > Minimum)
       ELSE UNCHANGED <<status, callbacks, job>>
  /\ DepositDone(i)
  /\ UNCHANGED <<head, block, token, sweepVars, batch, faults>>

\* Mutant of ConfirmDeposit: a balance not worth sweeping ends the visit.
ConfirmDepositIfWorth(i) ==
  /\ at[i] # 0
  /\ IF status[at[i]] = "DETECTED" /\ seen[i] > Minimum
       THEN Confirm(at[i], TRUE)
       ELSE UNCHANGED <<status, callbacks, job>>
  /\ DepositDone(i)
  /\ UNCHANGED <<head, block, token, sweepVars, batch, faults>>

\* The transaction: the update, and what depends on its having matched.
ConfirmDeposit(i) ==
  /\ at[i] # 0
  /\ IF status[at[i]] = "DETECTED"
       THEN Confirm(at[i], seen[i] > Minimum)
       ELSE UNCHANGED <<status, callbacks, job>>
  /\ DepositDone(i)
  /\ UNCHANGED <<head, block, token, sweepVars, batch, faults>>

\* A failed read or a rolled-back transaction: mapPrismaError throws, and the
\* rest of the snapshot waits for the next cycle.  A crash does the same.
Abort(i) ==
  /\ faults < MaxFaults /\ faults' = faults + 1
  /\ batch[i] # {} \/ at[i] # 0
  /\ batch' = [batch EXCEPT ![i] = {}]
  /\ DepositDone(i)
  /\ UNCHANGED <<head, status, block, callbacks, job, token, sweepVars>>

Sweep(d) == BroadcastSweep(d) \/ SkipSweep(d) \/ SweepMoves(d) \/ SweepFails(d)

ConfirmWorker(i) ==
  FetchDetected(i) \/ ConfirmDeposit(i) \/ \E d \in Deposits : ReadBalance(i, d)

Next ==
  \/ NewBlock
  \/ \E d \in Deposits : Pay(d) \/ Detect(d) \/ Sweep(d)
  \/ \E i \in Instances : ConfirmWorker(i) \/ Abort(i)

Spec == Init /\ [][Next]_vars

\* The workers poll for as long as the process runs.
FairSpec == Spec /\ \A i \in Instances : WF_vars(ConfirmWorker(i))

----------------------------------------------------------------------------
(* Properties *)

\* A deposit has its one callback exactly when it is CONFIRMED, however many
\* processes confirm it at once.
OneCallbackPerConfirmed ==
  \A d \in Deposits : callbacks[d] = (IF status[d] = "CONFIRMED" THEN 1 ELSE 0)

\* No deposit is CONFIRMED before it is CONFIRMATION_COUNT blocks deep.
ConfirmedIsDeep == \A d \in Deposits : status[d] = "CONFIRMED" => Deep(d)

\* Money is not forgotten: once all payments to a wallet are confirmed, a
\* balance above the minimum has a job that will fetch it or a transfer under
\* way that leaves no more than the minimum, unless a sweep of the wallet
\* failed after the last payment to it.  So what an earlier failure left is
\* queued again with the next deposit, although each deposit decides on a
\* balance read earlier and no single one need be above the minimum.
Settled(w) ==
  \A d \in Deposits : WalletOf[d] = w => status[d] \notin {"onchain", "DETECTED"}
Queued(w) == \E d \in Deposits : WalletOf[d] = w /\ job[d] = "PENDING"
Leaving(w) ==
  \E d \in Deposits : WalletOf[d] = w /\ sweep[d] > 0 /\ token[w] - sweep[d] <= Minimum

NoFundsForgotten ==
  \A w \in Wallets :
    Settled(w) /\ token[w] > Minimum => Queued(w) \/ Leaving(w) \/ failed[w]

\* Every detected deposit that is deep enough is confirmed in the end,
\* however many cycles are cut short.
DeepGetsConfirmed ==
  \A d \in Deposits : status[d] = "DETECTED" /\ Deep(d) ~> status[d] = "CONFIRMED"
=============================================================================
