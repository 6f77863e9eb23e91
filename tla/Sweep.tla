------------------------------- MODULE Sweep -------------------------------
(***************************************************************************)
(* The sweep pipeline of apps/api: SweepJob is a queue with one row per     *)
(* confirmed deposit, SweepLog the record of what was done about it.        *)
(* SweepWorker takes a job, moves the whole token balance of the deposit's  *)
(* wallet to the hot wallet and records the transaction as BROADCASTED;     *)
(* ConfirmWorker.processSweepConfirm turns that row into CONFIRMED or       *)
(* FAILED once the chain has decided.  Every server process runs one of     *)
(* each, over one database; one action here is the code between two awaits. *)
(*                                                                          *)
(* The chain is external: wallets with a token balance and "enough TRX or   *)
(* not", and transactions that wait in the pool, are executed, may be       *)
(* reorganised while shallow, become final, or expire.                      *)
(***************************************************************************)
EXTENDS Integers, FiniteSets

CONSTANTS
  Deposits,     \* Deposit rows (and so SweepJob.depositId, which is unique)
  Wallets,      \* addresses
  HotWallet,    \* env.hotWalletAddress
  WalletOf,     \* deposit -> the wallet it was paid to
  Amount,       \* deposit -> units (of 10^-6 token) paid
  RoundsDown,   \* balances in units that floating point cannot take apart and
                \* put together again: b / 10^6 * 10^6 falls short of b
  Instances,    \* server processes
  TxHash,       \* transaction hashes of token transfers
  Take,         \* rows of a ConfirmWorker snapshot: findMany ... take
  None,         \* "no value"
  Faults,       \* the kinds of failure that may happen
  MaxFaults,    \* bound: failures in a behaviour
  MaxRefills    \* bound: TRX refills in flight to one wallet

FaultKinds == {"chain", "ack", "db", "lock", "crash"}

ASSUME SweepAssumption ==
  /\ HotWallet \in Wallets
  /\ WalletOf \in [Deposits -> Wallets]
  /\ Amount \in [Deposits -> Nat]
  /\ RoundsDown \subseteq Nat \ {0}
  /\ Take \in Nat \ {0}
  /\ None \notin Deposits /\ None \notin TxHash
  /\ Faults \subseteq FaultKinds
  /\ MaxFaults \in Nat /\ MaxRefills \in Nat

VARIABLES
  deposit,      \* deposit -> "unseen", paid "onchain", or "CONFIRMED"
  job,          \* SweepJob: deposit -> "none" (no row), "PENDING", "PROCESSING"
  sweepLog,     \* SweepLog rows with a txHash (unique): hash -> row
  clock,        \* createdAt of the next SweepLog row with a txHash
  notes,        \* SweepLog rows without one: <<deposit, status>>
  pc,           \* SweepWorker: what the process awaits next
  batch,        \* SweepWorker: jobs of the findMany snapshot still to visit
  at,           \* SweepWorker: deposit of the job in hand
  balance,      \* SweepWorker: tokenBalance, as read
  hash,         \* SweepWorker: txHash returned by transferToken
  cbatch,       \* ConfirmWorker: rows of its snapshot still to visit
  dropping,     \* ConfirmWorker: row just failed whose job it deletes next
  token,        \* chain: wallet -> token balance
  gas,          \* chain: wallet -> its TRX is at least MIN_TRX_FOR_SWEEP
  refills,      \* chain: wallet -> TRX transfers on their way to it
  tx,           \* chain: hash -> token transfer that was submitted
  faults        \* failures so far

dbVars == <<deposit, job, sweepLog, clock, notes>>
workerVars == <<pc, batch, at, balance, hash>>
confirmVars == <<cbatch, dropping>>
chainVars == <<token, gas, refills, tx>>
vars == <<dbVars, workerVars, confirmVars, chainVars, faults>>

Row == [dep : Deposits, amount : Nat, createdAt : Nat,
        status : {"BROADCASTED", "CONFIRMED", "FAILED"}]
Transfer == [dep : Deposits, amount : Nat,
             st : {"pool", "ok", "failed", "expired"}, final : BOOLEAN]

\* The points of process() at which the worker has locked a job.
Holding == {"terminal", "inflight", "trx", "funded", "short", "skip", "refill",
            "logRefill", "transfer", "log", "finish", "unlock", "release"}

\* Those at which it works on the job: in the catch block ("release") it may
\* have a job in hand that it never locked.
Working == Holding \ {"release"}

TypeOK ==
  /\ deposit \in [Deposits -> {"unseen", "onchain", "CONFIRMED"}]
  /\ job \in [Deposits -> {"none", "PENDING", "PROCESSING"}]
  /\ DOMAIN sweepLog \subseteq TxHash
  /\ sweepLog \in [DOMAIN sweepLog -> Row]
  /\ clock \in Nat
  /\ notes \subseteq Deposits \X {"SKIPPED", "PENDING"}
  /\ pc \in [Instances -> {"idle", "next"} \cup Holding]
  /\ batch \in [Instances -> SUBSET Deposits]
  /\ at \in [Instances -> Deposits \cup {None}]
  /\ balance \in [Instances -> Nat]
  /\ hash \in [Instances -> TxHash \cup {None}]
  /\ cbatch \in [Instances -> SUBSET TxHash]
  /\ dropping \in [Instances -> TxHash \cup {None}]
  /\ token \in [Wallets -> Nat]
  /\ gas \in [Wallets -> BOOLEAN]
  /\ refills \in [Wallets -> Nat]
  /\ DOMAIN tx \subseteq TxHash
  /\ tx \in [DOMAIN tx -> Transfer]
  /\ faults \in Nat

\* f with x mapped to v, whether or not x was in its domain.
Put(f, x, v) == [y \in DOMAIN f \cup {x} |-> IF y = x THEN v ELSE f[y]]

Rows(d, statuses) ==
  {h \in DOMAIN sweepLog : sweepLog[h].dep = d /\ sweepLog[h].status \in statuses}

Init ==
  /\ deposit = [d \in Deposits |-> "unseen"]
  /\ job = [d \in Deposits |-> "none"]
  /\ sweepLog = [h \in {} |-> None]
  /\ clock = 0
  /\ notes = {}
  /\ pc = [i \in Instances |-> "idle"]
  /\ batch = [i \in Instances |-> {}]
  /\ at = [i \in Instances |-> None]
  /\ balance = [i \in Instances |-> 0]
  /\ hash = [i \in Instances |-> None]
  /\ cbatch = [i \in Instances |-> {}]
  /\ dropping = [i \in Instances |-> None]
  /\ token = [w \in Wallets |-> 0]
  /\ gas = [w \in Wallets |-> FALSE]
  /\ refills = [w \in Wallets |-> 0]
  /\ tx = [h \in {} |-> None]
  /\ faults = 0

----------------------------------------------------------------------------
(* Deposits: the payment on chain, and the transaction of                   *)
(* processDepositConfirm that queues the job (the module DepositConfirm     *)
(* has the rest of it).  A deposit whose balance test failed gets no job,   *)
(* so that only the others are deposits here.                               *)

Pay(d) ==
  /\ deposit[d] = "unseen"
  /\ deposit' = [deposit EXCEPT ![d] = "onchain"]
  /\ token' = [token EXCEPT ![WalletOf[d]] = @ + Amount[d]]
  /\ UNCHANGED <<job, sweepLog, clock, notes, workerVars, confirmVars, gas, refills, tx, faults>>

QueueSweep(d) ==
  /\ deposit[d] = "onchain"
  /\ deposit' = [deposit EXCEPT ![d] = "CONFIRMED"]
  /\ job' = [job EXCEPT ![d] = "PENDING"]
  /\ UNCHANGED <<sweepLog, clock, notes, workerVars, confirmVars, chainVars, faults>>

----------------------------------------------------------------------------
(* SweepWorker.process *)

\* Go on to another await of the same job, keeping what was read.
Goto(i, label) == pc' = [pc EXCEPT ![i] = label]

\* The job in hand is done with: on to the rest of the snapshot.
LeaveJob(i, rest) ==
  /\ pc' = [pc EXCEPT ![i] = IF rest = {} THEN "idle" ELSE "next"]
  /\ batch' = [batch EXCEPT ![i] = rest]
  /\ at' = [at EXCEPT ![i] = None]
  /\ balance' = [balance EXCEPT ![i] = 0]
  /\ hash' = [hash EXCEPT ![i] = None]

FetchJobs(i) ==
  LET pending == {d \in Deposits : job[d] = "PENDING"} IN
  /\ pc[i] = "idle"
  /\ batch' = [batch EXCEPT ![i] = pending]
  /\ Goto(i, IF pending = {} THEN "idle" ELSE "next")
  /\ UNCHANGED <<dbVars, at, balance, hash, confirmVars, chainVars, faults>>

\* Mutant of LockJob: the update does not ask for PENDING.
LockJobUnguarded(i, d) ==
  /\ pc[i] = "next" /\ d \in batch[i]
  /\ job' = [job EXCEPT ![d] = "PROCESSING"]
  /\ batch' = [batch EXCEPT ![i] = @ \ {d}]
  /\ at' = [at EXCEPT ![i] = d]
  /\ Goto(i, "terminal")
  /\ UNCHANGED <<deposit, sweepLog, clock, notes, balance, hash, confirmVars, chainVars, faults>>

LockJob(i, d) ==
  /\ pc[i] = "next" /\ d \in batch[i]
  /\ job[d] = "PENDING"
  /\ job' = [job EXCEPT ![d] = "PROCESSING"]
  /\ batch' = [batch EXCEPT ![i] = @ \ {d}]
  /\ at' = [at EXCEPT ![i] = d]
  /\ Goto(i, "terminal")
  /\ UNCHANGED <<deposit, sweepLog, clock, notes, balance, hash, confirmVars, chainVars, faults>>

\* updateMany matched no row: another process has the job, or it is gone.
MissLock(i, d) ==
  /\ pc[i] = "next" /\ d \in batch[i]
  /\ job[d] # "PENDING"
  /\ LeaveJob(i, batch[i] \ {d})
  /\ UNCHANGED <<dbVars, confirmVars, chainVars, faults>>

CheckTerminal(i) ==
  /\ pc[i] = "terminal"
  /\ Goto(i, IF Rows(at[i], {"CONFIRMED"}) # {} \/ <<at[i], "SKIPPED">> \in notes
               THEN "finish" ELSE "inflight")
  /\ UNCHANGED <<dbVars, batch, at, balance, hash, confirmVars, chainVars, faults>>

CheckBroadcast(i) ==
  /\ pc[i] = "inflight"
  /\ Goto(i, IF Rows(at[i], {"BROADCASTED"}) # {} THEN "finish"
             ELSE IF WalletOf[at[i]] = HotWallet THEN "skip" ELSE "trx")
  /\ UNCHANGED <<dbVars, batch, at, balance, hash, confirmVars, chainVars, faults>>

\* getTrxBalance: enough for a transfer, or short of it.
ReadTrx(i) ==
  /\ pc[i] = "trx"
  /\ Goto(i, IF gas[WalletOf[at[i]]] THEN "funded" ELSE "short")
  /\ UNCHANGED <<dbVars, batch, at, balance, hash, confirmVars, chainVars, faults>>

\* getTokenBalance, and the branches on what the two calls returned.
ReadToken(i) ==
  LET held == token[WalletOf[at[i]]] IN
  /\ pc[i] \in {"funded", "short"}
  /\ balance' = [balance EXCEPT ![i] = held]
  /\ Goto(i, IF held <= 0 THEN "skip"
             ELSE IF pc[i] = "short" THEN "refill" ELSE "transfer")
  /\ UNCHANGED <<dbVars, batch, at, hash, confirmVars, chainVars, faults>>

LogSkipped(i) ==
  /\ pc[i] = "skip"
  /\ notes' = notes \cup {<<at[i], "SKIPPED">>}
  /\ Goto(i, "finish")
  /\ UNCHANGED <<deposit, job, sweepLog, clock, batch, at, balance, hash, confirmVars, chainVars, faults>>

\* transferTrx has left for the wallet of the job in hand.
SendTrx(i) ==
  LET w == WalletOf[at[i]] IN
  /\ pc[i] = "refill"
  /\ refills[w] < MaxRefills
  /\ refills' = [refills EXCEPT ![w] = @ + 1]

SendRefill(i) ==
  /\ SendTrx(i)
  /\ Goto(i, "logRefill")
  /\ UNCHANGED <<dbVars, batch, at, balance, hash, confirmVars, token, gas, tx, faults>>

LogRefill(i) ==
  /\ pc[i] = "logRefill"
  /\ notes' = notes \cup {<<at[i], "PENDING">>}
  /\ Goto(i, "unlock")
  /\ UNCHANGED <<deposit, job, sweepLog, clock, batch, at, balance, hash, confirmVars, chainVars, faults>>

\* getTokenBalance divides the units by 10^6 and transferToken takes the floor
\* of the number times 10^6: one unit short for some balances, 8200000 for one.
Sent(b) == IF b \in RoundsDown THEN b - 1 ELSE b

\* transferToken has submitted a transfer of the balance read before.
SendToken(i, h) ==
  /\ pc[i] = "transfer"
  /\ h \notin DOMAIN tx
  /\ tx' = Put(tx, h, [dep |-> at[i], amount |-> Sent(balance[i]),
                       st |-> "pool", final |-> FALSE])

Broadcast(i, h) ==
  /\ SendToken(i, h)
  /\ hash' = [hash EXCEPT ![i] = h]
  /\ Goto(i, "log")
  /\ UNCHANGED <<dbVars, batch, at, balance, confirmVars, token, gas, refills, faults>>

\* Mutant of LogBroadcast: the row is written with the status PENDING.
LogBroadcastAsPending(i) ==
  /\ pc[i] = "log"
  /\ sweepLog' = Put(sweepLog, hash[i], [dep |-> at[i], amount |-> balance[i],
                                         createdAt |-> clock, status |-> "PENDING"])
  /\ clock' = clock + 1
  /\ Goto(i, "finish")
  /\ UNCHANGED <<deposit, job, notes, batch, at, balance, hash, confirmVars, chainVars, faults>>

LogBroadcast(i) ==
  /\ pc[i] = "log"
  /\ sweepLog' = Put(sweepLog, hash[i], [dep |-> at[i], amount |-> balance[i],
                                         createdAt |-> clock, status |-> "BROADCASTED"])
  /\ clock' = clock + 1
  /\ Goto(i, "finish")
  /\ UNCHANGED <<deposit, job, notes, batch, at, balance, hash, confirmVars, chainVars, faults>>

FinishJob(i) ==
  /\ pc[i] = "finish"
  /\ job' = [job EXCEPT ![at[i]] = "none"]
  /\ LeaveJob(i, batch[i])
  /\ UNCHANGED <<deposit, sweepLog, clock, notes, confirmVars, chainVars, faults>>

\* releaseJob, after a refill and in the catch block alike.
ReleaseJob(i) ==
  /\ pc[i] \in {"unlock", "release"}
  /\ job' = [job EXCEPT ![at[i]] = IF @ = "PROCESSING" THEN "PENDING" ELSE @]
  /\ LeaveJob(i, batch[i])
  /\ UNCHANGED <<deposit, sweepLog, clock, notes, confirmVars, chainVars, faults>>

----------------------------------------------------------------------------
(* Failures.  A rejected await inside the try block lands in the catch      *)
(* block, whose first statement is releaseJob; one in the catch block       *)
(* itself leaves process() and the rest of the snapshot.                    *)

Fault(kind) ==
  /\ kind \in Faults
  /\ faults < MaxFaults
  /\ faults' = faults + 1

\* Mutant of ChainFails: the error is logged and the job is not released.
ChainFailsUncaught(i) ==
  /\ Fault("chain")
  /\ pc[i] \in {"trx", "funded", "short", "refill", "transfer"}
  /\ LeaveJob(i, batch[i])
  /\ UNCHANGED <<dbVars, confirmVars, chainVars>>

\* A call to the node is refused, or times out before it did anything.
ChainFails(i) ==
  /\ Fault("chain")
  /\ pc[i] \in {"trx", "funded", "short", "refill", "transfer"}
  /\ Goto(i, "release")
  /\ UNCHANGED <<dbVars, batch, at, balance, hash, confirmVars, chainVars>>

\* The node took the transaction but the answer never arrived.
RefillAckLost(i) ==
  /\ Fault("ack")
  /\ SendTrx(i)
  /\ Goto(i, "release")
  /\ UNCHANGED <<dbVars, batch, at, balance, hash, confirmVars, token, gas, tx>>

BroadcastAckLost(i, h) ==
  /\ Fault("ack")
  /\ SendToken(i, h)
  /\ Goto(i, "release")
  /\ UNCHANGED <<dbVars, batch, at, balance, hash, confirmVars, token, gas, refills>>

\* Mutant of DbFails: the catch block removes the job instead of releasing it.
DbFailsFinishes(i) ==
  /\ Fault("db")
  /\ pc[i] \in {"terminal", "inflight", "skip", "logRefill", "log", "finish", "unlock"}
  /\ Goto(i, "finish")
  /\ UNCHANGED <<dbVars, batch, at, balance, hash, confirmVars, chainVars>>

\* A database call fails while the job is held.
DbFails(i) ==
  /\ Fault("db")
  /\ pc[i] \in {"terminal", "inflight", "skip", "logRefill", "log", "finish", "unlock"}
  /\ Goto(i, "release")
  /\ UNCHANGED <<dbVars, batch, at, balance, hash, confirmVars, chainVars>>

\* The updateMany that takes the lock fails: the catch block releases the
\* job all the same, whoever holds it.
LockFails(i, d) ==
  /\ Fault("lock")
  /\ pc[i] = "next" /\ d \in batch[i]
  /\ batch' = [batch EXCEPT ![i] = @ \ {d}]
  /\ at' = [at EXCEPT ![i] = d]
  /\ Goto(i, "release")
  /\ UNCHANGED <<dbVars, balance, hash, confirmVars, chainVars>>

\* releaseJob fails in the catch block; safeProcess logs what escapes.
ReleaseFails(i) ==
  /\ Fault("db")
  /\ pc[i] = "release"
  /\ LeaveJob(i, {})
  /\ UNCHANGED <<dbVars, confirmVars, chainVars>>

\* The process dies and is started again: both workers begin a new cycle.
Crash(i) ==
  /\ Fault("crash")
  /\ LeaveJob(i, {})
  /\ cbatch' = [cbatch EXCEPT ![i] = {}]
  /\ dropping' = [dropping EXCEPT ![i] = None]
  /\ UNCHANGED <<dbVars, chainVars>>

----------------------------------------------------------------------------
(* ConfirmWorker.processSweepConfirm.  Rows whose transaction is not yet    *)
(* CONFIRMATION_COUNT blocks deep at the start of the cycle are passed over *)
(* by it, so the batch holds only the others.                               *)

\* findMany: the oldest BROADCASTED rows, at most Take of them.
Older(h) == {g \in DOMAIN sweepLog : /\ sweepLog[g].status = "BROADCASTED"
                                     /\ sweepLog[g].createdAt < sweepLog[h].createdAt}

Candidates == {h \in DOMAIN sweepLog : /\ sweepLog[h].status = "BROADCASTED"
                                       /\ Cardinality(Older(h)) < Take}

\* Mutant of FetchBroadcasts: the number of confirmations is not looked at.
FetchBroadcastsShallow(i) ==
  /\ cbatch[i] = {} /\ dropping[i] = None
  /\ cbatch' = [cbatch EXCEPT ![i] =
       {h \in Candidates : h \in DOMAIN tx}]
  /\ UNCHANGED <<dbVars, workerVars, dropping, chainVars, faults>>

FetchBroadcasts(i) ==
  /\ cbatch[i] = {} /\ dropping[i] = None
  /\ cbatch' = [cbatch EXCEPT ![i] =
       {h \in Candidates : h \in DOMAIN tx /\ tx[h].final}]
  /\ UNCHANGED <<dbVars, workerVars, dropping, chainVars, faults>>

\* updateMany ... where status = BROADCASTED
Settle(h, status) ==
  sweepLog' = IF sweepLog[h].status = "BROADCASTED"
                THEN [sweepLog EXCEPT ![h].status = status] ELSE sweepLog

\* Mutant of ConfirmSweep: the result in the receipt is not looked at.
ConfirmSweepAnyResult(i, h) ==
  /\ dropping[i] = None /\ h \in cbatch[i]
  /\ Settle(h, "CONFIRMED")
  /\ job' = [job EXCEPT ![sweepLog[h].dep] = "none"]
  /\ cbatch' = [cbatch EXCEPT ![i] = @ \ {h}]
  /\ UNCHANGED <<deposit, clock, notes, workerVars, dropping, chainVars, faults>>

\* One transaction: the row, and if it was still open the job as well.
ConfirmSweep(i, h) ==
  /\ dropping[i] = None /\ h \in cbatch[i]
  /\ tx[h].st = "ok"
  /\ Settle(h, "CONFIRMED")
  /\ job' = IF sweepLog[h].status = "BROADCASTED"
              THEN [job EXCEPT ![sweepLog[h].dep] = "none"] ELSE job
  /\ cbatch' = [cbatch EXCEPT ![i] = @ \ {h}]
  /\ UNCHANGED <<deposit, clock, notes, workerVars, dropping, chainVars, faults>>

\* Mutant of FailSweep: the job is dropped but the row is left as it is.
FailSweepUnmarked(i, h) ==
  /\ dropping[i] = None /\ h \in cbatch[i]
  /\ tx[h].st = "failed"
  /\ cbatch' = [cbatch EXCEPT ![i] = @ \ {h}]
  /\ dropping' = [dropping EXCEPT ![i] = h]
  /\ UNCHANGED <<dbVars, workerVars, chainVars, faults>>

\* failSweepBroadcast; the job is deleted by a statement of its own.
FailSweep(i, h) ==
  /\ dropping[i] = None /\ h \in cbatch[i]
  /\ tx[h].st = "failed"
  /\ Settle(h, "FAILED")
  /\ cbatch' = [cbatch EXCEPT ![i] = @ \ {h}]
  /\ dropping' = [dropping EXCEPT ![i] = h]
  /\ UNCHANGED <<deposit, job, clock, notes, workerVars, chainVars, faults>>

DropJob(i) ==
  /\ dropping[i] # None
  /\ job' = [job EXCEPT ![sweepLog[dropping[i]].dep] = "none"]
  /\ dropping' = [dropping EXCEPT ![i] = None]
  /\ UNCHANGED <<deposit, sweepLog, clock, notes, workerVars, cbatch, chainVars, faults>>

\* The error of one row is logged and the loop goes on with the next.
ConfirmFails(i, h) ==
  /\ Fault("db")
  /\ \/ dropping[i] = None /\ h \in cbatch[i]
     \/ dropping[i] = h
  /\ cbatch' = [cbatch EXCEPT ![i] = @ \ {h}]
  /\ dropping' = [dropping EXCEPT ![i] = None]
  /\ UNCHANGED <<dbVars, workerVars, chainVars>>

----------------------------------------------------------------------------
(* The chain (external).  What the hot wallet holds is never asked for, so  *)
(* a transfer is not credited to it.                                        *)

From(h) == WalletOf[tx[h].dep]

\* Executing a transfer may use up the wallet's TRX.
BurnGas(w) == \E left \in BOOLEAN :
                 gas' = [gas EXCEPT ![w] = @ /\ left]

Execute(h) ==
  /\ h \in DOMAIN tx /\ tx[h].st = "pool"
  /\ tx[h].amount <= token[From(h)]
  /\ tx' = [tx EXCEPT ![h].st = "ok"]
  /\ token' = [token EXCEPT ![From(h)] = @ - tx[h].amount]
  /\ BurnGas(From(h))
  /\ UNCHANGED <<dbVars, workerVars, confirmVars, refills, faults>>

\* Reverted: balance too small, or not enough energy.
Revert(h) ==
  /\ h \in DOMAIN tx /\ tx[h].st = "pool"
  /\ tx' = [tx EXCEPT ![h].st = "failed"]
  /\ BurnGas(From(h))
  /\ UNCHANGED <<dbVars, workerVars, confirmVars, token, refills, faults>>

Finalize(h) ==
  /\ h \in DOMAIN tx /\ tx[h].st \in {"ok", "failed"} /\ ~tx[h].final
  /\ tx' = [tx EXCEPT ![h].final = TRUE]
  /\ UNCHANGED <<dbVars, workerVars, confirmVars, token, gas, refills, faults>>

\* A block less than CONFIRMATION_COUNT deep is replaced.
Reorg(h) ==
  /\ h \in DOMAIN tx /\ tx[h].st \in {"ok", "failed"} /\ ~tx[h].final
  /\ tx' = [tx EXCEPT ![h].st = "pool"]
  /\ token' = IF tx[h].st = "ok"
                THEN [token EXCEPT ![From(h)] = @ + tx[h].amount] ELSE token
  /\ UNCHANGED <<dbVars, workerVars, confirmVars, gas, refills, faults>>

Expire(h) ==
  /\ h \in DOMAIN tx /\ tx[h].st = "pool"
  /\ tx' = [tx EXCEPT ![h].st = "expired"]
  /\ UNCHANGED <<dbVars, workerVars, confirmVars, token, gas, refills, faults>>

CreditTrx(w) ==
  /\ refills[w] > 0
  /\ refills' = [refills EXCEPT ![w] = @ - 1]
  /\ gas' = [gas EXCEPT ![w] = TRUE]
  /\ UNCHANGED <<dbVars, workerVars, confirmVars, token, tx, faults>>

----------------------------------------------------------------------------
\* The steps of the sweep worker of i, and of its confirm worker.
SweepWorker(i) ==
  \/ FetchJobs(i)
  \/ \E d \in Deposits : LockJob(i, d) \/ MissLock(i, d)
  \/ CheckTerminal(i) \/ CheckBroadcast(i)
  \/ ReadTrx(i) \/ ReadToken(i)
  \/ LogSkipped(i)
  \/ SendRefill(i) \/ LogRefill(i)
  \/ \E h \in TxHash : Broadcast(i, h)
  \/ LogBroadcast(i)
  \/ FinishJob(i) \/ ReleaseJob(i)

ConfirmWorker(i) ==
  \/ FetchBroadcasts(i)
  \/ \E h \in TxHash : ConfirmSweep(i, h) \/ FailSweep(i, h)
  \/ DropJob(i)

Failure(i) ==
  \/ ChainFails(i) \/ RefillAckLost(i)
  \/ \E h \in TxHash : BroadcastAckLost(i, h) \/ ConfirmFails(i, h)
  \/ DbFails(i) \/ ReleaseFails(i) \/ Crash(i)
  \/ \E d \in Deposits : LockFails(i, d)

Chain ==
  \/ \E h \in TxHash : \/ Execute(h) \/ Revert(h)
                       \/ Finalize(h) \/ Reorg(h) \/ Expire(h)
  \/ \E w \in Wallets : CreditTrx(w)

Next ==
  \/ \E d \in Deposits : Pay(d) \/ QueueSweep(d)
  \/ \E i \in Instances : SweepWorker(i) \/ ConfirmWorker(i) \/ Failure(i)
  \/ Chain

Spec == Init /\ [][Next]_vars

\* setInterval keeps calling process(), a settled promise resumes its await,
\* and the chain decides every transaction: executed, reverted or expired,
\* and final in the end however often a shallow block is replaced.
Fairness ==
  /\ \A i \in Instances : WF_vars(SweepWorker(i)) /\ WF_vars(ConfirmWorker(i))
  /\ \A h \in TxHash :
       /\ WF_vars(Execute(h) \/ Revert(h) \/ Expire(h))
       /\ SF_vars(Finalize(h))
  /\ \A w \in Wallets : WF_vars(CreditTrx(w))

FairSpec == Spec /\ Fairness

----------------------------------------------------------------------------
(* Properties *)

\* PROCESSING is a lock: two processes never work on the job of the same
\* deposit (updateMany ... where status = PENDING, sweep.worker.ts).
MutualExclusion ==
  \A i, j \in Instances :
    i # j /\ pc[i] \in Working /\ pc[j] \in Working => at[i] # at[j]

\* At most one unit is lost to rounding.
UpToDust(logged, moved) == logged - moved \in {0, 1}

\* Every SweepLog row with a txHash is about a transfer that was really
\* submitted, for that deposit and, up to the unit that rounding may lose, that
\* amount; and a settled row says what the chain decided for good, whatever
\* fails or crashes in between.
LedgerMatchesChain ==
  \A h \in DOMAIN sweepLog :
    /\ h \in DOMAIN tx
    /\ sweepLog[h].dep = tx[h].dep
    /\ UpToDust(sweepLog[h].amount, tx[h].amount)
    /\ sweepLog[h].status = "CONFIRMED" => tx[h].st = "ok" /\ tx[h].final
    /\ sweepLog[h].status = "FAILED" => tx[h].st = "failed" /\ tx[h].final

\* The queue never drops a deposit: when the job of a confirmed deposit is
\* gone, SweepLog says what became of it.
Recorded(d) ==
  \/ \E h \in DOMAIN sweepLog : sweepLog[h].dep = d
  \/ <<d, "SKIPPED">> \in notes

NoJobDropped ==
  \A d \in Deposits : deposit[d] = "CONFIRMED" /\ job[d] = "none" => Recorded(d)

\* A deposit is swept once: it never has two rows that are in flight or
\* confirmed.
OneSweepPerDeposit ==
  \A d \in Deposits :
    \A h, g \in Rows(d, {"BROADCASTED", "CONFIRMED"}) : h = g

\* SweepLog.amount is the amount that was really moved.
LoggedAmountMoved ==
  \A h \in DOMAIN sweepLog : h \in DOMAIN tx => sweepLog[h].amount = tx[h].amount

\* Every queued job is worked off in the end, however many calls to the
\* node fail on the way.
QueueDrains == \A d \in Deposits : job[d] # "none" ~> job[d] = "none"

\* Every broadcast sweep is settled in the end, unless its transaction
\* expired: such a row stays BROADCASTED for ever.  Nor if so many older ones
\* expired that they fill the snapshot of every cycle.
InFlight(h) == h \in DOMAIN sweepLog /\ sweepLog[h].status = "BROADCASTED"
Crowded(h) == Cardinality({g \in Older(h) : tx[g].st = "expired"}) >= Take

SweepSettles ==
  \A h \in TxHash :
    InFlight(h) ~> (~InFlight(h) \/ tx[h].st = "expired" \/ Crowded(h))

\* What the pipeline promises about its records: the module SweepLedger.
Outcome == [h \in TxHash |->
  IF h \in DOMAIN tx /\ tx[h].final
    THEN IF tx[h].st = "ok" THEN "paid" ELSE "void"
    ELSE "open"]

Book == [h \in TxHash |->
  IF h \notin DOMAIN sweepLog THEN "none"
  ELSE IF sweepLog[h].status = "BROADCASTED" THEN "open"
  ELSE IF sweepLog[h].status = "CONFIRMED" THEN "paid" ELSE "void"]

Ledger == INSTANCE SweepLedger WITH Entries <- TxHash, outcome <- Outcome, book <- Book

\* SweepLog takes a transfer up once and closes it with what the chain has
\* decided for good, and never changes a closed row.
RefinesLedger == Ledger!Spec
=============================================================================
