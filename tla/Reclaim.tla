------------------------------- MODULE Reclaim -------------------------------
(***************************************************************************)
(* AssetsReclaimJob: an administrator queues wallets, and ReclaimWorker     *)
(* moves their tokens to the hot wallet and the TRX left over to the gas    *)
(* tank.  fetchJobs takes FAILED rows as well as PENDING ones, and its row  *)
(* locks end with the query, so several processes may be at one wallet.     *)
(* After every transfer the worker waits ten seconds and goes on: nobody    *)
(* looks whether the transfer has been executed, or has reverted.  TRX is   *)
(* counted in the unit that MIN_TRX_FOR_TOKEN_TRANSFER is one of; the 0.05  *)
(* that stay behind are 0.                                                  *)
(***************************************************************************)
EXTENDS Integers, FiniteSets

CONSTANTS
  ReclaimWallets,
  Broken,          \* wallets whose private key does not decrypt
  Administrators,  \* portal sessions, one request at a time each
  Reclaimers,      \* server processes
  ReclaimTake,     \* BATCH_SIZE
  RefillUnits,     \* REFILL_TRX_AMOUNT
  FeeUnits,        \* TRX a token transfer burns, reverted or not
  MaxReclaimJobs,  \* bound: rows created
  MaxPaid,         \* bound: tokens paid to a wallet
  MaxMishaps       \* bound: failing calls, late or reverted transfers and crashes

ReclaimJobs == 1..MaxReclaimJobs

ASSUME ReclaimAssumption ==
  /\ Broken \subseteq ReclaimWallets /\ "nobody" \notin Reclaimers
  /\ ReclaimTake \in Nat \ {0}
  /\ FeeUnits = 1 /\ RefillUnits \in Nat \ {0}
  /\ MaxReclaimJobs \in Nat /\ MaxPaid \in Nat /\ MaxMishaps \in Nat

VARIABLES
  row,      \* job -> "none", "PENDING", "FAILED", "deleted"; numbered by createdAt
  rowOf,    \* job -> wallet of its row
  author,   \* PENDING job -> history: the administrator who queued it
  chosen,   \* administrator -> wallets its INSERT has selected
  held,     \* wallet -> tokens on chain
  paid,     \* wallet -> tokens ever paid to it
  trx,      \* wallet -> TRX on chain
  reclaim,  \* process -> its control point, jobs to visit, and what it has read
  late,     \* transfers that were not executed within the wait
  mishaps

reclaimVars == <<row, rowOf, author, chosen, held, paid, trx, reclaim, late, mishaps>>
jobVars == <<row, rowOf, author, chosen>>
chainVars == <<held, paid, trx, late>>

Transfers == [what : {"token", "refill", "rest"}, wallet : ReclaimWallets, amount : Nat]
NoTransfer == [what |-> "none"]

\* owed is a history of the job in hand: TRUE once tokens were found in its wallet,
\* until tokens of that wallet have been moved or the transfer of the tokens has
\* reverted, a wait was too short, or somebody else took TRX out of the wallet.
Idle == [at |-> "idle", jobs |-> {}, job |-> 0, balance |-> 0,
         sent |-> NoTransfer, owed |-> FALSE]

ReclaimTypeOK ==
  /\ row \in [ReclaimJobs -> {"none", "PENDING", "FAILED", "deleted"}]
  /\ rowOf \in [ReclaimJobs -> ReclaimWallets \cup {"none"}]
  /\ author \in [ReclaimJobs -> Administrators \cup {"none"}]
  /\ chosen \in [Administrators -> SUBSET ReclaimWallets]
  /\ held \in [ReclaimWallets -> Nat] /\ paid \in [ReclaimWallets -> Nat]
  /\ trx \in [ReclaimWallets -> Nat]
  /\ reclaim \in [Reclaimers -> [at : {"idle", "next", "fee", "refill", "rest", "drain", "delete"},
                                 jobs : SUBSET ReclaimJobs, job : ReclaimJobs \cup {0},
                                 balance : Nat, sent : Transfers \cup {NoTransfer},
                                 owed : BOOLEAN]]
  /\ late \subseteq Transfers
  /\ mishaps \in Nat

ReclaimInit ==
  /\ row = [j \in ReclaimJobs |-> "none"]
  /\ rowOf = [j \in ReclaimJobs |-> "none"] /\ author = rowOf
  /\ chosen = [a \in Administrators |-> {}]
  /\ held = [w \in ReclaimWallets |-> 0] /\ paid = held /\ trx = held
  /\ reclaim = [i \in Reclaimers |-> Idle]
  /\ late = {} /\ mishaps = 0

Live(j) == row[j] \in {"PENDING", "FAILED"}
Mishap == mishaps < MaxMishaps /\ mishaps' = mishaps + 1

----------------------------------------------------------------------------
(* createReclaimJobsAll: one INSERT ... SELECT ... WHERE NOT EXISTS *)

\* Bound: rows for what all administrators have selected.
RowsLeft(ws) ==
  Cardinality(ws) + Cardinality({c \in Administrators \X ReclaimWallets : c[2] \in chosen[c[1]]})
    <= Cardinality({j \in ReclaimJobs : row[j] = "none"})

Fresh(ws) == {w \in ws : ~\E j \in ReclaimJobs : rowOf[j] = w /\ row[j] = "PENDING"}

\* Mutant of SelectWallets: the subquery is missing.
SelectWalletsAll(a, ws) ==
  /\ chosen[a] = {} /\ ws # {} /\ RowsLeft(ws)
  /\ chosen' = [chosen EXCEPT ![a] = ws]
  /\ UNCHANGED <<row, rowOf, author, chainVars, reclaim, mishaps>>

\* Its snapshot: the wallets the request names that have no row in progress.
\* PROCESSING is never stored, and a FAILED row does not count.
SelectWallets(a, ws) ==
  /\ chosen[a] = {} /\ Fresh(ws) # {} /\ RowsLeft(Fresh(ws))
  /\ chosen' = [chosen EXCEPT ![a] = Fresh(ws)]
  /\ UNCHANGED <<row, rowOf, author, chainVars, reclaim, mishaps>>

\* Its rows, all with the same createdAt: the order among them is the database's.
InsertJobs(a) ==
  \E new \in SUBSET {j \in ReclaimJobs : row[j] = "none"} :
  \E f \in [new -> chosen[a]] :
    /\ chosen[a] # {}
    /\ \A w \in chosen[a] : \E j \in new : f[j] = w
    /\ \A j, k \in new : f[j] = f[k] => j = k
    /\ \A j \in new : \A k \in 1..(j - 1) : row[k] # "none" \/ k \in new
    /\ row' = [j \in ReclaimJobs |-> IF j \in new THEN "PENDING" ELSE row[j]]
    /\ rowOf' = [j \in ReclaimJobs |-> IF j \in new THEN f[j] ELSE rowOf[j]]
    /\ author' = [j \in ReclaimJobs |-> IF j \in new THEN a ELSE author[j]]
    /\ chosen' = [chosen EXCEPT ![a] = {}]
    /\ UNCHANGED <<chainVars, reclaim, mishaps>>

----------------------------------------------------------------------------
(* ReclaimWorker.process.  A broadcast is part of the step before it, and an  *)
(* error part of the update in the catch block: nobody sees them any sooner.  *)

Oldest(jobs) == {j \in jobs : Cardinality({k \in jobs : k <= j}) <= ReclaimTake}

\* fetchJobs: the oldest rows, whatever their status.
FetchJobs(i) ==
  LET jobs == Oldest({j \in ReclaimJobs : Live(j)}) IN
  /\ reclaim[i].at = "idle" /\ jobs # {}
  /\ reclaim' = [reclaim EXCEPT ![i] = [Idle EXCEPT !.at = "next", !.jobs = jobs]]
  /\ UNCHANGED <<jobVars, chainVars, mishaps>>

\* The job is done with: the next one, or the end of the cycle.
Onward(jobs) == IF jobs = {} THEN Idle ELSE [Idle EXCEPT !.at = "next", !.jobs = jobs]

\* Mutant of Catch: an error ends the cycle.
CatchAbort(i, j, jobs) ==
  /\ row' = IF Live(j) THEN [row EXCEPT ![j] = "FAILED"] ELSE row
  /\ author' = [author EXCEPT ![j] = "none"]
  /\ reclaim' = [reclaim EXCEPT ![i] = Idle]
  /\ UNCHANGED <<rowOf, chosen>>

\* The catch block.  Its update of a row that is gone throws, which ends the cycle.
Catch(i, j, jobs) ==
  /\ row' = IF Live(j) THEN [row EXCEPT ![j] = "FAILED"] ELSE row
  /\ author' = [author EXCEPT ![j] = "none"]
  /\ reclaim' = [reclaim EXCEPT ![i] = IF Live(j) THEN Onward(jobs) ELSE Idle]
  /\ UNCHANGED <<rowOf, chosen>>

First(i, j) ==
  /\ reclaim[i].at = "next" /\ j \in reclaim[i].jobs
  /\ \A k \in reclaim[i].jobs : j <= k

\* decryptPrivateKey fails.
KeyFails(i, j) ==
  /\ First(i, j)
  /\ rowOf[j] \in Broken
  /\ Catch(i, j, reclaim[i].jobs \ {j})
  /\ UNCHANGED <<chainVars, mishaps>>

\* decryptPrivateKey and getTokenBalance.
ReadTokens(i, j) ==
  /\ First(i, j)
  /\ rowOf[j] \notin Broken
  /\ LET found == held[rowOf[j]]
         visit == [Idle EXCEPT !.jobs = reclaim[i].jobs \ {j}, !.job = j] IN
     reclaim' = [reclaim EXCEPT ![i] =
       IF found > 0 THEN [visit EXCEPT !.at = "fee", !.balance = found, !.owed = TRUE]
                    ELSE [visit EXCEPT !.at = "rest"]]
  /\ UNCHANGED <<jobVars, chainVars, mishaps>>

Wallet(i) == rowOf[reclaim[i].job]
At(i, point) == reclaim[i].at = point /\ reclaim[i].sent = NoTransfer

Sending(r, w, what, amount, to) ==
  [r EXCEPT !.at = to, !.balance = IF what = "refill" THEN @ ELSE 0,
            !.sent = [what |-> what, wallet |-> w, amount |-> amount]]
SendingTokens(r, w) == Sending(r, w, "token", r.balance, "rest")

\* Mutant of ReadFee: the wallet's TRX is not looked at.
ReadFeeNot(i) ==
  /\ At(i, "fee")
  /\ reclaim' = [reclaim EXCEPT ![i] = SendingTokens(@, Wallet(i))]
  /\ UNCHANGED <<jobVars, chainVars, mishaps>>

\* getTrxBalance: the refill, or the tokens at once.
ReadFee(i) ==
  /\ At(i, "fee")
  /\ reclaim' = [reclaim EXCEPT ![i] =
       IF trx[Wallet(i)] < 1 THEN Sending(@, Wallet(i), "refill", RefillUnits, "refill")
                             ELSE SendingTokens(@, Wallet(i))]
  /\ UNCHANGED <<jobVars, chainVars, mishaps>>

\* What follows a wait: after the refill, the tokens.
Waited(i) ==
  IF reclaim[i].at = "refill" THEN SendingTokens(reclaim[i], Wallet(i))
                              ELSE [reclaim[i] EXCEPT !.sent = NoTransfer]

\* getTrxBalance, for what is left.
ReadRest(i) ==
  /\ At(i, "rest")
  /\ reclaim' = [reclaim EXCEPT ![i].balance = trx[Wallet(i)],
                                ![i].at = IF trx[Wallet(i)] > 0 THEN "drain" ELSE "delete"]
  /\ UNCHANGED <<jobVars, chainVars, mishaps>>

\* The rest goes to the gas tank; the node refuses what is no longer there.
SendRest(i) ==
  /\ At(i, "drain")
  /\ trx[Wallet(i)] >= reclaim[i].balance
  /\ reclaim' = [reclaim EXCEPT ![i] = Sending(@, Wallet(i), "rest", @.balance, "delete")]
  /\ UNCHANGED <<jobVars, chainVars, mishaps>>

RestRefused(i) ==
  /\ At(i, "drain")
  /\ trx[Wallet(i)] < reclaim[i].balance
  /\ Catch(i, reclaim[i].job, reclaim[i].jobs)
  /\ UNCHANGED <<chainVars, mishaps>>

\* The row goes.  If another process has deleted it, that is an error, too.
DeleteJob(i) ==
  /\ At(i, "delete")
  /\ Live(reclaim[i].job)
  /\ row' = [row EXCEPT ![reclaim[i].job] = "deleted"]
  /\ author' = [author EXCEPT ![reclaim[i].job] = "none"]
  /\ reclaim' = [reclaim EXCEPT ![i] = Onward(@.jobs)]
  /\ UNCHANGED <<rowOf, chosen, chainVars, mishaps>>

DeleteFails(i) ==
  /\ At(i, "delete")
  /\ ~Live(reclaim[i].job)
  /\ Catch(i, reclaim[i].job, reclaim[i].jobs)
  /\ UNCHANGED <<chainVars, mishaps>>

Unsettled(i) == {reclaim[i].sent} \ {NoTransfer}

\* A call of the loop fails.  A broadcast that fails may have been taken all the same.
CallFails(i, taken) ==
  /\ Mishap
  /\ reclaim[i].at \notin {"idle", "next"}
  /\ late' = IF taken THEN late \cup Unsettled(i) ELSE late
  /\ Catch(i, reclaim[i].job, reclaim[i].jobs)
  /\ UNCHANGED <<held, paid, trx>>

\* A fetch or the update in the catch block fails, or the process dies.
CycleEnds(i) ==
  /\ Mishap
  /\ reclaim[i].at # "idle"
  /\ late' = late \cup Unsettled(i)
  /\ reclaim' = [reclaim EXCEPT ![i] = Idle]
  /\ UNCHANGED <<jobVars, held, paid, trx>>

----------------------------------------------------------------------------
(* The chain, and SweepWorker on the same wallets *)

\* What becomes of the debt of process i once the transfer of the tokens of w is
\* decided, or when TRX of w is taken by a process or by somebody else.
Settled(r, i, w, decided, takers) ==
  IF r.owed /\ rowOf[r.job] = w /\ (decided \/ ~(takers \subseteq {i})) THEN [r EXCEPT !.owed = FALSE] ELSE r

\* A transfer is executed.  A token transfer needs its fee and the tokens, and burns
\* the fee even when it reverts or the tokens are gone.
Effect(t, by, reverts) ==
  LET w == t.wallet
      covers == trx[w] >= FeeUnits
      moves == t.what = "token" /\ covers /\ ~reverts /\ held[w] >= t.amount IN
  /\ held' = IF moves THEN [held EXCEPT ![w] = @ - t.amount] ELSE held
  /\ trx' = CASE t.what = "refill" -> [trx EXCEPT ![w] = @ + t.amount]
              [] t.what = "token" -> IF covers THEN [trx EXCEPT ![w] = @ - FeeUnits] ELSE trx
              [] OTHER -> IF trx[w] >= t.amount THEN [trx EXCEPT ![w] = @ - t.amount] ELSE trx
  /\ reclaim' = [i \in Reclaimers |->
       Settled(IF by = {i} THEN Waited(i) ELSE reclaim[i],
               i, w, moves \/ reverts, IF trx'[w] < trx[w] THEN by ELSE {})]
  /\ UNCHANGED <<paid, jobVars>>

\* Within the wait.
Executed(i) ==
  /\ reclaim[i].sent # NoTransfer
  /\ Effect(reclaim[i].sent, {i}, FALSE)
  /\ UNCHANGED <<late, mishaps>>

\* The TRX of the wallet covers the configured minimum, not what the energy costs:
\* feeLimit, 100 TRX, only bounds what may be burnt.
MayRevert(t) == t.what = "token" /\ trx[t.wallet] >= FeeUnits

\* Within the wait, and to no avail; the worker does not read the receipt.
OutOfEnergy(i) ==
  /\ Mishap
  /\ reclaim[i].sent # NoTransfer
  /\ MayRevert(reclaim[i].sent)
  /\ Effect(reclaim[i].sent, {i}, TRUE)
  /\ UNCHANGED late

\* The wait is over first.
WaitTooShort(i) ==
  /\ Mishap
  /\ reclaim[i].sent # NoTransfer
  /\ late' = late \cup {reclaim[i].sent}
  /\ reclaim' = [reclaim EXCEPT ![i] = [Waited(i) EXCEPT !.owed = FALSE]]
  /\ UNCHANGED <<jobVars, held, paid, trx>>

\* A late transfer is executed after all; by then it is nobody's.
ExecutedLate(t) ==
  /\ t \in late /\ late' = late \ {t}
  /\ \E reverts \in BOOLEAN : (reverts => MayRevert(t)) /\ Effect(t, {"nobody"}, reverts)
  /\ UNCHANGED mishaps

\* Wallets whose key does not decrypt keep what they have: it is left out.
PayWallet(w) ==
  /\ w \notin Broken
  /\ paid[w] < MaxPaid
  /\ paid' = [paid EXCEPT ![w] = @ + 1]
  /\ held' = [held EXCEPT ![w] = @ + 1]
  /\ UNCHANGED <<jobVars, trx, reclaim, late, mishaps>>

\* SweepWorker sweeps the wallet (module Sweep).
SweepAlso(w) ==
  /\ trx[w] >= FeeUnits /\ held[w] > 0
  /\ trx' = [trx EXCEPT ![w] = @ - FeeUnits]
  /\ held' = [held EXCEPT ![w] = 0]
  /\ reclaim' = [i \in Reclaimers |-> Settled(reclaim[i], i, w, TRUE, {})]
  /\ UNCHANGED <<jobVars, paid, late, mishaps>>

\* Its transfer of a balance it read earlier is reverted, and burns the fee.
SweepReverted(w) ==
  /\ Mishap
  /\ trx[w] >= FeeUnits
  /\ trx' = [trx EXCEPT ![w] = @ - FeeUnits]
  /\ reclaim' = [i \in Reclaimers |-> Settled(reclaim[i], i, w, FALSE, {"nobody"})]
  /\ UNCHANGED <<jobVars, held, paid, late>>

----------------------------------------------------------------------------

ReclaimWorker(i) ==
  \/ FetchJobs(i) \/ \E j \in ReclaimJobs : KeyFails(i, j) \/ ReadTokens(i, j)
  \/ ReadFee(i) \/ ReadRest(i) \/ SendRest(i) \/ RestRefused(i)
  \/ DeleteJob(i) \/ DeleteFails(i)

ReclaimNext ==
  \/ \E a \in Administrators :
       InsertJobs(a) \/ \E ws \in SUBSET ReclaimWallets : SelectWallets(a, ws)
  \/ \E i \in Reclaimers :
       \/ ReclaimWorker(i) \/ CycleEnds(i) \/ \E taken \in BOOLEAN : CallFails(i, taken)
       \/ Executed(i) \/ OutOfEnergy(i) \/ WaitTooShort(i)
  \/ \E t \in late : ExecutedLate(t)
  \/ \E w \in ReclaimWallets : PayWallet(w) \/ SweepAlso(w) \/ SweepReverted(w)

ReclaimSpec == ReclaimInit /\ [][ReclaimNext]_reclaimVars

----------------------------------------------------------------------------
(* Properties *)

\* A wallet is queued twice only by requests that overlap: one administrator's
\* requests, which follow each other, never leave two PENDING rows of a wallet.
OneRowPerAuthor ==
  \A j, k \in ReclaimJobs :
    row[j] = "PENDING" /\ row[k] = "PENDING" /\ rowOf[j] = rowOf[k]
      /\ author[j] = author[k] => j = k

\* A job goes only after the transfer of the tokens it found has been decided: it has
\* moved them, or has reverted, which the worker never learns, so that the tokens stay
\* without a job.  Exempt is a job one of whose transfers took longer than the wait, or
\* whose wallet somebody else spent TRX of: nothing but the wait stands between the
\* transfer of the tokens and that of the TRX they need.
NotGivenUp ==
  \A i \in Reclaimers :
    At(i, "delete") => ~reclaim[i].owed

\* Every job of a wallet that can be reclaimed is done in the end, although
\* FAILED rows come back in every cycle, as long as fewer of them than a cycle
\* takes can never be done.
ReclaimEnds ==
  \A j \in ReclaimJobs :
    /\ Live(j) /\ rowOf[j] \notin Broken
    /\ Cardinality({k \in 1..(j - 1) : Live(k) /\ rowOf[k] \in Broken}) < ReclaimTake
    ~> row[j] = "deleted"
=============================================================================
