--------------------------- MODULE ReclaimProofs ---------------------------
(***************************************************************************)
(* Proofs about Reclaim, for any wallets, administrators, processes and     *)
(* failures.  GoodWorker says what a process knows of the wallet in hand:   *)
(* as long as nobody else spends its TRX, the tokens found are there until  *)
(* their transfer is decided, and the fee is there when that happens.       *)
(* What may happen to a row at all (WaysTheorem) follows from it.           *)
(***************************************************************************)
EXTENDS Reclaim, TLAPS

Workers == [at : {"idle", "next", "fee", "refill", "rest", "drain", "delete"},
            jobs : SUBSET ReclaimJobs, job : ReclaimJobs \cup {0},
            balance : Nat, sent : Transfers \cup {NoTransfer}, owed : BOOLEAN]

\* The job in hand has a row, of a wallet.
AtWork(r) == r.at \notin {"idle", "next"}

\* The tokens are still there, and so is their fee once they have been sent.
Owing(r) ==
  LET w == rowOf[r.job] IN
  /\ AtWork(r)
  /\ \/ r.at = "fee" /\ r.sent = NoTransfer /\ held[w] >= r.balance
     \/ /\ r.at = "refill" /\ held[w] >= r.balance
        /\ r.sent.what = "refill" /\ r.sent.wallet = w /\ r.sent.amount = RefillUnits
     \/ /\ r.at = "rest"
        /\ r.sent.what = "token" /\ r.sent.wallet = w
        /\ held[w] >= r.sent.amount /\ trx[w] >= FeeUnits

GoodWorker(r) ==
  /\ r \in Workers
  /\ \A j \in r.jobs : row[j] # "none"
  /\ AtWork(r) => r.job \in ReclaimJobs /\ row[r.job] # "none"
  /\ AtWork(r) \/ r.sent = NoTransfer
  /\ r.owed => Owing(r)

RowsHaveWallets == \A j \in ReclaimJobs : row[j] # "none" => rowOf[j] \in ReclaimWallets

\* What an administrator has selected is not queued by the same administrator.
ChosenIsFresh ==
  \A a \in Administrators, j \in ReclaimJobs :
    row[j] = "PENDING" /\ rowOf[j] \in chosen[a] => author[j] # a

Rows == /\ row \in [ReclaimJobs -> {"none", "PENDING", "FAILED", "deleted"}]
        /\ rowOf \in [ReclaimJobs -> ReclaimWallets \cup {"none"}]
        /\ author \in [ReclaimJobs -> Administrators \cup {"none"}]
        /\ chosen \in [Administrators -> SUBSET ReclaimWallets]
        /\ RowsHaveWallets /\ ChosenIsFresh /\ OneRowPerAuthor

Chain == /\ held \in [ReclaimWallets -> Nat] /\ paid \in [ReclaimWallets -> Nat]
         /\ trx \in [ReclaimWallets -> Nat] /\ late \subseteq Transfers /\ mishaps \in Nat

Workforce == /\ reclaim \in [Reclaimers -> Workers]
             /\ \A i \in Reclaimers : GoodWorker(reclaim[i])

Settling == Rows /\ Chain /\ Workforce

LEMMA SettlingTypes == Settling => ReclaimTypeOK
  BY DEF Settling, Rows, Chain, Workforce, ReclaimTypeOK, Workers

LEMMA IdleIsGood == GoodWorker(Idle)
  BY DEF Idle, GoodWorker, Workers, AtWork

LEMMA SettlingInit == ReclaimInit => Settling
<1> SUFFICES ASSUME ReclaimInit PROVE Settling
  OBVIOUS
<1>1. Rows /\ Chain
  BY ReclaimAssumption
  DEF ReclaimInit, Rows, Chain, RowsHaveWallets, ChosenIsFresh, OneRowPerAuthor
<1>2. Workforce
  BY IdleIsGood DEF ReclaimInit, Workforce, GoodWorker
<1>3. QED
  BY <1>1, <1>2 DEF Settling

\* A step of one process that leaves rows and chain alone.
LEMMA WorkerStep ==
  ASSUME Settling, NEW i \in Reclaimers, NEW r, GoodWorker(r),
         reclaim' = [reclaim EXCEPT ![i] = r],
         UNCHANGED <<row, rowOf, author, chosen, held, paid, trx>>,
         late' \subseteq Transfers, mishaps' \in Nat
  PROVE  Settling'
<1>1. \A s : GoodWorker(s)' <=> GoodWorker(s)
  BY DEF GoodWorker, Owing
<1>2. r \in Workers
  BY DEF GoodWorker
<1>3. Workforce'
  <2>1. reclaim' \in [Reclaimers -> Workers]
    BY <1>2 DEF Settling, Workforce
  <2>2. \A p \in Reclaimers : GoodWorker(reclaim'[p])
    BY DEF Settling, Workforce
  <2>3. ASSUME NEW p \in Reclaimers PROVE GoodWorker(reclaim[p])'
    <3>1. PICK s : s = reclaim'[p]
      OBVIOUS
    <3>2. GoodWorker(s)'
      BY <1>1, <2>2, <3>1
    <3>3. QED
      BY <3>1, <3>2 DEF GoodWorker, Owing
  <2>4. QED
    BY <2>1, <2>3 DEF Workforce
<1>4. Rows' /\ Chain'
  BY DEF Settling, Rows, Chain, RowsHaveWallets, ChosenIsFresh, OneRowPerAuthor
<1>5. QED
  BY <1>3, <1>4 DEF Settling

\* A step of one process that marks or deletes the row of job j.
LEMMA RowStep ==
  ASSUME Settling, NEW i \in Reclaimers, NEW j \in ReclaimJobs, NEW r, GoodWorker(r), row[j] # "none",
         NEW status \in {"FAILED", "deleted"},
         row' = IF Live(j) THEN [row EXCEPT ![j] = status] ELSE row,
         author' = [author EXCEPT ![j] = "none"],
         reclaim' = [reclaim EXCEPT ![i] = r],
         UNCHANGED <<rowOf, chosen, held, paid, trx>>,
         late' \subseteq Transfers, mishaps' \in Nat
  PROVE  Settling'
<1>1. /\ row' \in [ReclaimJobs -> {"none", "PENDING", "FAILED", "deleted"}]
      /\ row'[j] # "PENDING" /\ row'[j] # "none"
      /\ \A k \in ReclaimJobs \ {j} : row'[k] = row[k]
  BY DEF Settling, Rows, Live
<1>2. /\ author' \in [ReclaimJobs -> Administrators \cup {"none"}]
      /\ \A k \in ReclaimJobs \ {j} : author'[k] = author[k]
  BY DEF Settling, Rows
<1>3. \A k \in ReclaimJobs : row'[k] # "none" <=> row[k] # "none"
  BY <1>1
<1>4. Rows' /\ Chain'
  BY <1>1, <1>2, <1>3 DEF Settling, Rows, Chain, RowsHaveWallets, ChosenIsFresh, OneRowPerAuthor
<1>5. \A s : GoodWorker(s) => GoodWorker(s)'
  BY <1>3 DEF GoodWorker, Owing, Workers
<1>6. Workforce'
  <2>1. reclaim' \in [Reclaimers -> Workers]
    BY DEF Settling, Workforce, GoodWorker
  <2>2. \A p \in Reclaimers : GoodWorker(reclaim'[p])
    BY DEF Settling, Workforce
  <2>3. ASSUME NEW p \in Reclaimers PROVE GoodWorker(reclaim[p])'
    <3>1. PICK s : s = reclaim'[p]
      OBVIOUS
    <3>2. GoodWorker(s)'
      BY <1>5, <2>2, <3>1
    <3>3. QED
      BY <3>1, <3>2 DEF GoodWorker, Owing
  <2>4. QED
    BY <2>1, <2>3 DEF Workforce
<1>7. QED
  BY <1>4, <1>6 DEF Settling

\* Going on to the next job leaves only jobs that have rows.
LEMMA OnwardIsGood ==
  ASSUME NEW jobs \in SUBSET ReclaimJobs, \A j \in jobs : row[j] # "none"
  PROVE  GoodWorker(Onward(jobs))
<1>1. CASE jobs = {}
  BY <1>1, IdleIsGood DEF Onward
<1>2. CASE jobs # {}
  BY <1>2 DEF Onward, Idle, GoodWorker, Workers, AtWork
<1>3. QED
  BY <1>1, <1>2

\* What a process has in hand.
LEMMA InHand ==
  ASSUME Settling, NEW i \in Reclaimers
  PROVE  /\ GoodWorker(reclaim[i]) /\ reclaim[i] \in Workers
         /\ AtWork(reclaim[i]) => /\ reclaim[i].job \in ReclaimJobs /\ row[reclaim[i].job] # "none"
                                  /\ Wallet(i) \in ReclaimWallets
                                  /\ held[Wallet(i)] \in Nat /\ trx[Wallet(i)] \in Nat
  BY DEF Settling, Workforce, Rows, Chain, GoodWorker, RowsHaveWallets, Wallet

\* The catch block.
LEMMA CatchStep ==
  ASSUME Settling, NEW i \in Reclaimers, NEW j \in ReclaimJobs, NEW jobs \in SUBSET reclaim[i].jobs,
         row[j] # "none", Catch(i, j, jobs), UNCHANGED <<held, paid, trx>>,
         late' \subseteq Transfers, mishaps' \in Nat
  PROVE  Settling'
<1> DEFINE r == IF Live(j) THEN Onward(jobs) ELSE Idle
<1>1. jobs \in SUBSET ReclaimJobs /\ \A k \in jobs : row[k] # "none"
  BY InHand DEF GoodWorker, Workers
<1>2. GoodWorker(r)
  BY <1>1, OnwardIsGood, IdleIsGood
<1>3. /\ row' = IF Live(j) THEN [row EXCEPT ![j] = "FAILED"] ELSE row
      /\ author' = [author EXCEPT ![j] = "none"]
      /\ reclaim' = [reclaim EXCEPT ![i] = r] /\ UNCHANGED <<rowOf, chosen>>
  BY DEF Catch
<1> HIDE DEF r
<1>4. QED
  BY <1>2, <1>3, RowStep

LEMMA FetchJobsSettling ==
  ASSUME Settling, NEW i \in Reclaimers, FetchJobs(i)
  PROVE  Settling'
<1> DEFINE jobs == Oldest({j \in ReclaimJobs : Live(j)})
           r == [Idle EXCEPT !.at = "next", !.jobs = jobs]
<1>1. jobs \in SUBSET ReclaimJobs /\ \A j \in jobs : row[j] # "none"
  BY DEF Oldest, Live
<1>2. reclaim' = [reclaim EXCEPT ![i] = r] /\ UNCHANGED <<jobVars, chainVars, mishaps>>
  BY DEF FetchJobs
<1> HIDE DEF jobs
<1>3. GoodWorker(r)
  BY <1>1 DEF Idle, GoodWorker, Workers, AtWork
<1> HIDE DEF r
<1>4. QED
  BY <1>2, <1>3, WorkerStep DEF jobVars, chainVars, Settling, Chain

\* Found: they are there, and nothing has been sent.
LEMMA ReadTokensSettling ==
  ASSUME Settling, NEW i \in Reclaimers, NEW j \in ReclaimJobs, ReadTokens(i, j)
  PROVE  Settling'
<1> DEFINE found == held[rowOf[j]]
           visit == [Idle EXCEPT !.jobs = reclaim[i].jobs \ {j}, !.job = j]
           r == IF found > 0 THEN [visit EXCEPT !.at = "fee", !.balance = found, !.owed = TRUE]
                             ELSE [visit EXCEPT !.at = "rest"]
<1>1. reclaim' = [reclaim EXCEPT ![i] = r] /\ UNCHANGED <<jobVars, chainVars, mishaps>>
  BY DEF ReadTokens
<1>2. /\ reclaim[i].jobs \subseteq ReclaimJobs /\ j \in reclaim[i].jobs
      /\ \A k \in reclaim[i].jobs : row[k] # "none"
  BY InHand DEF ReadTokens, First, GoodWorker, Workers
<1>3. rowOf[j] \in ReclaimWallets /\ found \in Nat
  BY <1>2 DEF Settling, Rows, RowsHaveWallets, Chain
<1>4. GoodWorker(r)
  <2>1. /\ r \in Workers /\ r.jobs \subseteq reclaim[i].jobs /\ r.job = j
        /\ r.at \in {"fee", "rest"} /\ r.sent = NoTransfer
        /\ r.owed => r.at = "fee" /\ r.balance = found
    BY <1>2, <1>3 DEF Idle, Workers
  <2> HIDE DEF r
  <2>2. AtWork(r)
    BY <2>1 DEF AtWork
  <2>3. r.owed => Owing(r)
    BY <1>3, <2>1, <2>2 DEF Owing
  <2>4. QED
    BY <1>2, <2>1, <2>2, <2>3 DEF GoodWorker
<1> HIDE DEF r
<1>5. QED
  BY <1>1, <1>4, WorkerStep DEF jobVars, chainVars, Settling, Chain

\* A refill leaves the balance that was read for the tokens.
LEMMA RefillFields ==
  ASSUME NEW s \in Workers, NEW w \in ReclaimWallets
  PROVE  LET r == Sending(s, w, "refill", RefillUnits, "refill") IN
         /\ r \in Workers /\ r.at = "refill" /\ r.jobs = s.jobs /\ r.job = s.job /\ r.owed = s.owed
         /\ r.balance = s.balance
         /\ r.sent.what = "refill" /\ r.sent.wallet = w /\ r.sent.amount = RefillUnits
  BY ReclaimAssumption DEF Sending, Workers, Transfers

\* The tokens go to the hot wallet; there are as many, and the fee is there.
LEMMA SendingTokensIsGood ==
  ASSUME NEW s \in Workers, GoodWorker(s), AtWork(s), NEW w \in ReclaimWallets, rowOf[s.job] = w,
         s.owed => held[w] >= s.balance /\ trx[w] >= FeeUnits
  PROVE  GoodWorker(SendingTokens(s, w))
<1> DEFINE r == SendingTokens(s, w)
<1>1. /\ r \in Workers /\ r.at = "rest" /\ r.jobs = s.jobs /\ r.job = s.job /\ r.owed = s.owed
      /\ r.sent.what = "token" /\ r.sent.wallet = w /\ r.sent.amount = s.balance
  BY DEF SendingTokens, Sending, Workers, Transfers
<1> HIDE DEF r
<1>2. GoodWorker(r)
  BY <1>1 DEF GoodWorker, Owing, AtWork
<1>3. QED
  BY <1>2 DEF r

LEMMA ReadFeeSettling ==
  ASSUME Settling, NEW i \in Reclaimers, ReadFee(i)
  PROVE  Settling'
<1> DEFINE w == Wallet(i)
           s == reclaim[i]
           r == IF trx[w] < 1 THEN Sending(s, w, "refill", RefillUnits, "refill") ELSE SendingTokens(s, w)
<1>1. reclaim' = [reclaim EXCEPT ![i] = r] /\ UNCHANGED <<jobVars, chainVars, mishaps>>
  BY DEF ReadFee
<1>2. /\ s.at = "fee" /\ s.sent = NoTransfer /\ AtWork(s) /\ s \in Workers /\ GoodWorker(s)
      /\ w \in ReclaimWallets /\ trx[w] \in Nat /\ s.job \in ReclaimJobs
  BY InHand DEF ReadFee, At, AtWork
<1>3. s.owed => held[w] >= s.balance
  BY <1>2 DEF GoodWorker, Owing, Wallet
<1>4. GoodWorker(r)
  <2>1. CASE trx[w] < 1
    <3> DEFINE refill == Sending(s, w, "refill", RefillUnits, "refill")
    <3>1. /\ refill \in Workers /\ refill.at = "refill" /\ refill.jobs = s.jobs /\ refill.job = s.job
          /\ refill.owed = s.owed /\ refill.balance = s.balance
          /\ refill.sent.what = "refill" /\ refill.sent.wallet = w /\ refill.sent.amount = RefillUnits
      BY <1>2, RefillFields
    <3> HIDE DEF refill
    <3>2. AtWork(refill) /\ w = rowOf[refill.job]
      BY <3>1 DEF AtWork, Wallet
    <3>3. refill.owed => Owing(refill)
      BY <1>3, <3>1, <3>2 DEF Owing
    <3>4. GoodWorker(refill)
      BY <1>2, <3>1, <3>2, <3>3 DEF GoodWorker
    <3>5. QED
      BY <2>1, <3>4 DEF refill
  <2>2. CASE ~(trx[w] < 1)
    <3>1. trx[w] >= FeeUnits /\ rowOf[s.job] = w
      BY <1>2, <2>2, ReclaimAssumption DEF Wallet
    <3>2. QED
      BY <1>2, <1>3, <2>2, <3>1, SendingTokensIsGood
  <2>3. QED
    BY <2>1, <2>2
<1> HIDE DEF r, s, w
<1>5. QED
  BY <1>1, <1>4, WorkerStep DEF jobVars, chainVars, Settling, Chain

LEMMA ReadRestSettling ==
  ASSUME Settling, NEW i \in Reclaimers, ReadRest(i)
  PROVE  Settling'
<1> DEFINE s == reclaim[i]
           left == trx[Wallet(i)]
           r == [s EXCEPT !.balance = left, !.at = IF left > 0 THEN "drain" ELSE "delete"]
<1>1. /\ s.at = "rest" /\ s.sent = NoTransfer /\ AtWork(s) /\ s \in Workers /\ GoodWorker(s)
      /\ left \in Nat /\ s.job \in ReclaimJobs
  BY InHand DEF ReadRest, At, AtWork
<1>2. reclaim' = [reclaim EXCEPT ![i] = r] /\ UNCHANGED <<jobVars, chainVars, mishaps>>
  BY DEF ReadRest
<1>3. ~s.owed
  BY <1>1 DEF GoodWorker, Owing, NoTransfer, Workers, Transfers
<1>4. GoodWorker(r)
  <2>1. r \in Workers /\ r.jobs = s.jobs /\ r.job = s.job /\ ~r.owed /\ r.sent = NoTransfer
    BY <1>1, <1>3 DEF Workers
  <2> HIDE DEF r
  <2>2. QED
    BY <1>1, <2>1 DEF GoodWorker
<1> HIDE DEF r, s, left
<1>5. QED
  BY <1>2, <1>4, WorkerStep DEF jobVars, chainVars, Settling, Chain

\* The rest: this process has no debt any more when it comes to that.
LEMMA SendRestSettling ==
  ASSUME Settling, NEW i \in Reclaimers, SendRest(i)
  PROVE  Settling'
<1> DEFINE s == reclaim[i]
           r == Sending(s, Wallet(i), "rest", s.balance, "delete")
<1>1. /\ s.at = "drain" /\ AtWork(s) /\ s \in Workers /\ GoodWorker(s)
      /\ Wallet(i) \in ReclaimWallets /\ s.job \in ReclaimJobs
  BY InHand DEF SendRest, At, AtWork
<1>2. reclaim' = [reclaim EXCEPT ![i] = r] /\ UNCHANGED <<jobVars, chainVars, mishaps>>
  BY DEF SendRest
<1>3. ~s.owed
  BY <1>1 DEF GoodWorker, Owing
<1>4. GoodWorker(r)
  <2>1. r \in Workers /\ r.jobs = s.jobs /\ r.job = s.job /\ ~r.owed /\ AtWork(r)
    BY <1>1, <1>3 DEF Sending, Workers, Transfers, AtWork
  <2> HIDE DEF r
  <2>2. QED
    BY <1>1, <2>1 DEF GoodWorker
<1> HIDE DEF r, s
<1>5. QED
  BY <1>2, <1>4, WorkerStep DEF jobVars, chainVars, Settling, Chain

LEMMA DeleteJobSettling ==
  ASSUME Settling, NEW i \in Reclaimers, DeleteJob(i)
  PROVE  Settling'
<1> DEFINE j == reclaim[i].job
           r == Onward(reclaim[i].jobs)
<1>1. j \in ReclaimJobs /\ row[j] # "none" /\ Live(j)
  BY InHand DEF DeleteJob, At, AtWork
<1>2. GoodWorker(r)
  BY InHand, OnwardIsGood DEF GoodWorker, Workers
<1>3. /\ row' = IF Live(j) THEN [row EXCEPT ![j] = "deleted"] ELSE row
      /\ author' = [author EXCEPT ![j] = "none"]
      /\ reclaim' = [reclaim EXCEPT ![i] = r]
      /\ UNCHANGED <<rowOf, chosen, chainVars, mishaps>>
  BY <1>1 DEF DeleteJob
<1> HIDE DEF r, j
<1>4. QED
  BY <1>1, <1>2, <1>3, RowStep DEF chainVars, Settling, Chain

\* What has been sent is a transfer.
LEMMA UnsettledTransfers ==
  ASSUME Settling, NEW i \in Reclaimers
  PROVE  late \cup Unsettled(i) \subseteq Transfers
  BY InHand DEF Unsettled, Workers, Settling, Chain

\* Errors: of the key, of the node, of the database.
LEMMA ErrorSettling ==
  ASSUME Settling, NEW i \in Reclaimers,
         \/ \E j \in ReclaimJobs : KeyFails(i, j)
         \/ RestRefused(i) \/ DeleteFails(i) \/ \E taken \in BOOLEAN : CallFails(i, taken)
  PROVE  Settling'
<1>1. ASSUME NEW j \in ReclaimJobs, KeyFails(i, j) PROVE Settling'
  <2>1. row[j] # "none" /\ reclaim[i].jobs \ {j} \in SUBSET reclaim[i].jobs
    BY <1>1, InHand DEF KeyFails, First, GoodWorker
  <2>2. QED
    BY <1>1, <2>1, CatchStep DEF KeyFails, chainVars, Settling, Chain
<1> DEFINE j == reclaim[i].job
<1>2. ASSUME RestRefused(i) \/ DeleteFails(i) PROVE Settling'
  <2>1. Catch(i, j, reclaim[i].jobs) /\ UNCHANGED <<chainVars, mishaps>>
    BY <1>2 DEF RestRefused, DeleteFails
  <2>2. j \in ReclaimJobs /\ row[j] # "none"
    BY <1>2, InHand DEF RestRefused, DeleteFails, At, AtWork
  <2>3. QED
    BY <2>1, <2>2, CatchStep DEF chainVars, Settling, Chain
<1>3. ASSUME NEW taken \in BOOLEAN, CallFails(i, taken) PROVE Settling'
  <2>1. Catch(i, j, reclaim[i].jobs) /\ UNCHANGED <<held, paid, trx>>
    BY <1>3 DEF CallFails
  <2>2. j \in ReclaimJobs /\ row[j] # "none"
    BY <1>3, InHand DEF CallFails, AtWork
  <2>3. late' \subseteq Transfers /\ mishaps' \in Nat
    BY <1>3, UnsettledTransfers DEF CallFails, Mishap, Settling, Chain
  <2>4. QED
    BY <2>1, <2>2, <2>3, CatchStep
<1>4. QED
  BY <1>1, <1>2, <1>3

LEMMA CycleEndsSettling ==
  ASSUME Settling, NEW i \in Reclaimers, CycleEnds(i)
  PROVE  Settling'
<1>1. late' \subseteq Transfers /\ mishaps' \in Nat
  BY UnsettledTransfers DEF CycleEnds, Mishap, Settling, Chain
<1>2. QED
  BY <1>1, IdleIsGood, WorkerStep DEF CycleEnds, jobVars

\* What follows a wait.
LEMMA WaitedFields ==
  ASSUME NEW i \in Reclaimers, reclaim[i] \in Workers, AtWork(reclaim[i]), Wallet(i) \in ReclaimWallets
  PROVE  /\ Waited(i) \in Workers /\ AtWork(Waited(i))
         /\ Waited(i).jobs = reclaim[i].jobs /\ Waited(i).job = reclaim[i].job
         /\ Waited(i).owed = reclaim[i].owed
         /\ reclaim[i].at = "refill" =>
              /\ Waited(i).at = "rest" /\ Waited(i).sent.what = "token"
              /\ Waited(i).sent.wallet = Wallet(i) /\ Waited(i).sent.amount = reclaim[i].balance
<1>1. CASE reclaim[i].at = "refill"
  BY <1>1 DEF Waited, SendingTokens, Sending, Workers, Transfers, AtWork
<1>2. CASE reclaim[i].at # "refill"
  BY <1>2 DEF Waited, Workers, AtWork
<1>3. QED
  BY <1>1, <1>2

\* A debt that is forgiven asks nothing of the chain.
LEMMA Forgiven ==
  ASSUME NEW s \in Workers
  PROVE  LET r == [s EXCEPT !.owed = FALSE] IN
         /\ r \in Workers /\ r.at = s.at /\ r.jobs = s.jobs /\ r.job = s.job /\ r.sent = s.sent /\ ~r.owed
  BY DEF Workers

LEMMA WaitTooShortSettling ==
  ASSUME Settling, NEW i \in Reclaimers, WaitTooShort(i)
  PROVE  Settling'
<1> DEFINE s == reclaim[i]
           r == [Waited(i) EXCEPT !.owed = FALSE]
<1>1. /\ s \in Workers /\ GoodWorker(s) /\ s.sent # NoTransfer /\ AtWork(s) /\ Wallet(i) \in ReclaimWallets
      /\ s.sent \in Transfers
  BY InHand DEF WaitTooShort, GoodWorker, Workers
<1>2. GoodWorker(r)
  <2>1. r \in Workers /\ r.jobs = s.jobs /\ r.job = s.job /\ ~r.owed /\ AtWork(r)
    BY <1>1, WaitedFields, Forgiven DEF AtWork
  <2> HIDE DEF r
  <2>2. QED
    BY <1>1, <2>1 DEF GoodWorker
<1>3. late' \subseteq Transfers /\ mishaps' \in Nat
  BY <1>1 DEF WaitTooShort, Mishap, Settling, Chain
<1>4. reclaim' = [reclaim EXCEPT ![i] = r] /\ UNCHANGED <<jobVars, held, paid, trx>>
  BY DEF WaitTooShort
<1> HIDE DEF r, s
<1>5. QED
  BY <1>2, <1>3, <1>4, WorkerStep DEF jobVars

\* What a process knows of its wallet outlives a change of wallet w, unless it
\* is forgiven its debt.
LEMMA StaysGood ==
  ASSUME NEW p \in Reclaimers, NEW s, GoodWorker(s), RowsHaveWallets, NEW w \in ReclaimWallets,
         NEW decided \in BOOLEAN, NEW takers, UNCHANGED <<row, rowOf>>,
         held \in [ReclaimWallets -> Nat], trx \in [ReclaimWallets -> Nat],
         held' \in [ReclaimWallets -> Nat], trx' \in [ReclaimWallets -> Nat],
         \A v \in ReclaimWallets \ {w} : held'[v] = held[v] /\ trx'[v] = trx[v],
         decided \/ (held'[w] >= held[w] /\ (takers \subseteq {p} => trx'[w] >= trx[w]))
  PROVE  \A r : r = Settled(s, p, w, decided, takers) => GoodWorker(r)'
<1>1. s \in Workers
  BY DEF GoodWorker
<1>2. CASE s.owed /\ rowOf[s.job] = w /\ (decided \/ ~(takers \subseteq {p}))
  <2> DEFINE r == [s EXCEPT !.owed = FALSE]
  <2>1. Settled(s, p, w, decided, takers) = r
    BY <1>2 DEF Settled
  <2>2. r \in Workers /\ r.at = s.at /\ r.jobs = s.jobs /\ r.job = s.job /\ r.sent = s.sent /\ ~r.owed
    BY <1>1, Forgiven
  <2> HIDE DEF r
  <2>3. \A q : q = r => GoodWorker(q)'
    BY <2>2 DEF GoodWorker, AtWork
  <2>4. QED
    BY <2>1, <2>3
<1>3. CASE ~(s.owed /\ rowOf[s.job] = w /\ (decided \/ ~(takers \subseteq {p})))
  <2>1. Settled(s, p, w, decided, takers) = s
    BY <1>3 DEF Settled
  <2>2. s.owed => Owing(s)'
    <3> SUFFICES ASSUME s.owed PROVE Owing(s)'
      OBVIOUS
    <3> DEFINE v == rowOf[s.job]
    <3>1. Owing(s) /\ v \in ReclaimWallets /\ v' = v
      BY DEF GoodWorker, Owing, RowsHaveWallets
    <3>2. held'[v] >= held[v] /\ trx'[v] >= trx[v]
      BY <1>3, <3>1
    <3>3. /\ held[v] \in Nat /\ held'[v] \in Nat /\ trx[v] \in Nat /\ trx'[v] \in Nat
          /\ s.balance \in Nat /\ (s.sent.what = "token" => s.sent.amount \in Nat)
      BY <1>1, <3>1 DEF Workers, Transfers, NoTransfer
    <3>4. QED
      BY <3>1, <3>2, <3>3, ReclaimAssumption DEF Owing, AtWork
  <2>3. GoodWorker(s)'
    BY <2>2 DEF GoodWorker
  <2>4. QED
    BY <2>1, <2>3
<1>4. QED
  BY <1>2, <1>3

\* A new workforce is one whose records are good.
LEMMA NewWorkforce ==
  ASSUME reclaim' = [p \in Reclaimers |-> reclaim'[p]],
         \A p \in Reclaimers : \A r : r = reclaim'[p] => GoodWorker(r)'
  PROVE  Workforce'
<1>1. ASSUME NEW p \in Reclaimers PROVE GoodWorker(reclaim[p])' /\ reclaim'[p] \in Workers
  <2>1. PICK r : r = reclaim'[p]
    OBVIOUS
  <2>2. GoodWorker(r)'
    BY <2>1
  <2>3. QED
    BY <2>1, <2>2 DEF GoodWorker, Owing, Workers
<1>2. reclaim' \in [Reclaimers -> Workers]
  BY <1>1
<1>3. QED
  BY <1>1, <1>2 DEF Workforce

\* Wallet w changes, and those who are owed by it are told.
LEMMA ChainStep ==
  ASSUME Settling, NEW w \in ReclaimWallets, NEW decided \in BOOLEAN, NEW takers,
         UNCHANGED jobVars, Chain',
         \A v \in ReclaimWallets \ {w} : held'[v] = held[v] /\ trx'[v] = trx[v],
         \A p \in Reclaimers :
           decided \/ (held'[w] >= held[w] /\ (takers \subseteq {p} => trx'[w] >= trx[w])),
         reclaim' = [p \in Reclaimers |-> Settled(reclaim[p], p, w, decided, takers)]
  PROVE  Settling'
<1>1. Rows'
  BY DEF Settling, Rows, jobVars, RowsHaveWallets, ChosenIsFresh, OneRowPerAuthor
<1>2. Workforce'
  <2>1. ASSUME NEW p \in Reclaimers, NEW r, r = reclaim'[p] PROVE GoodWorker(r)'
    <3>1. PICK s : s = reclaim[p]
      OBVIOUS
    <3>2. GoodWorker(s) /\ r = Settled(s, p, w, decided, takers)
      BY <2>1, <3>1 DEF Settling, Workforce
    <3>3. QED
      BY <3>2, StaysGood DEF Settling, Rows, Chain, jobVars
  <2>2. QED
    BY <2>1, NewWorkforce
<1>3. QED
  BY <1>1, <1>2 DEF Settling

LEMMA PayWalletSettling ==
  ASSUME Settling, NEW w \in ReclaimWallets, PayWallet(w)
  PROVE  Settling'
<1>1. /\ Chain' /\ UNCHANGED <<jobVars, reclaim, trx>> /\ held'[w] >= held[w]
      /\ \A v \in ReclaimWallets \ {w} : held'[v] = held[v]
  BY DEF PayWallet, Settling, Chain
<1>2. \A p \in Reclaimers : Settled(reclaim[p], p, w, FALSE, {}) = reclaim[p]
  BY DEF Settled
<1>3. reclaim' = [p \in Reclaimers |-> Settled(reclaim[p], p, w, FALSE, {})]
  BY <1>1, <1>2 DEF Settling, Workforce
<1>4. trx'[w] >= trx[w] /\ \A v \in ReclaimWallets : trx'[v] = trx[v]
  BY <1>1 DEF Settling, Chain
<1>5. QED
  BY <1>1, <1>3, <1>4, ChainStep

LEMMA SweepSettling ==
  ASSUME Settling, NEW w \in ReclaimWallets, SweepAlso(w) \/ SweepReverted(w)
  PROVE  Settling'
<1>1. CASE SweepAlso(w)
  <2>1. Chain' /\ \A v \in ReclaimWallets \ {w} : held'[v] = held[v] /\ trx'[v] = trx[v]
    BY <1>1, ReclaimAssumption DEF SweepAlso, Settling, Chain
  <2>2. /\ reclaim' = [p \in Reclaimers |-> Settled(reclaim[p], p, w, TRUE, {})]
        /\ UNCHANGED jobVars
    BY <1>1 DEF SweepAlso
  <2>3. QED
    BY <2>1, <2>2, ChainStep
<1>2. CASE SweepReverted(w)
  <2>1. /\ Chain' /\ \A v \in ReclaimWallets \ {w} : held'[v] = held[v] /\ trx'[v] = trx[v]
        /\ held'[w] >= held[w]
    BY <1>2, ReclaimAssumption DEF SweepReverted, Mishap, Settling, Chain
  <2>2. /\ reclaim' = [p \in Reclaimers |-> Settled(reclaim[p], p, w, FALSE, {"nobody"})]
        /\ UNCHANGED jobVars
    BY <1>2 DEF SweepReverted
  <2> DEFINE takers == {"nobody"}
  <2>3. \A p \in Reclaimers : ~(takers \subseteq {p})
    BY ReclaimAssumption
  <2> HIDE DEF takers
  <2>4. reclaim' = [p \in Reclaimers |-> Settled(reclaim[p], p, w, FALSE, takers)]
    BY <2>2 DEF takers
  <2>5. \A p \in Reclaimers :
          FALSE \/ (held'[w] >= held[w] /\ (takers \subseteq {p} => trx'[w] >= trx[w]))
    BY <2>1, <2>3
  <2>6. QED
    BY <2>1, <2>2, <2>4, <2>5, ChainStep
<1>3. QED
  BY <1>1, <1>2

\* What the execution of a transfer does to its wallet.
Covers(t) == trx[t.wallet] >= FeeUnits
Moves(t, reverts) == t.what = "token" /\ Covers(t) /\ ~reverts /\ held[t.wallet] >= t.amount
Takers(t, by) == IF trx'[t.wallet] < trx[t.wallet] THEN by ELSE {}

LEMMA EffectOnWallet ==
  ASSUME Settling, NEW t \in Transfers, NEW by, NEW reverts \in BOOLEAN, Effect(t, by, reverts)
  PROVE  /\ held' \in [ReclaimWallets -> Nat] /\ trx' \in [ReclaimWallets -> Nat]
         /\ \A v \in ReclaimWallets \ {t.wallet} : held'[v] = held[v] /\ trx'[v] = trx[v]
         /\ Moves(t, reverts) \/ held'[t.wallet] = held[t.wallet]
         /\ t.what = "refill" => trx'[t.wallet] = trx[t.wallet] + t.amount
         /\ Moves(t, reverts) \in BOOLEAN
<1>1. t.wallet \in ReclaimWallets /\ t.amount \in Nat /\ t.what \in {"token", "refill", "rest"}
  BY DEF Transfers
<1>2. held \in [ReclaimWallets -> Nat] /\ trx \in [ReclaimWallets -> Nat] /\ FeeUnits = 1
  BY ReclaimAssumption DEF Settling, Chain
<1>3. held' = IF Moves(t, reverts) THEN [held EXCEPT ![t.wallet] = @ - t.amount] ELSE held
  BY DEF Effect, Moves, Covers
<1>4. held' \in [ReclaimWallets -> Nat] /\ \A v \in ReclaimWallets \ {t.wallet} : held'[v] = held[v]
  BY <1>1, <1>2, <1>3 DEF Moves
<1>5. CASE t.what = "refill"
  <2>1. trx' = [trx EXCEPT ![t.wallet] = @ + t.amount]
    BY <1>5 DEF Effect
  <2>2. QED
    BY <1>1, <1>2, <1>3, <1>4, <2>1 DEF Moves
<1>6. CASE t.what = "token"
  <2>1. trx' = IF Covers(t) THEN [trx EXCEPT ![t.wallet] = @ - FeeUnits] ELSE trx
    BY <1>6 DEF Effect, Covers
  <2>2. QED
    BY <1>1, <1>2, <1>3, <1>4, <1>6, <2>1 DEF Moves, Covers
<1>7. CASE t.what = "rest"
  <2>1. trx' = IF trx[t.wallet] >= t.amount THEN [trx EXCEPT ![t.wallet] = @ - t.amount] ELSE trx
    BY <1>7 DEF Effect
  <2>2. QED
    BY <1>1, <1>2, <1>3, <1>4, <1>7, <2>1 DEF Moves
<1>8. QED
  BY <1>1, <1>5, <1>6, <1>7

LEMMA EffectOnWorkers ==
  ASSUME NEW t, NEW by, NEW reverts \in BOOLEAN, Effect(t, by, reverts)
  PROVE  /\ reclaim' = [p \in Reclaimers |->
              Settled(IF by = {p} THEN Waited(p) ELSE reclaim[p], p, t.wallet, Moves(t, reverts) \/ reverts, Takers(t, by))]
         /\ UNCHANGED <<paid, jobVars>>
  BY DEF Effect, Moves, Covers, Takers

\* A transfer that came late is nobody's.
LEMMA ExecutedLateSettling ==
  ASSUME Settling, NEW t \in late, ExecutedLate(t)
  PROVE  Settling'
<1> DEFINE by == {"nobody"}
<1>0. PICK reverts \in BOOLEAN : Effect(t, by, reverts)
  BY DEF ExecutedLate
<1>1. t \in Transfers /\ Effect(t, by, reverts) /\ late' \subseteq Transfers /\ mishaps' = mishaps
  BY <1>0 DEF ExecutedLate, Settling, Chain
<1>2. t.wallet \in ReclaimWallets /\ \A p \in Reclaimers : by # {p}
  BY <1>1, ReclaimAssumption DEF Transfers
<1>3. /\ Chain' /\ \A v \in ReclaimWallets \ {t.wallet} : held'[v] = held[v] /\ trx'[v] = trx[v]
      /\ Moves(t, reverts) \in BOOLEAN /\ (Moves(t, reverts) \/ held'[t.wallet] = held[t.wallet])
  BY <1>1, EffectOnWallet, EffectOnWorkers DEF Settling, Chain
<1>4. UNCHANGED jobVars /\ \A p \in Reclaimers : ~(by \subseteq {p})
  BY <1>1, EffectOnWorkers, ReclaimAssumption
<1>5. reclaim' = [p \in Reclaimers |-> Settled(reclaim[p], p, t.wallet, Moves(t, reverts) \/ reverts, Takers(t, by))]
  BY <1>1, <1>2, EffectOnWorkers
<1>6. \A p \in Reclaimers : \/ Moves(t, reverts)
                            \/ /\ held'[t.wallet] >= held[t.wallet]
                               /\ Takers(t, by) \subseteq {p} => trx'[t.wallet] >= trx[t.wallet]
  <2>1. /\ held[t.wallet] \in Nat /\ held'[t.wallet] \in Nat
        /\ trx[t.wallet] \in Nat /\ trx'[t.wallet] \in Nat
    BY <1>2, <1>3 DEF Settling, Chain
  <2> HIDE DEF by
  <2>2. QED
    BY <1>3, <1>4, <2>1 DEF Takers
<1>7. Rows'
  BY <1>4 DEF Settling, Rows, jobVars, RowsHaveWallets, ChosenIsFresh, OneRowPerAuthor
<1>8. Workforce'
  <2>1. ASSUME NEW p \in Reclaimers, NEW r, r = reclaim'[p] PROVE GoodWorker(r)'
    <3>1. PICK s, takers, decided : s = reclaim[p] /\ takers = Takers(t, by) /\ decided = (Moves(t, reverts) \/ reverts)
      OBVIOUS
    <3>2. GoodWorker(s) /\ r = Settled(s, p, t.wallet, decided, takers) /\ decided \in BOOLEAN
      BY <1>3, <1>5, <2>1, <3>1 DEF Settling, Workforce
    <3>3. decided \/ (held'[t.wallet] >= held[t.wallet] /\ (takers \subseteq {p} => trx'[t.wallet] >= trx[t.wallet]))
      BY <1>6, <3>1
    <3>4. QED
      BY <1>2, <1>3, <1>4, <3>2, <3>3, StaysGood DEF Settling, Rows, Chain, jobVars
  <2>2. reclaim' = [p \in Reclaimers |-> reclaim'[p]]
    BY <1>5
  <2>3. QED
    BY <2>1, <2>2, NewWorkforce
<1>9. QED
  BY <1>3, <1>7, <1>8 DEF Settling

\* In time: the refill brings the fee of the tokens, and the tokens find theirs, or
\* their transfer reverts.
LEMMA InTimeSettling ==
  ASSUME Settling, NEW i \in Reclaimers, reclaim[i].sent # NoTransfer, NEW reverts \in BOOLEAN,
         reverts => reclaim[i].sent.what = "token",
         Effect(reclaim[i].sent, {i}, reverts), late' = late, mishaps' \in Nat
  PROVE  Settling'
<1>1. PICK t : t = reclaim[i].sent
  OBVIOUS
<1> DEFINE w == t.wallet
<1>2. /\ reclaim[i] \in Workers /\ GoodWorker(reclaim[i]) /\ t # NoTransfer /\ t \in Transfers
      /\ AtWork(reclaim[i]) /\ Wallet(i) \in ReclaimWallets
  BY <1>1, InHand DEF GoodWorker, Workers
<1>3. Effect(t, {i}, reverts) /\ late' = late /\ mishaps' \in Nat /\ w \in ReclaimWallets /\ t.amount \in Nat
  BY <1>1, <1>2 DEF Transfers
<1>4. /\ Chain' /\ \A v \in ReclaimWallets \ {w} : held'[v] = held[v] /\ trx'[v] = trx[v]
      /\ Moves(t, reverts) \in BOOLEAN /\ (Moves(t, reverts) \/ held'[w] = held[w])
      /\ t.what = "refill" => trx'[w] = trx[w] + t.amount
  BY <1>2, <1>3, EffectOnWallet, EffectOnWorkers DEF Settling, Chain
<1>5. UNCHANGED jobVars
  BY <1>3, EffectOnWorkers
<1>6. PICK decided, takers : decided = (Moves(t, reverts) \/ reverts) /\ takers = Takers(t, {i})
  OBVIOUS
<1>7. reclaim' = [p \in Reclaimers |->
        Settled(IF {i} = {p} THEN Waited(p) ELSE reclaim[p], p, w, decided, takers)]
  BY <1>3, <1>6, EffectOnWorkers
<1>8. /\ held[w] \in Nat /\ held'[w] \in Nat /\ trx[w] \in Nat /\ trx'[w] \in Nat
  BY <1>3, <1>4 DEF Settling, Chain
<1>9. ASSUME NEW p \in Reclaimers \ {i}, NEW r, r = reclaim'[p] PROVE GoodWorker(r)'
  <2>1. PICK s : s = reclaim[p]
    OBVIOUS
  <2>2. GoodWorker(s) /\ r = Settled(s, p, w, decided, takers) /\ decided \in BOOLEAN
    BY <1>4, <1>6, <1>7, <1>9, <2>1 DEF Settling, Workforce
  <2>3. decided \/ (held'[w] >= held[w] /\ (takers \subseteq {p} => trx'[w] >= trx[w]))
    BY <1>4, <1>6, <1>8 DEF Takers
  <2>4. QED
    BY <1>3, <1>4, <1>5, <2>2, <2>3, StaysGood DEF Settling, Rows, Chain, jobVars
<1>10. ASSUME NEW r, r = reclaim'[i] PROVE GoodWorker(r)'
  <2>1. PICK s : s = Waited(i)
    OBVIOUS
  <2>2. /\ s \in Workers /\ AtWork(s)
        /\ s.jobs = reclaim[i].jobs /\ s.job = reclaim[i].job /\ s.owed = reclaim[i].owed
        /\ reclaim[i].at = "refill" =>
             /\ s.at = "rest" /\ s.sent.what = "token"
             /\ s.sent.wallet = Wallet(i) /\ s.sent.amount = reclaim[i].balance
    BY <1>2, <2>1, WaitedFields
  <2>3. r = Settled(s, i, w, decided, takers)
    BY <1>7, <1>10, <2>1
  <2>4. takers \subseteq {i}
    BY <1>6 DEF Takers
  <2>5. /\ \A j \in s.jobs : row'[j] # "none"
        /\ s.job \in ReclaimJobs /\ row'[s.job] # "none" /\ rowOf'[s.job] = Wallet(i)
    BY <1>2, <1>5, <2>2 DEF GoodWorker, jobVars, Wallet
  <2>6. CASE s.owed
    <3>1. Owing(reclaim[i]) /\ t.wallet = Wallet(i)
      BY <1>1, <1>2, <2>2, <2>6 DEF GoodWorker, Owing, Wallet
    <3>2. CASE reclaim[i].at = "refill"
      <4>1. t.what = "refill" /\ t.amount = RefillUnits /\ held[w] >= reclaim[i].balance
        BY <1>1, <3>1, <3>2 DEF Owing, Wallet
      <4>2. ~decided /\ held'[w] = held[w] /\ trx'[w] = trx[w] + RefillUnits
        BY <1>1, <1>4, <1>6, <4>1 DEF Moves
      <4>3. trx'[w] >= FeeUnits
        BY <1>8, <4>2, ReclaimAssumption
      <4>4. r = s
        BY <2>3, <2>4, <4>2 DEF Settled
      <4>5. s.at = "rest" /\ s.sent.what = "token" /\ s.sent.wallet = w /\ s.sent.amount = reclaim[i].balance
        BY <2>2, <3>1, <3>2
      <4>6. Owing(s)'
        BY <2>2, <2>5, <3>1, <4>1, <4>2, <4>3, <4>5 DEF Owing
      <4>7. QED
        BY <2>2, <2>5, <4>4, <4>6 DEF GoodWorker
    <3>3. CASE reclaim[i].at # "refill"
      <4>1. decided
        BY <1>1, <1>2, <1>6, <3>1, <3>3 DEF Owing, Moves, Covers, Wallet
      <4>2. r = [s EXCEPT !.owed = FALSE]
        BY <2>2, <2>3, <2>6, <3>1, <4>1 DEF Settled, Wallet
      <4>3. r \in Workers /\ r.at = s.at /\ r.jobs = s.jobs /\ r.job = s.job /\ ~r.owed
        BY <2>2, <4>2, Forgiven
      <4>4. QED
        BY <2>2, <2>5, <4>3 DEF GoodWorker, AtWork
    <3>4. QED
      BY <3>2, <3>3
  <2>7. CASE ~s.owed
    <3>1. r = s
      BY <2>3, <2>7 DEF Settled
    <3>2. QED
      BY <2>2, <2>5, <2>7, <3>1 DEF GoodWorker
  <2>8. QED
    BY <2>6, <2>7
<1>11. Rows'
  BY <1>5 DEF Settling, Rows, jobVars, RowsHaveWallets, ChosenIsFresh, OneRowPerAuthor
<1>12. Workforce'
  <2>1. reclaim' = [p \in Reclaimers |-> reclaim'[p]]
    BY <1>7
  <2>2. QED
    BY <1>9, <1>10, <2>1, NewWorkforce
<1>13. QED
  BY <1>4, <1>11, <1>12 DEF Settling

LEMMA ExecutedSettling ==
  ASSUME Settling, NEW i \in Reclaimers, Executed(i) \/ OutOfEnergy(i)
  PROVE  Settling'
<1>1. CASE Executed(i)
  BY <1>1, InTimeSettling DEF Executed, Settling, Chain
<1>2. CASE OutOfEnergy(i)
  <2>1. /\ reclaim[i].sent # NoTransfer /\ reclaim[i].sent.what = "token"
        /\ Effect(reclaim[i].sent, {i}, TRUE) /\ late' = late
    BY <1>2 DEF OutOfEnergy, MayRevert
  <2>2. mishaps' \in Nat
    BY <1>2 DEF OutOfEnergy, Mishap, Settling, Chain
  <2>3. QED
    BY <2>1, <2>2, InTimeSettling
<1>3. QED
  BY <1>1, <1>2

\* The requests of an administrator: what they have selected was not queued then, and
\* is queued by nobody else under this name.
LEMMA SelectSettling ==
  ASSUME Settling, NEW a \in Administrators, NEW ws \in SUBSET ReclaimWallets, SelectWallets(a, ws)
  PROVE  Settling'
<1>1. /\ chosen' = [chosen EXCEPT ![a] = Fresh(ws)]
      /\ UNCHANGED <<row, rowOf, author, chainVars, reclaim, mishaps>>
  BY DEF SelectWallets
<1>2. /\ Fresh(ws) \in SUBSET ReclaimWallets
      /\ \A j \in ReclaimJobs : row[j] = "PENDING" => rowOf[j] \notin Fresh(ws)
  BY DEF Fresh
<1>3. Rows'
  BY <1>1, <1>2 DEF Settling, Rows, RowsHaveWallets, ChosenIsFresh, OneRowPerAuthor
<1>4. Chain' /\ Workforce'
  BY <1>1 DEF Settling, Chain, Workforce, GoodWorker, Owing, chainVars
<1>5. QED
  BY <1>3, <1>4 DEF Settling

LEMMA InsertSettling ==
  ASSUME Settling, NEW a \in Administrators, InsertJobs(a)
  PROVE  Settling'
<1>1. PICK new \in SUBSET {j \in ReclaimJobs : row[j] = "none"} : \E f \in [new -> chosen[a]] :
        /\ \A j, k \in new : f[j] = f[k] => j = k
        /\ row' = [j \in ReclaimJobs |-> IF j \in new THEN "PENDING" ELSE row[j]]
        /\ rowOf' = [j \in ReclaimJobs |-> IF j \in new THEN f[j] ELSE rowOf[j]]
        /\ author' = [j \in ReclaimJobs |-> IF j \in new THEN a ELSE author[j]]
        /\ chosen' = [chosen EXCEPT ![a] = {}]
        /\ UNCHANGED <<chainVars, reclaim, mishaps>>
  BY DEF InsertJobs
<1>2. PICK f \in [new -> chosen[a]] :
        /\ \A j, k \in new : f[j] = f[k] => j = k
        /\ row' = [j \in ReclaimJobs |-> IF j \in new THEN "PENDING" ELSE row[j]]
        /\ rowOf' = [j \in ReclaimJobs |-> IF j \in new THEN f[j] ELSE rowOf[j]]
        /\ author' = [j \in ReclaimJobs |-> IF j \in new THEN a ELSE author[j]]
        /\ chosen' = [chosen EXCEPT ![a] = {}]
        /\ UNCHANGED <<chainVars, reclaim, mishaps>>
  BY <1>1
<1>3. /\ \A j \in new : row'[j] = "PENDING" /\ rowOf'[j] = f[j] /\ author'[j] = a
                     /\ f[j] \in chosen[a] /\ f[j] \in ReclaimWallets
      /\ \A j \in ReclaimJobs \ new :
           row'[j] = row[j] /\ rowOf'[j] = rowOf[j] /\ author'[j] = author[j]
      /\ \A j \in new : row[j] = "none"
  BY <1>2 DEF Settling, Rows
<1>4. /\ row' \in [ReclaimJobs -> {"none", "PENDING", "FAILED", "deleted"}]
      /\ rowOf' \in [ReclaimJobs -> ReclaimWallets \cup {"none"}]
      /\ author' \in [ReclaimJobs -> Administrators \cup {"none"}]
      /\ chosen' \in [Administrators -> SUBSET ReclaimWallets]
  BY <1>2, <1>3 DEF Settling, Rows
<1>5. RowsHaveWallets'
  BY <1>3 DEF Settling, Rows, RowsHaveWallets
<1>6. ChosenIsFresh'
  <2>1. chosen'[a] = {} /\ \A b \in Administrators \ {a} : chosen'[b] = chosen[b]
    BY <1>2 DEF Settling, Rows
  <2>2. QED
    BY <1>3, <2>1 DEF Settling, Rows, ChosenIsFresh
<1>7. OneRowPerAuthor'
  <2> SUFFICES ASSUME NEW j \in ReclaimJobs, NEW k \in ReclaimJobs,
                      row'[j] = "PENDING", row'[k] = "PENDING", rowOf'[j] = rowOf'[k],
                      author'[j] = author'[k]
               PROVE  j = k
    BY DEF OneRowPerAuthor
  <2>1. CASE j \in new /\ k \in new
    BY <1>2, <1>3, <2>1
  <2>2. CASE j \notin new /\ k \notin new
    BY <1>3, <2>2 DEF Settling, Rows, OneRowPerAuthor
  <2>3. CASE j \in new /\ k \notin new
    BY <1>3, <2>3 DEF Settling, Rows, ChosenIsFresh
  <2>4. CASE j \notin new /\ k \in new
    BY <1>3, <2>4 DEF Settling, Rows, ChosenIsFresh
  <2>5. QED
    BY <2>1, <2>2, <2>3, <2>4
<1>8. ASSUME NEW p \in Reclaimers, NEW r, r = reclaim'[p] PROVE GoodWorker(r)'
  <2>1. GoodWorker(r)
    BY <1>2, <1>8 DEF Settling, Workforce
  <2>2. r.owed => Owing(r)'
    BY <1>2, <1>3, <2>1 DEF GoodWorker, Owing, chainVars
  <2>3. QED
    BY <1>3, <2>1, <2>2 DEF GoodWorker, Workers
<1>9. Workforce'
  <2>1. reclaim' = [p \in Reclaimers |-> reclaim'[p]]
    BY <1>2 DEF Settling, Workforce
  <2>2. QED
    BY <1>8, <2>1, NewWorkforce
<1>10. Chain'
  BY <1>2 DEF Settling, Chain, chainVars
<1>11. QED
  BY <1>4, <1>5, <1>6, <1>7, <1>9, <1>10 DEF Settling, Rows

LEMMA SettlingStep == Settling /\ [ReclaimNext]_reclaimVars => Settling'
<1> SUFFICES ASSUME Settling, [ReclaimNext]_reclaimVars PROVE Settling'
  OBVIOUS
<1>1. ASSUME NEW a \in Administrators,
             InsertJobs(a) \/ \E ws \in SUBSET ReclaimWallets : SelectWallets(a, ws)
      PROVE  Settling'
  BY <1>1, InsertSettling, SelectSettling
<1>2. ASSUME NEW i \in Reclaimers, ReclaimWorker(i) PROVE Settling'
  <2>1. CASE FetchJobs(i) \/ ReadFee(i) \/ ReadRest(i) \/ SendRest(i) \/ DeleteJob(i)
    BY <2>1, FetchJobsSettling, ReadFeeSettling, ReadRestSettling, SendRestSettling, DeleteJobSettling
  <2>2. CASE \E j \in ReclaimJobs : ReadTokens(i, j)
    BY <2>2, ReadTokensSettling
  <2>3. CASE (\E j \in ReclaimJobs : KeyFails(i, j)) \/ RestRefused(i) \/ DeleteFails(i)
    BY <2>3, ErrorSettling
  <2>4. QED
    BY <1>2, <2>1, <2>2, <2>3 DEF ReclaimWorker
<1>3. ASSUME NEW i \in Reclaimers,
             \/ CycleEnds(i) \/ \E taken \in BOOLEAN : CallFails(i, taken)
             \/ Executed(i) \/ OutOfEnergy(i) \/ WaitTooShort(i)
      PROVE  Settling'
  BY <1>3, CycleEndsSettling, ErrorSettling, ExecutedSettling, WaitTooShortSettling
<1>4. ASSUME NEW t \in late, ExecutedLate(t) PROVE Settling'
  BY <1>4, ExecutedLateSettling
<1>5. ASSUME NEW w \in ReclaimWallets, PayWallet(w) \/ SweepAlso(w) \/ SweepReverted(w)
      PROVE  Settling'
  BY <1>5, PayWalletSettling, SweepSettling
<1>6. CASE UNCHANGED reclaimVars
  BY <1>6 DEF reclaimVars, Settling, Rows, RowsHaveWallets, ChosenIsFresh, OneRowPerAuthor, Chain,
     Workforce, GoodWorker, Owing
<1>7. QED
  BY <1>1, <1>2, <1>3, <1>4, <1>5, <1>6 DEF ReclaimNext

LEMMA SettlingAlways == ReclaimSpec => []Settling
  BY SettlingInit, SettlingStep, PTL DEF ReclaimSpec

\* Rows, balances and what the processes have in hand have their types.
THEOREM ReclaimTypeCorrect == ReclaimSpec => []ReclaimTypeOK
  BY SettlingAlways, SettlingTypes, PTL

\* One administrator never has two PENDING rows of a wallet (createReclaimJobsAll).
THEOREM AuthorTheorem == ReclaimSpec => []OneRowPerAuthor
<1>1. Settling => OneRowPerAuthor
  BY DEF Settling, Rows
<1>2. QED
  BY <1>1, SettlingAlways, PTL

\* A job goes only after the transfer of the tokens it found has moved them or has
\* reverted, unless a transfer took longer than the wait or somebody else spent the
\* TRX: no transfer is sent without its fee (ReclaimWorker.process).
THEOREM GivenUpTheorem == ReclaimSpec => []NotGivenUp
<1>1. Settling => NotGivenUp
  BY InHand DEF Settling, Workforce, GoodWorker, Owing, NotGivenUp, At
<1>2. QED
  BY <1>1, SettlingAlways, PTL
-----------------------------------------------------------------------------
\* How a row may change, and its wallet never does: an error marks it, a worker that has
\* come to its end deletes it, and nothing makes it PENDING again.
RowWays ==
  {<<"none", "PENDING">>, <<"PENDING", "FAILED">>,
   <<"PENDING", "deleted">>, <<"FAILED", "deleted">>}

ByTheWays ==
  \A j \in ReclaimJobs :
    /\ row'[j] # row[j] => <<row[j], row'[j]>> \in RowWays
    /\ row[j] # "none" => rowOf'[j] = rowOf[j]

\* A row goes in the hands of a process whose transfer of the tokens it found has been
\* decided: it has moved them, or reverted, or was given up as owed says.
GoesWhenDone ==
  \A j \in ReclaimJobs :
    row[j] # "deleted" /\ row'[j] = "deleted" =>
      \E i \in Reclaimers : At(i, "delete") /\ reclaim[i].job = j /\ ~reclaim[i].owed

\* The catch block marks what is there and touches nothing else.
LEMMA CatchWays ==
  ASSUME Settling, NEW i \in Reclaimers, NEW j \in ReclaimJobs, NEW jobs, Catch(i, j, jobs)
  PROVE  ByTheWays /\ GoesWhenDone
<1>1. UNCHANGED rowOf /\ row' = IF Live(j) THEN [row EXCEPT ![j] = "FAILED"] ELSE row
  BY DEF Catch
<1>2. \A k \in ReclaimJobs : row'[k] = row[k] \/ (k = j /\ Live(j) /\ row'[k] = "FAILED")
  BY <1>1 DEF Settling, Rows
<1>3. QED
  BY <1>1, <1>2 DEF ByTheWays, GoesWhenDone, RowWays, Live

\* Only the catch block, the deletion and the INSERT write rows.
LEMMA WaysStep ==
  ASSUME Settling, ReclaimNext
  PROVE  ByTheWays /\ GoesWhenDone
<1>1. CASE UNCHANGED <<row, rowOf>>
  BY <1>1 DEF ByTheWays, GoesWhenDone
<1>2. ASSUME NEW a \in Administrators, InsertJobs(a) PROVE ByTheWays /\ GoesWhenDone
  <2>1. PICK new \in SUBSET {j \in ReclaimJobs : row[j] = "none"} :
          \E f \in [new -> chosen[a]] :
            /\ row' = [j \in ReclaimJobs |-> IF j \in new THEN "PENDING" ELSE row[j]]
            /\ rowOf' = [j \in ReclaimJobs |-> IF j \in new THEN f[j] ELSE rowOf[j]]
    BY <1>2 DEF InsertJobs
  <2>2. \A j \in ReclaimJobs : j \in new \/ (row'[j] = row[j] /\ rowOf'[j] = rowOf[j])
    BY <2>1
  <2>3. \A j \in new : row[j] = "none" /\ row'[j] = "PENDING"
    BY <2>1
  <2>4. QED
    BY <2>2, <2>3 DEF ByTheWays, GoesWhenDone, RowWays
<1>3. ASSUME NEW i \in Reclaimers, DeleteJob(i) PROVE ByTheWays /\ GoesWhenDone
  <2> DEFINE j == reclaim[i].job
  <2>1. At(i, "delete") /\ Live(j) /\ row' = [row EXCEPT ![j] = "deleted"] /\ UNCHANGED rowOf
    BY <1>3 DEF DeleteJob
  <2>2. ~reclaim[i].owed
    BY <2>1, InHand DEF GoodWorker, Owing, At
  <2>3. \A k \in ReclaimJobs : row'[k] = row[k] \/ (k = j /\ row'[k] = "deleted")
    BY <2>1 DEF Settling, Rows
  <2> HIDE DEF j
  <2>4. ByTheWays
    BY <2>1, <2>3 DEF ByTheWays, RowWays, Live
  <2>5. GoesWhenDone
    BY <2>1, <2>2, <2>3 DEF GoesWhenDone, j
  <2>6. QED
    BY <2>4, <2>5
<1>4. ASSUME NEW i \in Reclaimers,
             \/ \E j \in ReclaimJobs : KeyFails(i, j)
             \/ RestRefused(i) \/ DeleteFails(i) \/ \E taken \in BOOLEAN : CallFails(i, taken)
      PROVE  ByTheWays /\ GoesWhenDone
  <2>1. PICK j \in ReclaimJobs, jobs \in SUBSET reclaim[i].jobs : Catch(i, j, jobs)
    <3>1. CASE \E j \in ReclaimJobs : KeyFails(i, j)
      BY <3>1 DEF KeyFails
    <3>2. CASE RestRefused(i) \/ DeleteFails(i) \/ \E taken \in BOOLEAN : CallFails(i, taken)
      <4>1. Catch(i, reclaim[i].job, reclaim[i].jobs) /\ AtWork(reclaim[i])
        BY <3>2 DEF RestRefused, DeleteFails, CallFails, At, AtWork
      <4>2. QED
        BY <4>1, InHand
    <3>3. QED
      BY <1>4, <3>1, <3>2
  <2>2. QED
    BY <2>1, CatchWays
<1>5. QED
  BY <1>1, <1>2, <1>3, <1>4
  DEF ReclaimNext, ReclaimWorker, SelectWallets, FetchJobs, ReadTokens, ReadFee, ReadRest, SendRest,
      CycleEnds, Executed, OutOfEnergy, WaitTooShort, ExecutedLate, Effect, PayWallet, SweepAlso, SweepReverted,
      jobVars

\* A row that is gone stays gone and a failed one is never queued again by itself; each goes
\* by the hand of a process that is owed nothing, as owed is defined, whatever fails and
\* whoever else is at the same row (ReclaimWorker.process, createReclaimJobsAll).
THEOREM WaysTheorem == ReclaimSpec => [][ByTheWays /\ GoesWhenDone]_reclaimVars
<1>1. Settling /\ [ReclaimNext]_reclaimVars => [ByTheWays /\ GoesWhenDone]_reclaimVars
  BY WaysStep
<1>2. QED
  BY <1>1, SettlingAlways, PTL DEF ReclaimSpec
=============================================================================
