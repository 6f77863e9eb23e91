---------------------------- MODULE SweepProofs ----------------------------
(***************************************************************************)
(* Proofs about Sweep, for any number of deposits, wallets, processes and   *)
(* transactions and any failures.  Consistent is the inductive invariant:   *)
(* besides the properties themselves it says what a worker that is in the   *)
(* middle of a job knows about the row it is about to write.                *)
(***************************************************************************)
EXTENDS Sweep, TLAPS

\* A worker that has a job in hand knows whose it is.
HasDeposit == \A i \in Instances : pc[i] \in Holding => at[i] \in Deposits

\* The row a worker is about to write is about a transfer of its own.
AboutToLog ==
  /\ \A i \in Instances : pc[i] = "log" =>
       /\ hash[i] \in DOMAIN tx /\ hash[i] \notin DOMAIN sweepLog
       /\ tx[hash[i]].dep = at[i] /\ tx[hash[i]].amount = Sent(balance[i])
  /\ \A i, j \in Instances :
       i # j /\ pc[i] = "log" /\ pc[j] = "log" => hash[i] # hash[j]

\* The rows the confirm worker has in hand are decided for good.
DecidedRows ==
  \A i \in Instances : \A h \in cbatch[i] \cup ({dropping[i]} \ {None}) :
    h \in DOMAIN sweepLog /\ h \in DOMAIN tx /\ tx[h].final

FinalIsDecided == \A h \in DOMAIN tx : tx[h].final => tx[h].st \in {"ok", "failed"}

\* A worker finishes a job only after the outcome is on record.
FinishAfterRecord == \A i \in Instances : pc[i] = "finish" => Recorded(at[i])

Consistent ==
  /\ TypeOK
  /\ HasDeposit /\ AboutToLog /\ DecidedRows /\ FinalIsDecided
  /\ FinishAfterRecord
  /\ LedgerMatchesChain
  /\ NoJobDropped

\* No two processes have the same job in hand, the catch block included.
Exclusive ==
  \A i, j \in Instances :
    i # j /\ pc[i] \in Holding /\ pc[j] \in Holding => at[i] # at[j]

\* What makes PROCESSING a lock.
Locked ==
  /\ Exclusive
  /\ \A i \in Instances : pc[i] \in Holding =>
       job[at[i]] # "PENDING" /\ deposit[at[i]] = "CONFIRMED"
  /\ \A d \in Deposits : job[d] # "none" => deposit[d] = "CONFIRMED"

----------------------------------------------------------------------------
(* Consistent is inductive *)

\* transferToken never sends more than was read, and a unit less at most.
LEMMA SentIsClose ==
  ASSUME NEW b \in Nat
  PROVE  Sent(b) \in Nat /\ UpToDust(b, Sent(b))
<1>1. CASE b \in RoundsDown
  BY <1>1, SweepAssumption DEF Sent, UpToDust
<1>2. CASE b \notin RoundsDown
  BY <1>2 DEF Sent, UpToDust
<1>3. QED
  BY <1>1, <1>2

\* What the chain does to a transfer leaves it a transfer.
LEMMA TransferState ==
  ASSUME NEW S, NEW f \in [S -> Transfer], NEW h \in S,
         NEW st \in {"pool", "ok", "failed", "expired"}
  PROVE  [f EXCEPT ![h].st = st] \in [S -> Transfer]
<1>1. f[h] \in Transfer
  OBVIOUS
<1>2. [f[h] EXCEPT !.st = st] \in Transfer
  BY <1>1 DEF Transfer
<1>3. QED
  BY <1>2

\* The same of a transfer that becomes final.
LEMMA TransferFinal ==
  ASSUME NEW S, NEW f \in [S -> Transfer], NEW h \in S
  PROVE  [f EXCEPT ![h].final = TRUE] \in [S -> Transfer]
<1>1. f[h] \in Transfer
  OBVIOUS
<1>2. [f[h] EXCEPT !.final = TRUE] \in Transfer
  BY <1>1 DEF Transfer
<1>3. QED
  BY <1>2

\* A row whose status changes is still a row.
LEMMA RowStatus ==
  ASSUME NEW S, NEW f \in [S -> Row], NEW h \in S,
         NEW status \in {"BROADCASTED", "CONFIRMED", "FAILED"}
  PROVE  [f EXCEPT ![h].status = status] \in [S -> Row]
<1>1. f[h] \in Row
  OBVIOUS
<1>2. [f[h] EXCEPT !.status = status] \in Row
  BY <1>1 DEF Row
<1>3. QED
  BY <1>2

\* The base case of the inductive invariant.
LEMMA ConsistentInit == Init => Consistent
  BY SweepAssumption DEF Init, Consistent, TypeOK, Holding, HasDeposit, AboutToLog,
    DecidedRows, FinalIsDecided, FinishAfterRecord, LedgerMatchesChain, NoJobDropped

\* Every step of any worker, failure or the chain keeps it.
LEMMA ConsistentStep == Consistent /\ [Next]_vars => Consistent'
<1> USE SweepAssumption DEF Consistent, TypeOK, Holding, HasDeposit, AboutToLog,
      DecidedRows, FinalIsDecided, FinishAfterRecord, LedgerMatchesChain,
      NoJobDropped, Recorded, Row, Transfer,
      dbVars, workerVars, confirmVars, chainVars
<1> SUFFICES ASSUME Consistent, [Next]_vars PROVE Consistent'
  OBVIOUS
<1>1. ASSUME NEW d \in Deposits, Pay(d) PROVE Consistent'
  <2>1. TypeOK'
    BY <1>1 DEF Pay
  <2>2. QED
    BY <2>1, <1>1 DEF Pay
<1>2. ASSUME NEW d \in Deposits, QueueSweep(d) PROVE Consistent'
  BY <1>2 DEF QueueSweep
<1>3. ASSUME NEW i \in Instances, FetchJobs(i) PROVE Consistent'
  BY <1>3 DEF FetchJobs, Goto
<1>4. ASSUME NEW i \in Instances, NEW d \in Deposits, LockJob(i, d) PROVE Consistent'
  BY <1>4 DEF LockJob, Goto
<1>5. ASSUME NEW i \in Instances, NEW d \in Deposits, MissLock(i, d) PROVE Consistent'
  BY <1>5 DEF MissLock, LeaveJob
<1>6. ASSUME NEW i \in Instances, CheckTerminal(i) PROVE Consistent'
  <2>1. CASE Rows(at[i], {"CONFIRMED"}) # {}
    <3>1. PICK h \in DOMAIN sweepLog : sweepLog[h].dep = at[i]
      BY <2>1 DEF Rows
    <3>2. QED
      BY <2>1, <3>1, <1>6 DEF CheckTerminal, Goto
  <2>2. CASE <<at[i], "SKIPPED">> \in notes
    <3>1. /\ pc' = [pc EXCEPT ![i] = "finish"]
          /\ UNCHANGED <<dbVars, batch, at, balance, hash, confirmVars, chainVars, faults>>
      BY ONLY <2>2, <1>6 DEF CheckTerminal, Goto
    <3>2. Recorded(at[i])
      BY ONLY <2>2 DEF Recorded
    <3>3. FinishAfterRecord'
      BY ONLY <3>1, <3>2, TypeOK, FinishAfterRecord DEF TypeOK, FinishAfterRecord, Recorded, dbVars
    <3>4. at[i] \in Deposits
      BY <1>6 DEF CheckTerminal
    <3>5. QED
      BY <3>1, <3>3, <3>4
  <2>3. CASE ~(Rows(at[i], {"CONFIRMED"}) # {} \/ <<at[i], "SKIPPED">> \in notes)
    BY <2>3, <1>6 DEF CheckTerminal, Goto
  <2>4. QED
    BY <2>1, <2>2, <2>3
<1>7. ASSUME NEW i \in Instances, CheckBroadcast(i) PROVE Consistent'
  BY <1>7 DEF CheckBroadcast, Goto, Rows
<1>8. ASSUME NEW i \in Instances, ReadTrx(i) \/ ReadToken(i) PROVE Consistent'
  <2>1. CASE ReadTrx(i)
    BY <2>1 DEF ReadTrx, Goto
  <2>2. CASE ReadToken(i)
    BY <2>2 DEF ReadToken, Goto
  <2>3. QED
    BY <1>8, <2>1, <2>2
<1>9. ASSUME NEW i \in Instances, LogSkipped(i) PROVE Consistent'
  BY <1>9 DEF LogSkipped, Goto
<1>10. ASSUME NEW i \in Instances, SendRefill(i) PROVE Consistent'
  BY <1>10 DEF SendRefill, SendTrx, Goto
<1>11. ASSUME NEW i \in Instances, LogRefill(i) PROVE Consistent'
  BY <1>11 DEF LogRefill, Goto
<1>12. ASSUME NEW i \in Instances, NEW h \in TxHash, Broadcast(i, h) PROVE Consistent'
  <2>1. Sent(balance[i]) \in Nat
    BY SentIsClose
  <2>2. QED
    BY <2>1, <1>12 DEF Broadcast, SendToken, Put, Goto
<1>13. ASSUME NEW i \in Instances, LogBroadcast(i) PROVE Consistent'
  <2>1. UpToDust(balance[i], Sent(balance[i]))
    BY SentIsClose
  <2>2. QED
    BY <2>1, <1>13 DEF LogBroadcast, Put, Goto
<1>14. ASSUME NEW i \in Instances, FinishJob(i) PROVE Consistent'
  BY <1>14 DEF FinishJob, LeaveJob
<1>15. ASSUME NEW i \in Instances, ReleaseJob(i) PROVE Consistent'
  BY <1>15 DEF ReleaseJob, LeaveJob
<1>16. ASSUME NEW i \in Instances, FetchBroadcasts(i) PROVE Consistent'
  BY <1>16 DEF FetchBroadcasts, Candidates
<1>17. ASSUME NEW i \in Instances, NEW h \in TxHash, ConfirmSweep(i, h) PROVE Consistent'
  <2>1. h \in DOMAIN sweepLog
    BY <1>17 DEF ConfirmSweep
  <2>2. /\ Settle(h, "CONFIRMED")
        /\ UNCHANGED <<deposit, clock, notes, workerVars, chainVars, faults>>
    BY ONLY <1>17 DEF ConfirmSweep
  <2>3. DOMAIN sweepLog' = DOMAIN sweepLog /\ sweepLog' \in [DOMAIN sweepLog' -> Row]
    BY ONLY <2>1, <2>2, TypeOK, RowStatus DEF TypeOK, Settle
  <2>4. job' \in [Deposits -> {"none", "PENDING", "PROCESSING"}]
    BY <2>1, <1>17 DEF ConfirmSweep
  <2>5. TypeOK'
    BY <2>2, <2>3, <2>4, <1>17 DEF ConfirmSweep
  <2>6. HasDeposit' /\ AboutToLog' /\ DecidedRows' /\ FinalIsDecided'
    BY <2>1, <1>17 DEF ConfirmSweep, Settle
  <2>7. FinishAfterRecord' /\ LedgerMatchesChain' /\ NoJobDropped'
    BY <2>1, <1>17 DEF ConfirmSweep, Settle
  <2>8. QED
    BY <2>5, <2>6, <2>7
<1>18. ASSUME NEW i \in Instances, NEW h \in TxHash, FailSweep(i, h) PROVE Consistent'
  <2>1. h \in DOMAIN sweepLog
    BY <1>18 DEF FailSweep
  <2>2. /\ Settle(h, "FAILED")
        /\ UNCHANGED <<deposit, clock, notes, workerVars, chainVars, faults>>
    BY ONLY <1>18 DEF FailSweep
  <2>3. DOMAIN sweepLog' = DOMAIN sweepLog /\ sweepLog' \in [DOMAIN sweepLog' -> Row]
    BY ONLY <2>1, <2>2, TypeOK, RowStatus DEF TypeOK, Settle
  <2>4. job' \in [Deposits -> {"none", "PENDING", "PROCESSING"}]
    BY <2>1, <1>18 DEF FailSweep
  <2>5. TypeOK'
    BY <2>2, <2>3, <2>4, <1>18 DEF FailSweep
  <2>6. HasDeposit' /\ AboutToLog' /\ DecidedRows' /\ FinalIsDecided'
    BY <2>1, <1>18 DEF FailSweep, Settle
  <2>7. FinishAfterRecord' /\ LedgerMatchesChain' /\ NoJobDropped'
    BY <2>1, <1>18 DEF FailSweep, Settle
  <2>8. QED
    BY <2>5, <2>6, <2>7
<1>19. ASSUME NEW i \in Instances, DropJob(i) PROVE Consistent'
  BY <1>19 DEF DropJob
<1>20. ASSUME NEW i \in Instances, ChainFails(i) PROVE Consistent'
  BY <1>20 DEF ChainFails, Fault, Goto
<1>21. ASSUME NEW i \in Instances, RefillAckLost(i) PROVE Consistent'
  BY <1>21 DEF RefillAckLost, Fault, SendTrx, Goto
<1>22. ASSUME NEW i \in Instances, NEW h \in TxHash, BroadcastAckLost(i, h) PROVE Consistent'
  <2>1. Sent(balance[i]) \in Nat
    BY SentIsClose
  <2>2. QED
    BY <2>1, <1>22 DEF BroadcastAckLost, Fault, SendToken, Put, Goto
<1>23. ASSUME NEW i \in Instances, NEW h \in TxHash, ConfirmFails(i, h) PROVE Consistent'
  BY <1>23 DEF ConfirmFails, Fault
<1>24. ASSUME NEW i \in Instances, DbFails(i) PROVE Consistent'
  BY <1>24 DEF DbFails, Fault, Goto
<1>25. ASSUME NEW i \in Instances, ReleaseFails(i) PROVE Consistent'
  BY <1>25 DEF ReleaseFails, Fault, LeaveJob
<1>26. ASSUME NEW i \in Instances, Crash(i) PROVE Consistent'
  BY <1>26 DEF Crash, Fault, LeaveJob
<1>27. ASSUME NEW i \in Instances, NEW d \in Deposits, LockFails(i, d) PROVE Consistent'
  BY <1>27 DEF LockFails, Fault, Goto
<1>28. ASSUME NEW h \in TxHash, Execute(h) PROVE Consistent'
  <2>1. TypeOK'
    <3>1. DOMAIN tx' = DOMAIN tx /\ tx' \in [DOMAIN tx -> Transfer]
      BY ONLY TypeOK, <1>28, TransferState DEF TypeOK, Execute
    <3>2. token' \in [Wallets -> Nat] /\ gas' \in [Wallets -> BOOLEAN]
      BY <1>28 DEF Execute, BurnGas, From
    <3>3. QED
      BY <3>1, <3>2, <1>28 DEF Execute, BurnGas, From
  <2>2. HasDeposit' /\ AboutToLog' /\ DecidedRows' /\ FinalIsDecided'
    BY <1>28 DEF Execute, BurnGas, From
  <2>3. FinishAfterRecord' /\ LedgerMatchesChain' /\ NoJobDropped'
    BY <1>28 DEF Execute, BurnGas, From
  <2>4. QED
    BY <2>1, <2>2, <2>3
<1>29. ASSUME NEW h \in TxHash, Revert(h) PROVE Consistent'
  <2>1. TypeOK'
    <3>1. DOMAIN tx' = DOMAIN tx /\ tx' \in [DOMAIN tx -> Transfer]
      BY ONLY TypeOK, <1>29, TransferState DEF TypeOK, Revert
    <3>2. gas' \in [Wallets -> BOOLEAN]
      BY <1>29 DEF Revert, BurnGas, From
    <3>3. QED
      BY <3>1, <3>2, <1>29 DEF Revert, BurnGas, From
  <2>2. HasDeposit' /\ AboutToLog' /\ DecidedRows' /\ FinalIsDecided'
    BY <1>29 DEF Revert, BurnGas, From
  <2>3. FinishAfterRecord' /\ LedgerMatchesChain' /\ NoJobDropped'
    BY <1>29 DEF Revert, BurnGas, From
  <2>4. QED
    BY <2>1, <2>2, <2>3
<1>30. ASSUME NEW h \in TxHash, Finalize(h) PROVE Consistent'
  <2>1. TypeOK'
    <3>1. DOMAIN tx' = DOMAIN tx /\ tx' \in [DOMAIN tx -> Transfer]
      BY ONLY TypeOK, <1>30, TransferFinal DEF TypeOK, Finalize
    <3>2. QED
      BY <3>1, <1>30 DEF Finalize
  <2>2. HasDeposit' /\ AboutToLog' /\ DecidedRows' /\ FinalIsDecided'
    BY <1>30 DEF Finalize
  <2>3. FinishAfterRecord' /\ LedgerMatchesChain' /\ NoJobDropped'
    BY <1>30 DEF Finalize
  <2>4. QED
    BY <2>1, <2>2, <2>3
<1>31. ASSUME NEW h \in TxHash, Reorg(h) PROVE Consistent'
  <2>1. TypeOK'
    <3>1. DOMAIN tx' = DOMAIN tx /\ tx' \in [DOMAIN tx -> Transfer]
      BY ONLY TypeOK, <1>31, TransferState DEF TypeOK, Reorg
    <3>2. token' \in [Wallets -> Nat]
      BY <1>31 DEF Reorg, From
    <3>3. QED
      BY <3>1, <3>2, <1>31 DEF Reorg, From
  <2>2. HasDeposit' /\ AboutToLog' /\ DecidedRows' /\ FinalIsDecided'
    BY <1>31 DEF Reorg, From
  <2>3. FinishAfterRecord' /\ LedgerMatchesChain' /\ NoJobDropped'
    BY <1>31 DEF Reorg, From
  <2>4. QED
    BY <2>1, <2>2, <2>3
<1>32. ASSUME NEW h \in TxHash, Expire(h) PROVE Consistent'
  <2>1. TypeOK'
    <3>1. DOMAIN tx' = DOMAIN tx /\ tx' \in [DOMAIN tx -> Transfer]
      BY ONLY TypeOK, <1>32, TransferState DEF TypeOK, Expire
    <3>2. QED
      BY <3>1, <1>32 DEF Expire
  <2>2. HasDeposit' /\ AboutToLog' /\ DecidedRows' /\ FinalIsDecided'
    BY <1>32 DEF Expire
  <2>3. FinishAfterRecord' /\ LedgerMatchesChain' /\ NoJobDropped'
    BY <1>32 DEF Expire
  <2>4. QED
    BY <2>1, <2>2, <2>3
<1>33. ASSUME NEW w \in Wallets, CreditTrx(w) PROVE Consistent'
  BY <1>33 DEF CreditTrx
<1>34. CASE UNCHANGED vars
  BY <1>34 DEF vars
<1>35. QED
  BY <1>1, <1>2, <1>3, <1>4, <1>5, <1>6, <1>7, <1>8, <1>9, <1>10, <1>11, <1>12, <1>13, <1>14, <1>15, <1>16, <1>17, <1>18, <1>19,
    <1>20, <1>21, <1>22, <1>23, <1>24, <1>25, <1>26, <1>27, <1>28, <1>29, <1>30, <1>31, <1>32, <1>33, <1>34
  DEF Next, SweepWorker, ConfirmWorker, Failure, Chain

\* The types, and what the queue and the records keep whatever fails.
THEOREM ConsistentInvariant == Spec => []Consistent
<1>1. QED
  BY ConsistentInit, ConsistentStep, PTL DEF Spec

\* Every variable keeps its type, whatever the workers and the chain do.
THEOREM TypeCorrect == Spec => []TypeOK
<1>1. Consistent => TypeOK
  BY DEF Consistent
<1>2. QED
  BY <1>1, ConsistentInvariant, PTL

\* SweepLog agrees with the chain: a row is about a real transfer of that
\* amount, and a settled row says what the chain decided for good.
THEOREM LedgerTheorem == Spec => []LedgerMatchesChain
<1>1. Consistent => LedgerMatchesChain
  BY DEF Consistent
<1>2. QED
  BY <1>1, ConsistentInvariant, PTL

\* The queue never drops the job of a confirmed deposit without a record.
THEOREM QueueTheorem == Spec => []NoJobDropped
<1>1. Consistent => NoJobDropped
  BY DEF Consistent
<1>2. QED
  BY <1>1, ConsistentInvariant, PTL

----------------------------------------------------------------------------
(* PROCESSING is a lock, as long as the update that takes it does not fail *)

\* At the start nothing is locked.
LEMMA LockedInit == Init => Locked
  BY DEF Init, Locked, Exclusive, Holding

\* A held job is not PENDING, so updateMany finds it for nobody else.
LEMMA LockedStep ==
  ASSUME "lock" \notin Faults, Consistent, Locked, [Next]_vars
  PROVE  Locked'
<1> USE DEF Consistent, TypeOK, HasDeposit, DecidedRows, Locked, Exclusive, Holding, Row
<1>1. ASSUME NEW d \in Deposits, Pay(d) \/ QueueSweep(d) PROVE Locked'
  <2>1. CASE Pay(d)
    BY <2>1 DEF Pay, workerVars
  <2>2. CASE QueueSweep(d)
    BY <2>2 DEF QueueSweep, workerVars
  <2>3. QED
    BY <1>1, <2>1, <2>2
<1>2. ASSUME NEW i \in Instances, SweepWorker(i) PROVE Locked'
  <2>1. ASSUME NEW d \in Deposits, LockJob(i, d) PROVE Locked'
    <3>1. Exclusive'
      BY <1>2, <2>1 DEF LockJob, Goto
    <3>2. QED
      BY <3>1, <1>2, <2>1 DEF LockJob, Goto
  <2>2. ASSUME NEW d \in Deposits, MissLock(i, d) PROVE Locked'
    BY <1>2, <2>2 DEF MissLock, LeaveJob, dbVars
  <2>3. CASE FetchJobs(i)
    BY <2>3 DEF FetchJobs, Goto, dbVars
  <2>4. CASE CheckTerminal(i) \/ CheckBroadcast(i) \/ ReadTrx(i) \/ ReadToken(i)
    BY <2>4 DEF CheckTerminal, CheckBroadcast, ReadTrx, ReadToken, Goto, dbVars
  <2>5. CASE LogSkipped(i) \/ SendRefill(i) \/ LogRefill(i) \/ LogBroadcast(i)
    BY <2>5 DEF LogSkipped, SendRefill, SendTrx, LogRefill, LogBroadcast, Goto, dbVars
  <2>6. ASSUME NEW h \in TxHash, Broadcast(i, h) PROVE Locked'
    BY <1>2, <2>6 DEF Broadcast, SendToken, Goto, dbVars
  <2>7. CASE FinishJob(i)
    BY <2>7 DEF FinishJob, LeaveJob
  <2>8. CASE ReleaseJob(i)
    BY <2>8 DEF ReleaseJob, LeaveJob
  <2>9. QED
    BY <1>2, <2>1, <2>2, <2>3, <2>4, <2>5, <2>6, <2>7, <2>8 DEF SweepWorker
<1>3. ASSUME NEW i \in Instances, ConfirmWorker(i) PROVE Locked'
  <2>1. ASSUME NEW h \in TxHash, ConfirmSweep(i, h) PROVE Locked'
    BY <1>3, <2>1 DEF ConfirmSweep, workerVars
  <2>2. ASSUME NEW h \in TxHash, FailSweep(i, h) PROVE Locked'
    BY <1>3, <2>2 DEF FailSweep, workerVars
  <2>3. CASE DropJob(i)
    BY <2>3 DEF DropJob, workerVars
  <2>4. CASE FetchBroadcasts(i)
    BY <2>4 DEF FetchBroadcasts, workerVars, dbVars
  <2>5. QED
    BY <1>3, <2>1, <2>2, <2>3, <2>4 DEF ConfirmWorker
<1>4. ASSUME NEW i \in Instances, Failure(i) PROVE Locked'
  <2>1. CASE ChainFails(i) \/ RefillAckLost(i) \/ DbFails(i)
    BY <2>1 DEF ChainFails, RefillAckLost, SendTrx, DbFails, Goto, dbVars
  <2>2. ASSUME NEW h \in TxHash, BroadcastAckLost(i, h) PROVE Locked'
    BY <1>4, <2>2 DEF BroadcastAckLost, SendToken, Goto, dbVars
  <2>3. ASSUME NEW h \in TxHash, ConfirmFails(i, h) PROVE Locked'
    BY <1>4, <2>3 DEF ConfirmFails, workerVars, dbVars
  <2>4. CASE ReleaseFails(i)
    BY <2>4 DEF ReleaseFails, LeaveJob, dbVars
  <2>5. CASE Crash(i)
    BY <2>5 DEF Crash, LeaveJob, dbVars
  <2>6. ASSUME NEW d \in Deposits, LockFails(i, d) PROVE FALSE
    BY <1>4, <2>6 DEF LockFails, Fault
  <2>7. QED
    BY <1>4, <2>1, <2>2, <2>3, <2>4, <2>5, <2>6 DEF Failure
<1>5. CASE Chain \/ UNCHANGED vars
  BY <1>5 DEF Chain, Execute, Revert, Finalize, Reorg, Expire, CreditTrx, vars, workerVars, dbVars
<1>6. QED
  BY <1>1, <1>2, <1>3, <1>4, <1>5 DEF Next

\* No two processes work on the job of the same deposit.
THEOREM LockTheorem ==
  ASSUME "lock" \notin Faults
  PROVE  Spec => []MutualExclusion
<1>1. Consistent /\ Locked /\ [Next]_vars => Locked'
  BY LockedStep
<1>2. Locked => MutualExclusion
  BY DEF Locked, Exclusive, MutualExclusion, Working
<1>3. QED
  BY <1>1, <1>2, LockedInit, ConsistentInvariant, PTL DEF Spec

----------------------------------------------------------------------------
(* A job that says PROCESSING is in somebody's hands, as long as no process *)
(* dies and no release fails: nothing else looks at such a job.             *)

ProcessingIsHeld ==
  \A d \in Deposits : job[d] = "PROCESSING" => \E i \in Instances : pc[i] \in Holding /\ at[i] = d

\* A step that locks nothing and lets go of nothing that it leaves PROCESSING.
LEMMA HeldKept ==
  ASSUME ProcessingIsHeld,
         \A d \in Deposits : job'[d] = "PROCESSING" => job[d] = "PROCESSING",
         \A i \in Instances, d \in Deposits :
           job'[d] = "PROCESSING" /\ pc[i] \in Holding /\ at[i] = d =>
             pc'[i] \in Holding /\ at'[i] = d
  PROVE  ProcessingIsHeld'
  BY DEF ProcessingIsHeld

\* Every way out of a job either sets its status or is a failure.
LEMMA HeldStep ==
  ASSUME "db" \notin Faults, "crash" \notin Faults, Consistent, ProcessingIsHeld, [Next]_vars
  PROVE  ProcessingIsHeld'
<1> USE DEF Holding
<1>0. TypeOK /\ HasDeposit
  BY DEF Consistent
<1>1. CASE UNCHANGED <<job, pc, at>>
  BY <1>1, HeldKept
<1>2. ASSUME NEW d \in Deposits, Pay(d) \/ QueueSweep(d) PROVE ProcessingIsHeld'
  BY <1>0, <1>2, HeldKept DEF Pay, QueueSweep, TypeOK, workerVars
<1>3. ASSUME NEW i \in Instances, SweepWorker(i) PROVE ProcessingIsHeld'
  <2> USE DEF TypeOK, HasDeposit
  <2>1. ASSUME NEW d \in Deposits, LockJob(i, d) PROVE ProcessingIsHeld'
    <3>1. /\ pc[i] = "next" /\ pc' = [pc EXCEPT ![i] = "terminal"] /\ at' = [at EXCEPT ![i] = d]
          /\ job' = [job EXCEPT ![d] = "PROCESSING"]
      BY <2>1 DEF LockJob, Goto
    <3>2. pc'[i] \in Holding /\ at'[i] = d
      BY <1>0, <3>1
    <3>3. \A j \in Instances : pc[j] \in Holding => pc'[j] = pc[j] /\ at'[j] = at[j]
      BY <1>0, <3>1
    <3>4. \A e \in Deposits \ {d} : job'[e] = job[e]
      BY <1>0, <3>1
    <3>5. QED
      BY <3>2, <3>3, <3>4 DEF ProcessingIsHeld
  <2>2. ASSUME NEW d \in Deposits, MissLock(i, d) PROVE ProcessingIsHeld'
    BY <1>0, <2>2, HeldKept DEF MissLock, LeaveJob, dbVars
  <2>3. CASE FetchJobs(i)
    BY <1>0, <2>3, HeldKept DEF FetchJobs, Goto, dbVars
  <2>4. CASE \/ CheckTerminal(i) \/ CheckBroadcast(i) \/ ReadTrx(i) \/ ReadToken(i)
             \/ LogSkipped(i) \/ SendRefill(i) \/ LogRefill(i) \/ LogBroadcast(i)
             \/ \E h \in TxHash : Broadcast(i, h)
    BY <1>0, <2>4, HeldKept
    DEF CheckTerminal, CheckBroadcast, ReadTrx, ReadToken, LogSkipped, SendRefill, SendTrx,
        LogRefill, LogBroadcast, Broadcast, SendToken, Goto, dbVars
  <2>5. CASE FinishJob(i) \/ ReleaseJob(i)
    BY <1>0, <2>5, HeldKept DEF FinishJob, ReleaseJob, LeaveJob
  <2>6. QED
    BY <1>3, <2>1, <2>2, <2>3, <2>4, <2>5 DEF SweepWorker
<1>4. ASSUME NEW i \in Instances, ConfirmWorker(i) PROVE ProcessingIsHeld'
  BY <1>0, <1>4, HeldKept
  DEF ConfirmWorker, ConfirmSweep, FailSweep, DropJob, FetchBroadcasts, TypeOK, workerVars, dbVars
<1>5. ASSUME NEW i \in Instances, Failure(i) PROVE ProcessingIsHeld'
  <2>1. CASE \/ ChainFails(i) \/ RefillAckLost(i) \/ \E h \in TxHash : BroadcastAckLost(i, h)
    BY <1>0, <2>1, HeldKept
    DEF ChainFails, RefillAckLost, SendTrx, BroadcastAckLost, SendToken, Goto, dbVars, TypeOK
  <2>2. ASSUME NEW d \in Deposits, LockFails(i, d) PROVE ProcessingIsHeld'
    BY <1>0, <2>2, HeldKept DEF LockFails, Goto, dbVars, TypeOK
  <2>3. QED
    BY <1>5, <2>1, <2>2 DEF Failure, ConfirmFails, DbFails, ReleaseFails, Crash, Fault
<1>6. CASE Chain \/ UNCHANGED vars
  BY <1>6, <1>1 DEF Chain, Execute, Revert, Finalize, Reorg, Expire, CreditTrx, vars, workerVars, dbVars
<1>7. QED
  BY <1>2, <1>3, <1>4, <1>5, <1>6 DEF Next

\* No job is left PROCESSING by anything but a process that dies or a database call that
\* fails: FetchJobs looks for PENDING jobs only, so that such a job would wait for ever.
\* Calls to the node, lost answers and the stolen lock of run sweep_lock_fails are no
\* reason: every way out of a held job gives it back or deletes it.
THEOREM HeldTheorem ==
  ASSUME "db" \notin Faults, "crash" \notin Faults
  PROVE  Spec => []ProcessingIsHeld
<1>1. Init => ProcessingIsHeld
  BY DEF Init, ProcessingIsHeld
<1>2. Consistent /\ ProcessingIsHeld /\ [Next]_vars => ProcessingIsHeld'
  BY HeldStep
<1>3. QED
  BY <1>1, <1>2, ConsistentInvariant, PTL DEF Spec

----------------------------------------------------------------------------
(* A deposit is swept once, as long as the database does not fail: a job    *)
(* that can be taken, or is being worked on, has no live row yet.           *)

Live(d) == Rows(d, {"BROADCASTED", "CONFIRMED"})

Untouched ==
  /\ \A i \in Instances : pc[i] \in Holding \ {"finish"} => Live(at[i]) = {}
  /\ \A d \in Deposits : job[d] = "PENDING" \/ deposit[d] # "CONFIRMED" => Live(d) = {}
  /\ OneSweepPerDeposit

\* Live rows only appear when a broadcast is logged.
LEMMA LiveShrinks ==
  ASSUME Consistent, NEW d \in Deposits,
         \/ UNCHANGED sweepLog
         \/ \E i \in Instances, h \in TxHash : ConfirmSweep(i, h) \/ FailSweep(i, h)
  PROVE  Live(d)' \subseteq Live(d)
<1>1. CASE UNCHANGED sweepLog
  BY <1>1 DEF Live, Rows
<1>2. ASSUME NEW i \in Instances, NEW h \in TxHash, ConfirmSweep(i, h) \/ FailSweep(i, h)
      PROVE  Live(d)' \subseteq Live(d)
  <2>1. h \in DOMAIN sweepLog
    BY <1>2 DEF ConfirmSweep, FailSweep, Consistent, DecidedRows
  <2>2. /\ DOMAIN sweepLog' = DOMAIN sweepLog
        /\ \A g \in DOMAIN sweepLog :
             /\ sweepLog'[g].dep = sweepLog[g].dep
             /\ g # h => sweepLog'[g] = sweepLog[g]
        /\ sweepLog[h].status # "BROADCASTED" => sweepLog' = sweepLog
    BY <2>1, <1>2 DEF ConfirmSweep, FailSweep, Settle, Consistent, TypeOK, Row
  <2>3. QED
    BY <2>1, <2>2 DEF Live, Rows
<1>3. QED
  BY <1>1, <1>2

\* At the start there is no row.
LEMMA UntouchedInit == Init => Untouched
  BY DEF Init, Untouched, Live, Rows, OneSweepPerDeposit, Holding

\* A step that adds no row keeps Untouched if what it newly holds or queues
\* was free of live rows before.
LEMMA UntouchedKept ==
  ASSUME Consistent, Untouched, \A d \in Deposits : Live(d)' \subseteq Live(d),
         \A i \in Instances : pc'[i] \in Holding \ {"finish"} =>
            at'[i] \in Deposits /\ Live(at'[i]) = {},
         \A d \in Deposits : job'[d] = "PENDING" \/ deposit'[d] # "CONFIRMED" =>
            Live(d) = {}
  PROVE  Untouched'
<1>1. OneSweepPerDeposit'
  BY DEF Untouched, OneSweepPerDeposit, Live
<1>2. (\A i \in Instances : pc[i] \in Holding \ {"finish"} => Live(at[i]) = {})'
  BY DEF Live
<1>3. QED
  BY <1>1, <1>2 DEF Untouched, Live

\* Only LogBroadcast adds a live row, to a deposit that has none and that no
\* other process holds.
LEMMA UntouchedStep ==
  ASSUME "lock" \notin Faults, "db" \notin Faults,
         Consistent, Locked, Untouched, [Next]_vars
  PROVE  Untouched'
<1> USE DEF Holding
<1>1. CASE UNCHANGED sweepLog /\ UNCHANGED <<deposit, job, pc, at>>
  BY <1>1, LiveShrinks, UntouchedKept DEF Untouched, Consistent, HasDeposit
<1>2. ASSUME NEW d \in Deposits, Pay(d) \/ QueueSweep(d) PROVE Untouched'
  BY <1>2, LiveShrinks, UntouchedKept
  DEF Pay, QueueSweep, Untouched, Consistent, TypeOK, HasDeposit, workerVars
<1>3. ASSUME NEW i \in Instances, SweepWorker(i) PROVE Untouched'
  <2> USE DEF Untouched, Consistent, TypeOK, HasDeposit
  <2>1. ASSUME NEW d \in Deposits, LockJob(i, d) \/ MissLock(i, d) PROVE Untouched'
    BY <1>3, <2>1, LiveShrinks, UntouchedKept DEF LockJob, MissLock, LeaveJob, Goto, dbVars
  <2>2. CASE \/ FetchJobs(i) \/ CheckTerminal(i) \/ CheckBroadcast(i) \/ ReadTrx(i) \/ ReadToken(i)
             \/ LogSkipped(i) \/ SendRefill(i) \/ LogRefill(i)
    BY <1>3, <2>2, LiveShrinks, UntouchedKept
    DEF FetchJobs, CheckTerminal, CheckBroadcast, ReadTrx, ReadToken, LogSkipped,
        SendRefill, SendTrx, LogRefill, Goto, dbVars
  <2>3. ASSUME NEW h \in TxHash, Broadcast(i, h) PROVE Untouched'
    BY <1>3, <2>3, LiveShrinks, UntouchedKept DEF Broadcast, SendToken, Goto, dbVars
  <2>4. CASE LogBroadcast(i)
    <3>1. at[i] \in Deposits /\ Live(at[i]) = {} /\ hash[i] \notin DOMAIN sweepLog
      BY <2>4 DEF LogBroadcast, AboutToLog
    <3>2. /\ DOMAIN sweepLog' = DOMAIN sweepLog \cup {hash[i]}
          /\ \A g \in DOMAIN sweepLog : sweepLog'[g] = sweepLog[g]
          /\ sweepLog'[hash[i]].dep = at[i]
          /\ at' = at
      BY <3>1, <2>4 DEF LogBroadcast, Put
    <3>3. Live(at[i])' \subseteq {hash[i]}
      BY <3>1, <3>2 DEF Live, Rows
    <3>4. \A d \in Deposits \ {at[i]} : Live(d)' \subseteq Live(d)
      BY <3>1, <3>2 DEF Live, Rows
    <3>5. QED
      BY <3>1, <3>3, <3>4, <2>4
      DEF LogBroadcast, Goto, Locked, Exclusive, OneSweepPerDeposit, Live
  <2>5. CASE FinishJob(i) \/ ReleaseJob(i)
    BY <1>3, <2>5, LiveShrinks, UntouchedKept DEF FinishJob, ReleaseJob, LeaveJob
  <2>6. QED
    BY <1>3, <2>1, <2>2, <2>3, <2>4, <2>5 DEF SweepWorker
<1>4. ASSUME NEW i \in Instances, ConfirmWorker(i) PROVE Untouched'
  <2> USE DEF Untouched, Consistent, TypeOK, HasDeposit
  <2>1. ASSUME NEW h \in TxHash, ConfirmSweep(i, h) \/ FailSweep(i, h) PROVE Untouched'
    BY <1>4, <2>1, LiveShrinks, UntouchedKept DEF ConfirmSweep, FailSweep, workerVars
  <2>2. CASE DropJob(i) \/ FetchBroadcasts(i)
    BY <1>4, <2>2, LiveShrinks, UntouchedKept DEF DropJob, FetchBroadcasts, workerVars, dbVars
  <2>3. QED
    BY <1>4, <2>1, <2>2 DEF ConfirmWorker
<1>5. ASSUME NEW i \in Instances, Failure(i) PROVE Untouched'
  <2> USE DEF Untouched, Consistent, TypeOK, HasDeposit
  <2>1. CASE ChainFails(i) \/ RefillAckLost(i) \/ Crash(i)
    BY <1>5, <2>1, LiveShrinks, UntouchedKept
    DEF ChainFails, RefillAckLost, SendTrx, Crash, Goto, LeaveJob, dbVars
  <2>2. ASSUME NEW h \in TxHash, BroadcastAckLost(i, h) PROVE Untouched'
    BY <1>5, <2>2, LiveShrinks, UntouchedKept DEF BroadcastAckLost, SendToken, Goto, dbVars
  <2>3. QED
    BY <1>5, <2>1, <2>2 DEF Failure, DbFails, ReleaseFails, ConfirmFails, LockFails, Fault
<1>6. CASE Chain \/ UNCHANGED vars
  BY <1>6, <1>1 DEF Chain, Execute, Revert, Finalize, Reorg, Expire, CreditTrx,
    vars, workerVars, dbVars
<1>7. QED
  BY <1>2, <1>3, <1>4, <1>5, <1>6 DEF Next

\* No deposit is swept twice.
THEOREM OnceTheorem ==
  ASSUME "lock" \notin Faults, "db" \notin Faults
  PROVE  Spec => []OneSweepPerDeposit
<1>1. Consistent /\ Locked /\ [Next]_vars => Locked'
  BY LockedStep
<1>2. Consistent /\ Locked /\ Untouched /\ [Next]_vars => Untouched'
  BY UntouchedStep
<1>3. Untouched => OneSweepPerDeposit
  BY DEF Untouched
<1>4. QED
  BY <1>1, <1>2, <1>3, LockedInit, UntouchedInit, ConsistentInvariant, PTL DEF Spec

----------------------------------------------------------------------------
(* A skipped deposit is not swept, under the same premise: its job is never *)
(* taken again, so CheckTerminal need not find the note.                    *)

SkippedUnswept == \A d \in Deposits : <<d, "SKIPPED">> \in notes => Live(d) = {}

SkippedForGood ==
  \A d \in Deposits : <<d, "SKIPPED">> \in notes =>
    /\ job[d] # "PENDING" /\ deposit[d] = "CONFIRMED"
    /\ \A i \in Instances : pc[i] \in Holding \ {"finish"} => at[i] # d

\* A step that skips nothing keeps both, if it adds no live row to a skipped deposit and
\* neither queues nor holds one.
LEMMA SkippedKept ==
  ASSUME SkippedUnswept, SkippedForGood,
         \A d \in Deposits : <<d, "SKIPPED">> \in notes' => <<d, "SKIPPED">> \in notes,
         \A d \in Deposits : <<d, "SKIPPED">> \in notes =>
           /\ Live(d)' \subseteq Live(d)
           /\ job'[d] # "PENDING" /\ deposit'[d] = "CONFIRMED"
           /\ \A i \in Instances : pc'[i] \in Holding \ {"finish"} => at'[i] # d
  PROVE  SkippedUnswept' /\ SkippedForGood'
<1>1. SkippedForGood'
  BY DEF SkippedForGood
<1>2. SkippedUnswept'
  BY DEF SkippedUnswept
<1>3. QED
  BY <1>1, <1>2

\* Only LogSkipped adds a note of this kind: of a deposit without a live row, whose job
\* it holds and does not give back.
LEMMA SkippedStep ==
  ASSUME "lock" \notin Faults, "db" \notin Faults,
         Consistent, Locked, Untouched, SkippedUnswept, SkippedForGood, [Next]_vars
  PROVE  SkippedUnswept' /\ SkippedForGood'
<1> DEFINE Goal == SkippedUnswept' /\ SkippedForGood'
<1> USE DEF Holding
<1>0. TypeOK /\ HasDeposit
  BY DEF Consistent
<1>1. CASE UNCHANGED <<deposit, job, sweepLog, notes, pc, at>>
  BY <1>1, LiveShrinks, SkippedKept DEF SkippedForGood
<1>2. ASSUME NEW d \in Deposits, Pay(d) \/ QueueSweep(d) PROVE Goal
  BY <1>0, <1>2, LiveShrinks, SkippedKept
  DEF Pay, QueueSweep, SkippedForGood, TypeOK, workerVars
<1>3. ASSUME NEW i \in Instances, SweepWorker(i) PROVE Goal
  <2> USE DEF SkippedForGood, TypeOK, HasDeposit
  <2>1. ASSUME NEW d \in Deposits, LockJob(i, d) \/ MissLock(i, d) PROVE Goal
    BY <1>0, <2>1, LiveShrinks, SkippedKept DEF LockJob, MissLock, LeaveJob, Goto, dbVars
  <2>2. CASE \/ FetchJobs(i) \/ CheckTerminal(i) \/ CheckBroadcast(i) \/ ReadTrx(i) \/ ReadToken(i)
             \/ SendRefill(i) \/ \E h \in TxHash : Broadcast(i, h)
    BY <1>0, <2>2, LiveShrinks, SkippedKept
    DEF FetchJobs, CheckTerminal, CheckBroadcast, ReadTrx, ReadToken,
        SendRefill, SendTrx, Broadcast, SendToken, Goto, dbVars
  <2>3. CASE LogRefill(i)
    BY <1>0, <2>3, LiveShrinks, SkippedKept DEF LogRefill, Goto
  <2>4. CASE LogSkipped(i)
    <3>1. /\ at[i] \in Deposits /\ Live(at[i]) = {}
          /\ job[at[i]] # "PENDING" /\ deposit[at[i]] = "CONFIRMED"
      BY <1>0, <2>4 DEF LogSkipped, Untouched, Locked
    <3>2. /\ UNCHANGED <<deposit, job, sweepLog, at>> /\ pc' = [pc EXCEPT ![i] = "finish"]
          /\ notes' = notes \cup {<<at[i], "SKIPPED">>}
      BY <2>4 DEF LogSkipped, Goto
    <3>3. \A j \in Instances : pc'[j] \in Holding \ {"finish"} => at[j] # at[i]
      BY <1>0, <2>4, <3>2 DEF LogSkipped, Locked, Exclusive
    <3>4. \A d \in Deposits : <<d, "SKIPPED">> \in notes' => <<d, "SKIPPED">> \in notes \/ d = at[i]
      BY <3>2
    <3>5. SkippedForGood'
      BY <1>0, <3>1, <3>2, <3>3, <3>4
    <3>6. SkippedUnswept'
      BY <3>1, <3>2, <3>4 DEF SkippedUnswept, Live, Rows
    <3>7. QED
      BY <3>5, <3>6
  <2>5. CASE LogBroadcast(i)
    <3>1. at[i] \in Deposits /\ <<at[i], "SKIPPED">> \notin notes
      BY <1>0, <2>5 DEF LogBroadcast
    <3>2. /\ DOMAIN sweepLog' = DOMAIN sweepLog \cup {hash[i]}
          /\ \A g \in DOMAIN sweepLog : g # hash[i] => sweepLog'[g] = sweepLog[g]
          /\ sweepLog'[hash[i]].dep = at[i]
      BY <2>5 DEF LogBroadcast, Put
    <3>3. \A d \in Deposits \ {at[i]} : Live(d)' \subseteq Live(d)
      BY <3>2 DEF Live, Rows
    <3>4. QED
      BY <1>0, <2>5, <3>1, <3>3, SkippedKept DEF LogBroadcast, Goto
  <2>6. CASE FinishJob(i) \/ ReleaseJob(i)
    BY <1>0, <2>6, LiveShrinks, SkippedKept DEF FinishJob, ReleaseJob, LeaveJob
  <2>7. QED
    BY <1>3, <2>1, <2>2, <2>3, <2>4, <2>5, <2>6 DEF SweepWorker
<1>4. ASSUME NEW i \in Instances, ConfirmWorker(i) PROVE Goal
  BY <1>0, <1>4, LiveShrinks, SkippedKept
  DEF ConfirmWorker, ConfirmSweep, FailSweep, DropJob, FetchBroadcasts, SkippedForGood, TypeOK,
      workerVars, dbVars
<1>5. ASSUME NEW i \in Instances, Failure(i) PROVE Goal
  <2>1. CASE \/ ChainFails(i) \/ RefillAckLost(i) \/ Crash(i)
             \/ \E h \in TxHash : BroadcastAckLost(i, h)
    BY <1>0, <2>1, LiveShrinks, SkippedKept
    DEF ChainFails, RefillAckLost, SendTrx, BroadcastAckLost, SendToken, Crash, Goto, LeaveJob,
        dbVars, SkippedForGood, TypeOK, HasDeposit
  <2>2. QED
    BY <1>5, <2>1 DEF Failure, DbFails, ReleaseFails, ConfirmFails, LockFails, Fault
<1>6. CASE Chain \/ UNCHANGED vars
  BY <1>6, <1>1 DEF Chain, Execute, Revert, Finalize, Reorg, Expire, CreditTrx, vars, workerVars, dbVars
<1>7. QED
  BY <1>2, <1>3, <1>4, <1>5, <1>6 DEF Next

\* A deposit that is on record as SKIPPED has no transfer in flight or confirmed, neither
\* then nor later: the two ends of a sweep exclude each other, although nothing but the
\* lock stands between the checks and what is written after them.
THEOREM SkippedTheorem ==
  ASSUME "lock" \notin Faults, "db" \notin Faults
  PROVE  Spec => []SkippedUnswept
<1>1. Init => SkippedUnswept /\ SkippedForGood
  BY DEF Init, SkippedUnswept, SkippedForGood
<1>2. Consistent /\ Locked /\ [Next]_vars => Locked'
  BY LockedStep
<1>3. Consistent /\ Locked /\ Untouched /\ [Next]_vars => Untouched'
  BY UntouchedStep
<1>4. Consistent /\ Locked /\ Untouched /\ SkippedUnswept /\ SkippedForGood /\ [Next]_vars
        => SkippedUnswept' /\ SkippedForGood'
  BY SkippedStep
<1>5. QED
  BY <1>1, <1>2, <1>3, <1>4, LockedInit, UntouchedInit, ConsistentInvariant, PTL DEF Spec

----------------------------------------------------------------------------
(* What a row says was moved: the balance that was read, of which transferToken *)
(* sent Sent(balance).                                                          *)

AmountsSent ==
  \A h \in DOMAIN sweepLog : h \in DOMAIN tx /\ tx[h].amount = Sent(sweepLog[h].amount)

\* Settling a row changes its status only.
LEMMA SettleKeepsAmounts ==
  ASSUME Consistent, NEW h \in DOMAIN sweepLog, NEW status \in {"CONFIRMED", "FAILED"},
         Settle(h, status)
  PROVE  /\ DOMAIN sweepLog' = DOMAIN sweepLog
         /\ \A g \in DOMAIN sweepLog : sweepLog'[g].amount = sweepLog[g].amount
  BY DEF Settle, Consistent, TypeOK, Row

\* The chain changes what became of a transfer, and transferToken adds one:
\* neither changes whose a transfer is and what it moves.
LEMMA ChainKeepsTransfers ==
  ASSUME Consistent,
         \/ Chain
         \/ \E i \in Instances, h \in TxHash : SendToken(i, h)
  PROVE  /\ DOMAIN tx \subseteq DOMAIN tx'
         /\ Chain => DOMAIN tx' = DOMAIN tx
         /\ \A g \in DOMAIN tx : tx'[g].amount = tx[g].amount /\ tx'[g].dep = tx[g].dep
<1>1. ASSUME NEW h \in TxHash, Execute(h) \/ Revert(h) \/ Finalize(h) \/ Reorg(h) \/ Expire(h)
      PROVE  /\ DOMAIN tx' = DOMAIN tx
             /\ \A g \in DOMAIN tx : tx'[g].amount = tx[g].amount /\ tx'[g].dep = tx[g].dep
  <2>1. \/ \E st \in {"pool", "ok", "failed", "expired"} : tx' = [tx EXCEPT ![h].st = st]
        \/ tx' = [tx EXCEPT ![h].final = TRUE]
    BY <1>1 DEF Execute, Revert, Finalize, Reorg, Expire
  <2>2. h \in DOMAIN tx /\ \A g \in DOMAIN tx : tx[g] \in Transfer
    BY <1>1 DEF Execute, Revert, Finalize, Reorg, Expire, Consistent, TypeOK
  <2>3. QED
    BY <2>1, <2>2 DEF Transfer
<1>2. ASSUME NEW w \in Wallets, CreditTrx(w) PROVE UNCHANGED tx
  BY <1>2 DEF CreditTrx
<1>3. ASSUME NEW i \in Instances, NEW h \in TxHash, SendToken(i, h)
      PROVE  DOMAIN tx \subseteq DOMAIN tx' /\ \A g \in DOMAIN tx : tx'[g] = tx[g]
  BY <1>3 DEF SendToken, Put
<1>4. QED
  BY <1>1, <1>2, <1>3 DEF Chain

\* Only LogBroadcast adds a row, with the balance its transfer was made of.
LEMMA AmountsStep ==
  ASSUME Consistent, AmountsSent, [Next]_vars
  PROVE  AmountsSent'
<1>1. CASE UNCHANGED sweepLog /\ (UNCHANGED tx \/ Chain \/ \E i \in Instances, h \in TxHash : SendToken(i, h))
  BY <1>1, ChainKeepsTransfers DEF AmountsSent
<1>2. ASSUME NEW i \in Instances, LogBroadcast(i) PROVE AmountsSent'
  <2>1. /\ hash[i] \in DOMAIN tx /\ tx[hash[i]].amount = Sent(balance[i])
        /\ UNCHANGED tx
    BY <1>2 DEF LogBroadcast, Consistent, AboutToLog, chainVars
  <2>2. /\ DOMAIN sweepLog' = DOMAIN sweepLog \cup {hash[i]}
        /\ sweepLog'[hash[i]].amount = balance[i]
        /\ \A g \in DOMAIN sweepLog : g # hash[i] => sweepLog'[g] = sweepLog[g]
    BY <1>2 DEF LogBroadcast, Put
  <2>3. QED
    BY <2>1, <2>2 DEF AmountsSent
<1>3. ASSUME NEW i \in Instances, NEW h \in TxHash, ConfirmSweep(i, h) \/ FailSweep(i, h)
      PROVE  AmountsSent'
  <2>1. h \in DOMAIN sweepLog /\ UNCHANGED tx
    BY <1>3 DEF ConfirmSweep, FailSweep, Consistent, DecidedRows, chainVars
  <2>2. QED
    BY <2>1, <1>3, SettleKeepsAmounts DEF ConfirmSweep, FailSweep, AmountsSent
<1>4. CASE \E d \in Deposits : Pay(d) \/ QueueSweep(d)
  BY <1>4, <1>1 DEF Pay, QueueSweep, chainVars
<1>5. ASSUME NEW i \in Instances, SweepWorker(i) PROVE AmountsSent'
  BY <1>5, <1>1, <1>2
  DEF SweepWorker, FetchJobs, LockJob, MissLock, CheckTerminal, CheckBroadcast,
      ReadTrx, ReadToken, LogSkipped, SendRefill, LogRefill, Broadcast, FinishJob,
      ReleaseJob, chainVars, dbVars
<1>6. ASSUME NEW i \in Instances, ConfirmWorker(i) PROVE AmountsSent'
  BY <1>6, <1>1, <1>3 DEF ConfirmWorker, FetchBroadcasts, DropJob, chainVars, dbVars
<1>7. ASSUME NEW i \in Instances, Failure(i) PROVE AmountsSent'
  BY <1>7, <1>1
  DEF Failure, ChainFails, RefillAckLost, BroadcastAckLost, ConfirmFails, DbFails,
      ReleaseFails, Crash, LockFails, chainVars, dbVars
<1>8. CASE Chain
  <2>1. UNCHANGED sweepLog
    BY <1>8 DEF Chain, Execute, Revert, Finalize, Reorg, Expire, CreditTrx, dbVars
  <2>2. QED
    BY <2>1, <1>8, <1>1
<1>9. CASE UNCHANGED vars
  BY <1>9, <1>1 DEF vars, chainVars, dbVars
<1>10. QED
  BY <1>4, <1>5, <1>6, <1>7, <1>8, <1>9 DEF Next

\* The transfer of every SweepLog row moves what transferToken makes of the
\* amount in the row: all of it, or a unit less of a balance that rounds down.
THEOREM AmountsTheorem == Spec => []AmountsSent
<1>1. Init => AmountsSent
  BY DEF Init, AmountsSent
<1>2. Consistent /\ AmountsSent /\ [Next]_vars => AmountsSent'
  BY AmountsStep
<1>3. QED
  BY <1>1, <1>2, ConsistentInvariant, PTL DEF Spec

\* SweepLog.amount is the amount moved wherever no balance rounds down: what run
\* sweep_rounding shows comes from the conversion alone, not from what happens
\* to a wallet between the read of its balance and the row.
THEOREM MovedTheorem ==
  ASSUME RoundsDown = {}
  PROVE  Spec => []LoggedAmountMoved
<1>1. AmountsSent => LoggedAmountMoved
  BY DEF AmountsSent, Sent, LoggedAmountMoved
<1>2. QED
  BY <1>1, AmountsTheorem, PTL

----------------------------------------------------------------------------
(* A deposit is submitted to the chain once, as long as no answer is lost:  *)
(* a job that can be taken, or is being worked on, has no transfer yet.     *)

NoTransfer(d) == \A h \in DOMAIN tx : tx[h].dep # d

OneTransferPerDeposit == \A h, g \in DOMAIN tx : tx[h].dep = tx[g].dep => h = g

Unsent ==
  /\ \A i \in Instances : pc[i] \in Holding \ {"log", "finish"} => NoTransfer(at[i])
  /\ \A d \in Deposits : job[d] = "PENDING" \/ deposit[d] # "CONFIRMED" => NoTransfer(d)
  /\ OneTransferPerDeposit

\* At the start nothing is submitted.
LEMMA UnsentInit == Init => Unsent
  BY DEF Init, Unsent, NoTransfer, OneTransferPerDeposit, Holding

\* A step that submits nothing keeps Unsent if what it newly holds or queues was free of
\* transfers before.
LEMMA UnsentKept ==
  ASSUME Consistent, Unsent, UNCHANGED tx \/ Chain,
         \A i \in Instances : pc'[i] \in Holding \ {"log", "finish"} => NoTransfer(at'[i]),
         \A d \in Deposits : job'[d] = "PENDING" \/ deposit'[d] # "CONFIRMED" => NoTransfer(d)
  PROVE  Unsent'
<1>1. DOMAIN tx' = DOMAIN tx /\ \A g \in DOMAIN tx : tx'[g].dep = tx[g].dep
  BY ChainKeepsTransfers
<1>2. OneTransferPerDeposit'
  BY <1>1 DEF Unsent, OneTransferPerDeposit
<1>3. QED
  BY <1>1, <1>2 DEF Unsent, NoTransfer

\* Only Broadcast submits a transfer, for a deposit that has none and that no other
\* process holds.
LEMMA UnsentStep ==
  ASSUME Faults \subseteq {"chain", "crash"}, Consistent, Locked, Unsent, [Next]_vars
  PROVE  Unsent'
<1> USE DEF Holding
<1>0. TypeOK /\ HasDeposit
  BY DEF Consistent
<1>1. CASE (UNCHANGED tx \/ Chain) /\ UNCHANGED <<deposit, job, pc, at>>
  BY <1>1, UnsentKept DEF Unsent
<1>2. ASSUME NEW d \in Deposits, Pay(d) \/ QueueSweep(d) PROVE Unsent'
  BY <1>0, <1>2, UnsentKept DEF Pay, QueueSweep, Unsent, TypeOK, workerVars, chainVars
<1>3. ASSUME NEW i \in Instances, SweepWorker(i) PROVE Unsent'
  <2> USE DEF Unsent, TypeOK, HasDeposit
  <2>1. ASSUME NEW d \in Deposits, LockJob(i, d) \/ MissLock(i, d) PROVE Unsent'
    BY <1>0, <2>1, UnsentKept DEF LockJob, MissLock, LeaveJob, Goto, dbVars, chainVars
  <2>2. CASE \/ FetchJobs(i) \/ CheckTerminal(i) \/ CheckBroadcast(i) \/ ReadTrx(i) \/ ReadToken(i)
             \/ LogSkipped(i) \/ LogRefill(i) \/ LogBroadcast(i)
    BY <1>0, <2>2, UnsentKept
    DEF FetchJobs, CheckTerminal, CheckBroadcast, ReadTrx, ReadToken, LogSkipped, LogRefill,
        LogBroadcast, Goto, dbVars, chainVars
  <2>3. CASE SendRefill(i)
    BY <1>0, <2>3, UnsentKept DEF SendRefill, SendTrx, Goto, dbVars
  <2>4. ASSUME NEW h \in TxHash, Broadcast(i, h) PROVE Unsent'
    <3>1. /\ at[i] \in Deposits /\ NoTransfer(at[i]) /\ h \notin DOMAIN tx
          /\ job[at[i]] # "PENDING" /\ deposit[at[i]] = "CONFIRMED"
      BY <1>0, <2>4 DEF Broadcast, SendToken, Locked
    <3>2. /\ DOMAIN tx' = DOMAIN tx \cup {h} /\ tx'[h].dep = at[i]
          /\ \A g \in DOMAIN tx : tx'[g] = tx[g]
      BY <2>4, <3>1 DEF Broadcast, SendToken, Put
    <3>3. \A d \in Deposits \ {at[i]} : NoTransfer(d) => NoTransfer(d)'
      BY <3>2 DEF NoTransfer
    <3>4. OneTransferPerDeposit'
      BY <3>1, <3>2 DEF OneTransferPerDeposit, NoTransfer
    <3>5. UNCHANGED <<deposit, job, at>> /\ pc' = [pc EXCEPT ![i] = "log"]
      BY <2>4 DEF Broadcast, Goto, dbVars
    <3>6. \A j \in Instances : pc'[j] \in Holding \ {"log", "finish"} =>
            at[j] \in Deposits \ {at[i]} /\ NoTransfer(at[j])
      BY <1>0, <2>4, <3>5 DEF Broadcast, SendToken, Locked, Exclusive
    <3>7. QED
      BY <3>1, <3>3, <3>4, <3>5, <3>6
  <2>5. CASE FinishJob(i) \/ ReleaseJob(i)
    BY <1>0, <2>5, UnsentKept DEF FinishJob, ReleaseJob, LeaveJob, chainVars
  <2>6. QED
    BY <1>3, <2>1, <2>2, <2>3, <2>4, <2>5 DEF SweepWorker
<1>4. ASSUME NEW i \in Instances, ConfirmWorker(i) PROVE Unsent'
  BY <1>0, <1>4, UnsentKept
  DEF ConfirmWorker, ConfirmSweep, FailSweep, DropJob, FetchBroadcasts, Unsent, TypeOK,
      workerVars, dbVars, chainVars
<1>5. ASSUME NEW i \in Instances, Failure(i) PROVE Unsent'
  <2> USE DEF Unsent, TypeOK, HasDeposit
  <2>1. CASE ChainFails(i) \/ Crash(i)
    BY <1>0, <2>1, UnsentKept DEF ChainFails, Crash, Goto, LeaveJob, dbVars, chainVars
  <2>2. QED
    BY <1>5, <2>1
    DEF Failure, RefillAckLost, BroadcastAckLost, ConfirmFails, DbFails, ReleaseFails, LockFails, Fault
<1>6. CASE Chain
  BY <1>6, <1>1 DEF Chain, Execute, Revert, Finalize, Reorg, Expire, CreditTrx, workerVars, dbVars
<1>7. CASE UNCHANGED vars
  BY <1>7, <1>1 DEF vars, workerVars, dbVars, chainVars
<1>8. QED
  BY <1>2, <1>3, <1>4, <1>5, <1>6, <1>7 DEF Next

\* No deposit is submitted to the chain twice, although calls to the node fail, processes
\* crash and several of them work on the queue: what that needs is that every answer
\* arrives. A transfer that was taken without an answer, or a database that fails after
\* it, sends the job back to the queue.
THEOREM OneTransferTheorem ==
  ASSUME Faults \subseteq {"chain", "crash"}
  PROVE  Spec => []OneTransferPerDeposit
<1>1. Consistent /\ Locked /\ [Next]_vars => Locked'
  BY LockedStep
<1>2. Consistent /\ Locked /\ Unsent /\ [Next]_vars => Unsent'
  BY UnsentStep
<1>3. Unsent => OneTransferPerDeposit
  BY DEF Unsent
<1>4. QED
  BY <1>1, <1>2, <1>3, LockedInit, UnsentInit, ConsistentInvariant, PTL DEF Spec

----------------------------------------------------------------------------
(* Sweep implements SweepLedger *)

\* Nothing is decided and nothing is in the book at the start.
LEMMA LedgerInit == Init => Ledger!Init
  BY DEF Init, Ledger!Init, Outcome, Book

\* Steps that touch neither the rows nor the outcomes are stutters.
LEMMA SameLedger ==
  ASSUME UNCHANGED sweepLog, UNCHANGED Outcome
  PROVE  UNCHANGED Ledger!vars
  BY DEF Ledger!vars, Book

\* Only Finalize decides an outcome.
LEMMA SameOutcome ==
  ASSUME Consistent,
         \/ UNCHANGED tx
         \/ \E h \in TxHash : Execute(h) \/ Revert(h) \/ Reorg(h) \/ Expire(h)
         \/ \E i \in Instances, h \in TxHash : SendToken(i, h)
  PROVE  UNCHANGED Outcome
<1>1. CASE UNCHANGED tx
  BY <1>1 DEF Outcome
<1>2. ASSUME NEW h \in TxHash, Execute(h) \/ Revert(h) \/ Reorg(h) \/ Expire(h)
      PROVE  UNCHANGED Outcome
  <2>1. h \in DOMAIN tx /\ ~tx[h].final
    BY <1>2 DEF Execute, Revert, Reorg, Expire, Consistent, FinalIsDecided
  <2>2. \E st \in {"pool", "ok", "failed", "expired"} : tx' = [tx EXCEPT ![h].st = st]
    BY <1>2 DEF Execute, Revert, Reorg, Expire
  <2>3. /\ DOMAIN tx' = DOMAIN tx /\ ~tx'[h].final
        /\ \A g \in DOMAIN tx : g # h => tx'[g] = tx[g]
    BY <2>1, <2>2 DEF Consistent, TypeOK, Transfer
  <2>4. QED
    BY <2>1, <2>3 DEF Outcome
<1>3. ASSUME NEW i \in Instances, NEW h \in TxHash, SendToken(i, h)
      PROVE  UNCHANGED Outcome
  BY <1>3 DEF SendToken, Put, Outcome
<1>4. QED
  BY <1>1, <1>2, <1>3

\* Every step is an Enter, a Close or a Decide of the ledger, or a stutter.
LEMMA LedgerStep ==
  ASSUME Consistent, [Next]_vars
  PROVE  [Ledger!Next]_(Ledger!vars)
<1>1. CASE UNCHANGED sweepLog /\ UNCHANGED Outcome
  BY <1>1, SameLedger
<1>2. ASSUME NEW i \in Instances, LogBroadcast(i) PROVE Ledger!Next
  <2>1. UNCHANGED Outcome
    BY <1>2, SameOutcome DEF LogBroadcast, chainVars
  <2>2. hash[i] \in TxHash /\ hash[i] \notin DOMAIN sweepLog
    BY <1>2 DEF LogBroadcast, Consistent, AboutToLog, TypeOK
  <2>3. Book' = [Book EXCEPT ![hash[i]] = "open"]
    BY <2>2, <1>2 DEF LogBroadcast, Put, Book
  <2>4. Ledger!Enter(hash[i])
    BY <2>1, <2>2, <2>3 DEF Ledger!Enter, Book
  <2>5. QED
    BY <2>2, <2>4 DEF Ledger!Next
<1>3. ASSUME NEW i \in Instances, NEW h \in TxHash, ConfirmSweep(i, h) \/ FailSweep(i, h)
      PROVE  [Ledger!Next]_(Ledger!vars)
  <2>1. UNCHANGED Outcome
    BY <1>3, SameOutcome DEF ConfirmSweep, FailSweep, chainVars
  <2>2. h \in DOMAIN sweepLog /\ h \in DOMAIN tx /\ tx[h].final
    BY <1>3 DEF ConfirmSweep, FailSweep, Consistent, DecidedRows
  <2>3. CASE sweepLog[h].status # "BROADCASTED"
    BY <2>1, <2>3, <1>3, SameLedger DEF ConfirmSweep, FailSweep, Settle
  <2>4. CASE sweepLog[h].status = "BROADCASTED"
    <3>1. PICK status \in {"CONFIRMED", "FAILED"} :
             /\ sweepLog' = [sweepLog EXCEPT ![h].status = status]
             /\ status = "CONFIRMED" <=> tx[h].st = "ok"
      BY <2>2, <2>4, <1>3 DEF ConfirmSweep, FailSweep, Settle
    <3>2. DOMAIN sweepLog' = DOMAIN sweepLog /\ sweepLog'[h].status = status
      BY <3>1, <2>2 DEF Consistent, TypeOK, Row
    <3>3. \A g \in DOMAIN sweepLog : g # h => sweepLog'[g] = sweepLog[g]
      BY <3>1, <2>2 DEF Consistent, TypeOK, Row
    <3>4. Book' = [Book EXCEPT ![h] = Outcome[h]]
      BY <3>1, <3>2, <3>3, <2>2 DEF Book, Outcome
    <3>5. Book[h] = "open" /\ Outcome[h] # "open"
      BY <2>2, <2>4 DEF Book, Outcome
    <3>6. Ledger!Close(h)
      BY <2>1, <3>4, <3>5 DEF Ledger!Close
    <3>7. QED
      BY <3>6 DEF Ledger!Next
  <2>5. QED
    BY <2>3, <2>4
<1>4. ASSUME NEW h \in TxHash, Finalize(h) PROVE Ledger!Next
  <2>1. UNCHANGED Book
    BY <1>4 DEF Finalize, Book, dbVars
  <2>2. /\ DOMAIN tx' = DOMAIN tx /\ h \in DOMAIN tx /\ ~tx[h].final
        /\ tx'[h].final /\ tx'[h].st = tx[h].st
        /\ \A g \in DOMAIN tx : g # h => tx'[g] = tx[g]
    BY <1>4 DEF Finalize, Consistent, TypeOK, Transfer
  <2>3. /\ Outcome[h] = "open"
        /\ Outcome' = [Outcome EXCEPT ![h] = IF tx[h].st = "ok" THEN "paid" ELSE "void"]
    BY <2>2 DEF Outcome
  <2>4. Ledger!Decide(h)
    BY <2>1, <2>3 DEF Ledger!Decide
  <2>5. QED
    BY <2>4 DEF Ledger!Next
<1>5. CASE \E d \in Deposits : Pay(d) \/ QueueSweep(d)
  BY <1>5, <1>1, SameOutcome DEF Pay, QueueSweep, chainVars
<1>6. ASSUME NEW i \in Instances, SweepWorker(i) PROVE [Ledger!Next]_(Ledger!vars)
  BY <1>6, <1>1, <1>2, SameOutcome
  DEF SweepWorker, FetchJobs, LockJob, MissLock, CheckTerminal, CheckBroadcast,
      ReadTrx, ReadToken, LogSkipped, SendRefill, LogRefill, Broadcast, FinishJob,
      ReleaseJob, chainVars, dbVars
<1>7. ASSUME NEW i \in Instances, ConfirmWorker(i) PROVE [Ledger!Next]_(Ledger!vars)
  BY <1>7, <1>1, <1>3, SameOutcome DEF ConfirmWorker, FetchBroadcasts, DropJob, chainVars, dbVars
<1>8. ASSUME NEW i \in Instances, Failure(i) PROVE [Ledger!Next]_(Ledger!vars)
  BY <1>8, <1>1, SameOutcome
  DEF Failure, ChainFails, RefillAckLost, BroadcastAckLost, ConfirmFails, DbFails,
      ReleaseFails, Crash, LockFails, chainVars, dbVars
<1>9. CASE Chain
  <2>1. ASSUME NEW h \in TxHash, Execute(h) \/ Revert(h) \/ Reorg(h) \/ Expire(h)
        PROVE  [Ledger!Next]_(Ledger!vars)
    BY <2>1, <1>1, SameOutcome DEF Execute, Revert, Reorg, Expire, dbVars
  <2>2. ASSUME NEW w \in Wallets, CreditTrx(w) PROVE [Ledger!Next]_(Ledger!vars)
    BY <2>2, <1>1, SameOutcome DEF CreditTrx, dbVars
  <2>3. QED
    BY <1>9, <2>1, <2>2, <1>4 DEF Chain
<1>10. CASE UNCHANGED vars
  BY <1>10, <1>1, SameOutcome DEF vars, chainVars, dbVars
<1>11. QED
  BY <1>5, <1>6, <1>7, <1>8, <1>9, <1>10 DEF Next

\* SweepLog takes a transfer up once and closes it with the outcome the
\* chain has decided, and no other, whatever fails.
THEOREM RefinementTheorem == Spec => RefinesLedger
<1>1. Consistent /\ [Next]_vars => [Ledger!Next]_(Ledger!vars)
  BY LedgerStep
<1>2. QED
  BY <1>1, LedgerInit, ConsistentInvariant, PTL DEF Spec, RefinesLedger, Ledger!Spec

----------------------------------------------------------------------------
(* Sweep implements SweepQueue: the half that takes jobs and drops them *)

Confirmed == {d \in Deposits : deposit[d] = "CONFIRMED"}
Queue == [d \in Deposits |->
  IF job[d] # "none" THEN "queued" ELSE IF deposit[d] = "CONFIRMED" THEN "gone" ELSE "none"]

JobQueue == INSTANCE SweepQueue WITH confirmed <- Confirmed, queue <- Queue

\* A job is never there without the confirmation.
JobOfConfirmed == \A d \in Deposits : job[d] # "none" => deposit[d] = "CONFIRMED"

\* No deposit and no job at the start.
LEMMA QueueInit == Init => JobQueue!Init /\ JobOfConfirmed
  BY DEF Init, JobQueue!Init, JobOfConfirmed, Confirmed, Queue

\* A lock, its release or a miss keeps the job: nothing happens to the queue.
LEMMA JobStays ==
  ASSUME TypeOK, JobOfConfirmed, Confirmed' = Confirmed,
         deposit' \in [Deposits -> {"unseen", "onchain", "CONFIRMED"}],
         \/ UNCHANGED job
         \/ \E d \in Deposits, state \in {"PENDING", "PROCESSING"} :
              job[d] # "none" /\ job' = [job EXCEPT ![d] = state]
  PROVE  JobOfConfirmed' /\ UNCHANGED JobQueue!vars
<1>1. \A d \in Deposits : deposit'[d] = "CONFIRMED" <=> deposit[d] = "CONFIRMED"
  BY DEF Confirmed
<1>2. job' \in [Deposits -> {"none", "PENDING", "PROCESSING"}]
      /\ \A d \in Deposits : job'[d] = "none" <=> job[d] = "none"
  BY DEF TypeOK
<1>3. Queue' = Queue
  BY <1>1, <1>2 DEF Queue
<1>4. QED
  BY <1>1, <1>2, <1>3 DEF JobOfConfirmed, JobQueue!vars

\* A job that is deleted leaves the queue, unless another worker has deleted it.
LEMMA JobGoes ==
  ASSUME TypeOK, JobOfConfirmed, NEW d \in Deposits,
         job' = [job EXCEPT ![d] = "none"], UNCHANGED deposit
  PROVE  JobOfConfirmed' /\ [JobQueue!Next]_(JobQueue!vars)
<1>1. JobOfConfirmed'
  BY DEF TypeOK, JobOfConfirmed
<1>2. UNCHANGED Confirmed
  BY DEF Confirmed
<1>3. CASE job[d] = "none"
  <2>1. job' = job
    BY <1>3 DEF TypeOK
  <2>2. QED
    BY <1>1, <1>2, <2>1 DEF Queue, JobQueue!vars
<1>4. CASE job[d] # "none"
  <2>1. Queue[d] = "queued" /\ Queue' = [Queue EXCEPT ![d] = "gone"]
    BY <1>4 DEF Queue, TypeOK, JobOfConfirmed
  <2>2. JobQueue!Leave(d)
    BY <1>2, <2>1 DEF JobQueue!Leave
  <2>3. QED
    BY <1>1, <2>2 DEF JobQueue!Next
<1>5. QED
  BY <1>3, <1>4

\* Every step queues, drops or leaves alone.
LEMMA QueueStep ==
  ASSUME Consistent, JobOfConfirmed, [Next]_vars
  PROVE  JobOfConfirmed' /\ [JobQueue!Next]_(JobQueue!vars)
<1> DEFINE Goal == JobOfConfirmed' /\ [JobQueue!Next]_(JobQueue!vars)
<1>0. TypeOK /\ HasDeposit
  BY DEF Consistent
<1>1. CASE UNCHANGED <<deposit, job>>
  BY <1>0, <1>1, JobStays DEF Confirmed, TypeOK
<1>2. ASSUME NEW d \in Deposits, Pay(d) PROVE Goal
  <2>1. deposit[d] = "unseen" /\ deposit' = [deposit EXCEPT ![d] = "onchain"] /\ job' = job
    BY <1>2 DEF Pay
  <2>2. Confirmed' = Confirmed
    BY <1>0, <2>1 DEF Confirmed, TypeOK
  <2>3. deposit' \in [Deposits -> {"unseen", "onchain", "CONFIRMED"}]
    BY <1>0, <2>1 DEF TypeOK
  <2>4. QED
    BY <1>0, <2>1, <2>2, <2>3, JobStays
<1>3. ASSUME NEW d \in Deposits, QueueSweep(d) PROVE Goal
  <2>1. /\ deposit[d] = "onchain" /\ deposit' = [deposit EXCEPT ![d] = "CONFIRMED"]
        /\ job[d] = "none" /\ job' = [job EXCEPT ![d] = "PENDING"]
    BY <1>0, <1>3 DEF QueueSweep, JobOfConfirmed, TypeOK
  <2>2. JobOfConfirmed'
    BY <1>0, <2>1 DEF JobOfConfirmed, TypeOK
  <2>3. d \notin Confirmed /\ Confirmed' = Confirmed \cup {d}
    BY <1>0, <2>1 DEF Confirmed, TypeOK
  <2>4. Queue' = [Queue EXCEPT ![d] = "queued"]
    BY <1>0, <2>1 DEF Queue, TypeOK
  <2>5. JobQueue!Confirm(d)
    BY <2>3, <2>4 DEF JobQueue!Confirm
  <2>6. QED
    BY <2>2, <2>5 DEF JobQueue!Next
<1>4. ASSUME NEW i \in Instances, NEW d \in Deposits, LockJob(i, d) PROVE Goal
  BY <1>0, <1>4, JobStays DEF LockJob, Confirmed, TypeOK
<1>5. ASSUME NEW i \in Instances, ReleaseJob(i) PROVE Goal
  <2>1. at[i] \in Deposits /\ UNCHANGED deposit
    BY <1>0, <1>5 DEF ReleaseJob, HasDeposit, Holding
  <2>2. \/ job' = job
        \/ job[at[i]] # "none" /\ job' = [job EXCEPT ![at[i]] = "PENDING"]
    BY <1>0, <1>5, <2>1 DEF ReleaseJob, TypeOK
  <2>3. QED
    BY <1>0, <2>1, <2>2, JobStays DEF Confirmed, TypeOK
<1>6. ASSUME NEW i \in Instances, FinishJob(i) PROVE Goal
  <2>1. at[i] \in Deposits
    BY <1>0, <1>6 DEF FinishJob, HasDeposit, Holding
  <2>2. QED
    BY <1>0, <1>6, <2>1, JobGoes DEF FinishJob
<1>7. ASSUME NEW i \in Instances, NEW h \in TxHash, ConfirmSweep(i, h) PROVE Goal
  <2>1. h \in DOMAIN sweepLog /\ sweepLog[h].dep \in Deposits
    BY <1>0, <1>7 DEF ConfirmSweep, Consistent, DecidedRows, TypeOK, Row
  <2>2. QED
    BY <1>0, <1>1, <1>7, <2>1, JobGoes DEF ConfirmSweep
<1>8. ASSUME NEW i \in Instances, DropJob(i) PROVE Goal
  <2>1. dropping[i] \in DOMAIN sweepLog /\ sweepLog[dropping[i]].dep \in Deposits
    BY <1>0, <1>8 DEF DropJob, Consistent, DecidedRows, TypeOK, Row
  <2>2. QED
    BY <1>0, <1>8, <2>1, JobGoes DEF DropJob
<1>9. ASSUME NEW i \in Instances, SweepWorker(i) PROVE Goal
  BY <1>9, <1>1, <1>4, <1>5, <1>6
  DEF SweepWorker, FetchJobs, MissLock, CheckTerminal, CheckBroadcast, ReadTrx, ReadToken,
      LogSkipped, SendRefill, LogRefill, Broadcast, LogBroadcast, dbVars
<1>10. ASSUME NEW i \in Instances, ConfirmWorker(i) PROVE Goal
  BY <1>10, <1>1, <1>7, <1>8 DEF ConfirmWorker, FetchBroadcasts, FailSweep, dbVars
<1>11. ASSUME NEW i \in Instances, Failure(i) PROVE Goal
  BY <1>11, <1>1
  DEF Failure, ChainFails, RefillAckLost, BroadcastAckLost, ConfirmFails, DbFails,
      ReleaseFails, Crash, LockFails, dbVars
<1>12. CASE Chain
  BY <1>12, <1>1 DEF Chain, Execute, Revert, Finalize, Reorg, Expire, CreditTrx, dbVars
<1>13. CASE UNCHANGED vars
  BY <1>13, <1>1 DEF vars, dbVars
<1>14. QED
  BY <1>2, <1>3, <1>9, <1>10, <1>11, <1>12, <1>13 DEF Next

\* A sweep that has left the queue does not come back, whatever fails, whoever releases
\* whose lock and whichever worker deletes the job: what DepositConfirm assumes of
\* SweepWorker, of which it has the outcomes only (its action Sweep).
THEOREM LeavesTheorem == Spec => JobQueue!Spec
<1>1. Consistent /\ JobOfConfirmed /\ [Next]_vars
        => JobOfConfirmed' /\ [JobQueue!Next]_(JobQueue!vars)
  BY QueueStep
<1>2. QED
  BY <1>1, QueueInit, ConsistentInvariant, PTL DEF Spec, JobQueue!Spec
----------------------------------------------------------------------------
(* A confirmed sweep is the end of its job, whatever fails *)

SweptIsDone ==
  \A h \in DOMAIN sweepLog : sweepLog[h].status = "CONFIRMED" => job[sweepLog[h].dep] = "none"

\* Whatever a worker fetches, holds or records is about a confirmed deposit.
OnlyConfirmed ==
  /\ \A i \in Instances : batch[i] \subseteq Confirmed /\ (pc[i] \in Holding => at[i] \in Confirmed)
  /\ \A h \in DOMAIN sweepLog : sweepLog[h].dep \in Confirmed

\* It stays so: no deposit leaves CONFIRMED.
LEMMA OnlyConfirmedStep ==
  ASSUME Consistent, JobOfConfirmed, OnlyConfirmed, [Next]_vars
  PROVE  OnlyConfirmed'
<1> USE DEF Holding, OnlyConfirmed
<1>0. TypeOK /\ HasDeposit /\ DecidedRows
  BY DEF Consistent
<1>1. ASSUME UNCHANGED <<sweepLog, pc, batch, at>>, Confirmed \subseteq Confirmed' PROVE OnlyConfirmed'
  BY <1>1
<1>2. CASE UNCHANGED <<deposit, sweepLog, pc, batch, at>>
  BY <1>2, <1>1 DEF Confirmed
<1>3. ASSUME NEW d \in Deposits, Pay(d) \/ QueueSweep(d) PROVE OnlyConfirmed'
  BY <1>0, <1>1, <1>3 DEF Pay, QueueSweep, Confirmed, TypeOK, workerVars
<1>4. ASSUME NEW i \in Instances, SweepWorker(i) \/ Failure(i), UNCHANGED <<deposit, sweepLog>>,
             batch' \in [Instances -> SUBSET Confirmed],
             \A j \in Instances : pc'[j] \in Holding => at'[j] \in Confirmed
      PROVE  OnlyConfirmed'
  BY <1>4 DEF Confirmed
<1>5. ASSUME NEW i \in Instances, SweepWorker(i) PROVE OnlyConfirmed'
  <2> USE DEF TypeOK
  <2>1. CASE FetchJobs(i)
    BY <1>0, <1>4, <1>5, <2>1 DEF FetchJobs, Goto, JobOfConfirmed, Confirmed, dbVars
  <2>2. ASSUME NEW d \in Deposits, LockJob(i, d) \/ MissLock(i, d) PROVE OnlyConfirmed'
    BY <1>0, <1>4, <1>5, <2>2 DEF LockJob, MissLock, LeaveJob, Goto, dbVars
  <2>3. CASE \/ CheckTerminal(i) \/ CheckBroadcast(i) \/ ReadTrx(i) \/ ReadToken(i)
             \/ LogSkipped(i) \/ SendRefill(i) \/ LogRefill(i) \/ \E h \in TxHash : Broadcast(i, h)
    BY <1>0, <1>4, <1>5, <2>3
    DEF CheckTerminal, CheckBroadcast, ReadTrx, ReadToken, LogSkipped, SendRefill, SendTrx,
        LogRefill, Broadcast, SendToken, Goto, dbVars
  <2>4. CASE LogBroadcast(i)
    <3>1. at[i] \in Confirmed /\ Confirmed' = Confirmed
      BY <2>4 DEF LogBroadcast, Confirmed
    <3>2. /\ DOMAIN sweepLog' = DOMAIN sweepLog \cup {hash[i]} /\ sweepLog'[hash[i]].dep = at[i]
          /\ \A g \in DOMAIN sweepLog : g # hash[i] => sweepLog'[g] = sweepLog[g]
      BY <2>4 DEF LogBroadcast, Put
    <3>3. \A h \in DOMAIN sweepLog' : sweepLog'[h].dep \in Confirmed'
      BY <3>1, <3>2
    <3>4. UNCHANGED <<batch, at>> /\ pc' = [pc EXCEPT ![i] = "finish"]
      BY <2>4 DEF LogBroadcast, Goto
    <3>5. QED
      BY <1>0, <3>1, <3>3, <3>4
  <2>5. CASE FinishJob(i) \/ ReleaseJob(i)
    BY <1>0, <1>4, <1>5, <2>5 DEF FinishJob, ReleaseJob, LeaveJob
  <2>6. QED
    BY <1>5, <2>1, <2>2, <2>3, <2>4, <2>5 DEF SweepWorker
<1>6. ASSUME NEW i \in Instances, NEW h \in TxHash, ConfirmSweep(i, h) \/ FailSweep(i, h)
      PROVE  OnlyConfirmed'
  <2>1. h \in DOMAIN sweepLog
    BY <1>0, <1>6 DEF ConfirmSweep, FailSweep, DecidedRows
  <2>2. /\ DOMAIN sweepLog' = DOMAIN sweepLog
        /\ \A g \in DOMAIN sweepLog : sweepLog'[g].dep = sweepLog[g].dep
    BY <1>0, <1>6, <2>1 DEF ConfirmSweep, FailSweep, Settle, TypeOK, Row
  <2>3. UNCHANGED <<deposit, pc, batch, at>>
    BY <1>6 DEF ConfirmSweep, FailSweep, workerVars
  <2>4. QED
    BY <2>2, <2>3 DEF Confirmed
<1>7. ASSUME NEW i \in Instances, ConfirmWorker(i) PROVE OnlyConfirmed'
  BY <1>7, <1>2, <1>6 DEF ConfirmWorker, DropJob, FetchBroadcasts, workerVars, dbVars
<1>8. ASSUME NEW i \in Instances, Failure(i) PROVE OnlyConfirmed'
  <2> USE DEF TypeOK
  <2>1. CASE \/ ChainFails(i) \/ RefillAckLost(i) \/ DbFails(i)
             \/ \E h \in TxHash : BroadcastAckLost(i, h)
    BY <1>0, <1>4, <1>8, <2>1
    DEF ChainFails, RefillAckLost, SendTrx, DbFails, BroadcastAckLost, SendToken, Goto, dbVars
  <2>2. CASE ReleaseFails(i) \/ Crash(i)
    BY <1>0, <1>4, <1>8, <2>2 DEF ReleaseFails, Crash, LeaveJob, dbVars
  <2>3. ASSUME NEW d \in Deposits, LockFails(i, d) PROVE OnlyConfirmed'
    BY <1>0, <1>4, <1>8, <2>3 DEF LockFails, Goto, dbVars
  <2>4. ASSUME NEW h \in TxHash, ConfirmFails(i, h) PROVE OnlyConfirmed'
    BY <1>2, <2>4 DEF ConfirmFails, workerVars, dbVars
  <2>5. QED
    BY <1>8, <2>1, <2>2, <2>3, <2>4 DEF Failure
<1>9. CASE Chain \/ UNCHANGED vars
  BY <1>9, <1>2 DEF Chain, Execute, Revert, Finalize, Reorg, Expire, CreditTrx, vars, workerVars, dbVars
<1>10. QED
  BY <1>3, <1>5, <1>7, <1>8, <1>9 DEF Next

\* A job that is gone stays gone, and only ConfirmSweep confirms, with its job.
LEMMA SweptStep ==
  ASSUME Consistent, JobOfConfirmed, OnlyConfirmed, SweptIsDone, [Next]_vars
  PROVE  SweptIsDone'
<1>0. TypeOK /\ HasDeposit /\ DecidedRows /\ \A h \in DOMAIN sweepLog : sweepLog[h] \in Row
  BY DEF Consistent, TypeOK
<1>1. ASSUME UNCHANGED sweepLog, \A d \in Confirmed : job[d] = "none" => job'[d] = "none"
      PROVE  SweptIsDone'
  BY <1>1 DEF SweptIsDone, OnlyConfirmed
<1>2. CASE UNCHANGED <<sweepLog, job>>
  BY <1>1, <1>2
<1>3. ASSUME NEW d \in Deposits, Pay(d) \/ QueueSweep(d) PROVE SweptIsDone'
  BY <1>0, <1>1, <1>3 DEF Pay, QueueSweep, Confirmed, TypeOK
<1>4. ASSUME NEW i \in Instances, SweepWorker(i) PROVE SweptIsDone'
  <2>1. CASE LogBroadcast(i)
    <3>1. /\ DOMAIN sweepLog' = DOMAIN sweepLog \cup {hash[i]} /\ UNCHANGED job
          /\ sweepLog'[hash[i]].status = "BROADCASTED"
          /\ \A g \in DOMAIN sweepLog : g # hash[i] => sweepLog'[g] = sweepLog[g]
      BY <2>1 DEF LogBroadcast, Put
    <3>2. QED
      BY <3>1 DEF SweptIsDone
  <2>2. CASE FinishJob(i) \/ ReleaseJob(i)
    BY <1>0, <1>1, <2>2 DEF FinishJob, ReleaseJob, HasDeposit, Holding, TypeOK, Confirmed
  <2>3. ASSUME NEW d \in Deposits, LockJob(i, d) PROVE SweptIsDone'
    BY <1>0, <1>1, <2>3 DEF LockJob, TypeOK, Confirmed
  <2>4. QED
    BY <1>2, <1>4, <2>1, <2>2, <2>3
    DEF SweepWorker, FetchJobs, MissLock, CheckTerminal, CheckBroadcast, ReadTrx, ReadToken,
        LogSkipped, SendRefill, LogRefill, Broadcast, dbVars
<1>5. ASSUME NEW i \in Instances, NEW h \in TxHash, ConfirmSweep(i, h) PROVE SweptIsDone'
  <2>1. h \in DOMAIN sweepLog /\ sweepLog[h].dep \in Deposits
    BY <1>0, <1>5 DEF ConfirmSweep, DecidedRows, Row
  <2>2. CASE sweepLog[h].status = "BROADCASTED"
    <3>1. /\ sweepLog' = [sweepLog EXCEPT ![h].status = "CONFIRMED"]
          /\ job' = [job EXCEPT ![sweepLog[h].dep] = "none"]
      BY <1>5, <2>2 DEF ConfirmSweep, Settle
    <3>2. /\ DOMAIN sweepLog' = DOMAIN sweepLog /\ sweepLog'[h].dep = sweepLog[h].dep
          /\ \A g \in DOMAIN sweepLog : g # h => sweepLog'[g] = sweepLog[g]
      BY <1>0, <2>1, <3>1 DEF Row
    <3>3. /\ job'[sweepLog[h].dep] = "none"
          /\ \A d \in Deposits : job[d] = "none" => job'[d] = "none"
      BY <1>0, <2>1, <3>1 DEF TypeOK
    <3>4. QED
      BY <1>0, <3>2, <3>3 DEF SweptIsDone, Row
  <2>3. CASE sweepLog[h].status # "BROADCASTED"
    BY <1>2, <1>5, <2>3 DEF ConfirmSweep, Settle
  <2>4. QED
    BY <2>2, <2>3
<1>6. ASSUME NEW i \in Instances, NEW h \in TxHash, FailSweep(i, h) PROVE SweptIsDone'
  <2>1. h \in DOMAIN sweepLog /\ UNCHANGED job
    BY <1>0, <1>6 DEF FailSweep, DecidedRows
  <2>2. /\ DOMAIN sweepLog' = DOMAIN sweepLog
        /\ \A g \in DOMAIN sweepLog : sweepLog'[g].status = "CONFIRMED" => sweepLog'[g] = sweepLog[g]
    BY <1>0, <1>6, <2>1 DEF FailSweep, Settle, Row
  <2>3. QED
    BY <2>1, <2>2 DEF SweptIsDone
<1>7. ASSUME NEW i \in Instances, DropJob(i) PROVE SweptIsDone'
  BY <1>0, <1>1, <1>7 DEF DropJob, TypeOK, Confirmed
<1>8. ASSUME NEW i \in Instances, ConfirmWorker(i) PROVE SweptIsDone'
  BY <1>2, <1>5, <1>6, <1>7, <1>8 DEF ConfirmWorker, FetchBroadcasts, dbVars
<1>9. ASSUME NEW i \in Instances, Failure(i) PROVE SweptIsDone'
  BY <1>2, <1>9
  DEF Failure, ChainFails, RefillAckLost, BroadcastAckLost, ConfirmFails, DbFails, ReleaseFails,
      Crash, LockFails, dbVars
<1>10. CASE Chain \/ UNCHANGED vars
  BY <1>10, <1>2 DEF Chain, Execute, Revert, Finalize, Reorg, Expire, CreditTrx, vars, dbVars
<1>11. QED
  BY <1>3, <1>4, <1>8, <1>9, <1>10 DEF Next

\* A deposit whose sweep is CONFIRMED has no job any more and gets none, whatever fails: the
\* job that a crash has left PROCESSING goes with the confirmation, and a release that comes
\* late does not bring it back. So a second sweep of a deposit (run sweep_twice) has its job
\* taken before the first one is confirmed.
THEOREM DoneTheorem == Spec => []SweptIsDone
<1>1. Init => OnlyConfirmed /\ SweptIsDone
  BY DEF Init, OnlyConfirmed, SweptIsDone, Holding
<1>2. Consistent /\ JobOfConfirmed /\ OnlyConfirmed /\ SweptIsDone /\ [Next]_vars
        => JobOfConfirmed' /\ OnlyConfirmed' /\ SweptIsDone'
  BY QueueStep, OnlyConfirmedStep, SweptStep
<1>3. QED
  BY <1>1, <1>2, QueueInit, ConsistentInvariant, PTL DEF Spec
=============================================================================
