-------------------------- MODULE DepositScanProofs --------------------------
(***************************************************************************)
(* Proofs about DepositScan, for any transfers, chains, event services and  *)
(* failures.  That no transfer is missed takes one assumption, which its    *)
(* runs make by their constants: no transaction pays two wallets.           *)
(***************************************************************************)
EXTENDS DepositScan, TLAPS

OneTransferPerTx == \A t, u \in Transfers : TxOf[t] = TxOf[u] => t = u

\* A first start never lies behind the one before.
FirstIsBehind == Lookback <= head /\ first <= head - Lookback

\* Where the loop stands: the block in hand follows the cursor, and the
\* target of the cycle was SafetyBuffer blocks behind the chain.
InLoop ==
  /\ pc \in {"fetch", "events"} => block = cursor + 1
  /\ pc = "save" => block = cursor
  /\ pc \in {"fetch", "events", "save"} =>
       block <= maxBlock /\ maxBlock <= head - SafetyBuffer

\* The transfers of the block in hand are accounted for or still to come.
BlockInHand ==
  pc = "events" => \A t \in Transfers : BlockOf[t] = block => t \in events \cup Accounted

Sound ==
  /\ TypeOK /\ FirstIsBehind /\ InLoop /\ BlockInHand
  /\ EveryTransferHandled /\ FileBehindTable

\* The base case: nothing is scanned yet.
LEMMA SoundInit == Init => Sound
  BY ScanAssumption
  DEF Init, Sound, TypeOK, FirstIsBehind, InLoop, BlockInHand,
      EveryTransferHandled, FileBehindTable

\* A step that leaves rows, file and cursor alone keeps what is said of them.
LEMMA SameTable ==
  ASSUME Sound, UNCHANGED <<deposits, lost, unseen, file, cursor, first>>
  PROVE  EveryTransferHandled' /\ FileBehindTable'
  BY DEF Sound, EveryTransferHandled, FileBehindTable, Accounted

\* Going on with the next block keeps the place in the loop.
LEMMA NextBlockInLoop ==
  ASSUME Sound, pc = "save", NextBlock, UNCHANGED <<head, cursor, maxBlock>>
  PROVE  InLoop' /\ block' \in Nat /\ pc' \in {"fetch", "idle"}
  BY ScanAssumption DEF Sound, TypeOK, InLoop, NextBlock

\* Every step of the worker, of a failure or of the chain keeps it.
LEMMA SoundStep ==
  ASSUME OneTransferPerTx, Sound, [Next]_vars
  PROVE  Sound'
<1> USE ScanAssumption DEF Sound, TypeOK, loopVars, Accounted
<1>1. CASE NewBlock
  BY <1>1, SameTable DEF NewBlock, FirstIsBehind, InLoop, BlockInHand
<1>2. CASE Start
  <2>1. cursor' = ResumePoint /\ cursor' \in Nat /\ first' \in Nat
    BY <1>2 DEF Start, ResumePoint, Resumes, FirstIsBehind
  <2>2. CASE Resumes
    BY <1>2, <2>1, <2>2
    DEF Start, ResumePoint, Resumes, FirstIsBehind, InLoop, BlockInHand,
        EveryTransferHandled, FileBehindTable
  <2>3. CASE ~Resumes
    BY <1>2, <2>1, <2>3
    DEF Start, ResumePoint, FirstIsBehind, InLoop, BlockInHand,
        EveryTransferHandled, FileBehindTable
  <2>4. QED
    BY <2>2, <2>3
<1>3. CASE BeginCycle
  BY <1>3, SameTable DEF BeginCycle, Least, FirstIsBehind, InLoop, BlockInHand
<1>4. CASE FetchEvents
  <2>1. /\ unseen \subseteq unseen' /\ unseen' \subseteq Transfers /\ events' \subseteq Transfers
        /\ \A t \in Transfers : BlockOf[t] = block => t \in events' \cup unseen'
        /\ UNCHANGED <<head, deposits, file, cursor, first, lost, block, maxBlock, faults>>
        /\ pc = "fetch" /\ pc' = "events"
    BY <1>4 DEF FetchEvents
  <2>2. BlockInHand'
    BY <2>1 DEF BlockInHand
  <2>3. EveryTransferHandled' /\ FileBehindTable'
    BY <2>1 DEF EveryTransferHandled, FileBehindTable
  <2>4. QED
    BY <2>1, <2>2, <2>3 DEF FirstIsBehind, InLoop
<1>5. ASSUME NEW t \in Transfers, HandleEvent(t) \/ EventFails(t) PROVE Sound'
  <2>1. /\ deposits \subseteq deposits' /\ lost \subseteq lost'
        /\ deposits' \subseteq Transfers /\ lost' \subseteq Transfers
        /\ t \in deposits' \cup lost' /\ unseen' = unseen \ {t}
        /\ events' = events \ {t} /\ faults' \in Nat
        /\ UNCHANGED <<head, file, cursor, first, pc, block, maxBlock>>
    BY <1>5 DEF HandleEvent, EventFails, Fault, OneTransferPerTx
  <2>2. QED
    BY <2>1
    DEF FirstIsBehind, InLoop, BlockInHand, EveryTransferHandled, FileBehindTable
<1>6. CASE CommitMemory
  <2>1. EveryTransferHandled'
    BY <1>6 DEF CommitMemory, InLoop, BlockInHand, EveryTransferHandled
  <2>2. QED
    BY <1>6, <2>1 DEF CommitMemory, FirstIsBehind, InLoop, BlockInHand, FileBehindTable
<1>7. CASE SaveFile
  BY <1>7, NextBlockInLoop
  DEF SaveFile, FirstIsBehind, BlockInHand, InLoop, EveryTransferHandled, FileBehindTable
<1>8. CASE InitFails \/ FetchFails
  BY <1>8, SameTable
  DEF InitFails, FetchFails, Fault, FirstIsBehind, InLoop, BlockInHand
<1>9. CASE SaveFails
  BY <1>9
  DEF SaveFails, Fault, FirstIsBehind, InLoop, BlockInHand, EveryTransferHandled,
      FileBehindTable
<1>10. CASE Crash \/ CrashWhileSaving
  BY <1>10
  DEF Crash, CrashWhileSaving, Down, Fault, FirstIsBehind, InLoop, BlockInHand,
      EveryTransferHandled, FileBehindTable
<1>11. CASE NothingToScan \/ UNCHANGED vars
  BY <1>11, SameTable
  DEF NothingToScan, vars, FirstIsBehind, InLoop, BlockInHand
<1>12. QED
  BY <1>1, <1>2, <1>3, <1>4, <1>5, <1>6, <1>7, <1>8, <1>9, <1>10, <1>11 DEF Next, Proceeds

\* What holds of table, file and cursor, in every reachable state.
THEOREM SoundInvariant ==
  ASSUME OneTransferPerTx
  PROVE  Spec => []Sound
<1>1. Sound /\ [Next]_vars => Sound'
  BY SoundStep
<1>2. QED
  BY <1>1, SoundInit, PTL DEF Spec

\* No block is skipped: a transfer the cursor has passed is stored, unless its
\* event failed or came too late, however often the worker is stopped and
\* started again.
THEOREM HandledTheorem ==
  ASSUME OneTransferPerTx
  PROVE  Spec => []EveryTransferHandled
<1>1. Sound => EveryTransferHandled
  BY DEF Sound
<1>2. QED
  BY <1>1, SoundInvariant, PTL

\* The cursor in the file never runs ahead of the table, but for transfers
\* whose event failed or came too late.
THEOREM FileTheorem ==
  ASSUME OneTransferPerTx
  PROVE  Spec => []FileBehindTable
<1>1. Sound => FileBehindTable
  BY DEF Sound
<1>2. QED
  BY <1>1, SoundInvariant, PTL

\* Nothing is passed over where storing an event does not fail, the failure
\* that run scan_event_lost makes happen.
NoEventFails == "event" \notin Faults

NothingLost == lost = {}

\* Only a failing event is ever passed over.
LEMMA NothingLostInvariant ==
  ASSUME NoEventFails
  PROVE  Spec => []NothingLost
<1>1. Init => NothingLost
  BY DEF Init, NothingLost
<1>2. NothingLost /\ [Next]_vars => NothingLost'
  <2> SUFFICES ASSUME NothingLost, [Next]_vars PROVE lost' = lost
    BY DEF NothingLost
  <2>1. ASSUME NEW t \in Transfers PROVE ~EventFails(t)
    BY DEF EventFails, Fault, NoEventFails
  <2>2. QED
    BY <2>1
    DEF Next, Proceeds, vars, NewBlock, Start, InitFails, BeginCycle, NothingToScan, FetchEvents,
        FetchFails, HandleEvent, CommitMemory, SaveFile, SaveFails, Crash, CrashWhileSaving, Down
<1>3. QED
  BY <1>1, <1>2, PTL DEF Spec

\* What the cursor has passed is in the table, or the event service did not
\* serve it when its block was scanned.
StoredOrUnseen ==
  \A t \in Transfers :
    first < BlockOf[t] /\ BlockOf[t] <= cursor => t \in deposits \cup unseen

\* There are two ways to lose a transfer: its event fails, as in run
\* scan_event_lost, or is served too late.  Blocks that cannot be fetched,
\* files that cannot be written or are torn, and crashes are none.
THEOREM StoredTheorem ==
  ASSUME OneTransferPerTx, NoEventFails
  PROVE  Spec => []StoredOrUnseen
<1>1. NothingLost /\ EveryTransferHandled => StoredOrUnseen
  BY DEF NothingLost, EveryTransferHandled, StoredOrUnseen, Accounted
<1>2. QED
  BY <1>1, NothingLostInvariant, HandledTheorem, PTL

\* Types do not need that assumption: only that the chain is Lookback blocks long.
Typed == TypeOK /\ Lookback <= head

LEMMA TypedStep == Typed /\ [Next]_vars => Typed'
<1> SUFFICES ASSUME Typed, [Next]_vars PROVE Typed'
  OBVIOUS
<1> USE ScanAssumption DEF Typed, TypeOK, loopVars, Fault
<1>1. CASE NewBlock \/ NothingToScan \/ UNCHANGED vars
  BY <1>1 DEF NewBlock, NothingToScan, vars
<1>2. CASE Start \/ InitFails
  BY <1>2 DEF Start, ResumePoint, Resumes, InitFails
<1>3. CASE BeginCycle
  BY <1>3 DEF BeginCycle, Least
<1>4. CASE FetchEvents \/ FetchFails
  BY <1>4 DEF FetchEvents, FetchFails
<1>5. ASSUME NEW t \in Transfers, HandleEvent(t) \/ EventFails(t) PROVE Typed'
  BY <1>5 DEF HandleEvent, EventFails
<1>6. CASE CommitMemory \/ SaveFile \/ SaveFails
  BY <1>6 DEF CommitMemory, SaveFile, NextBlock, SaveFails
<1>7. CASE Crash \/ CrashWhileSaving
  BY <1>7 DEF Crash, CrashWhileSaving, Down
<1>8. QED
  BY <1>1, <1>2, <1>3, <1>4, <1>5, <1>6, <1>7 DEF Next, Proceeds

\* The variables keep their types, across crashes and torn files.
THEOREM TypeCorrect == Spec => []TypeOK
<1>1. Init => Typed
  BY SoundInit DEF Sound, FirstIsBehind, Typed
<1>2. Typed => TypeOK
  BY DEF Typed
<1>3. QED
  BY <1>1, <1>2, TypedStep, PTL DEF Spec
-----------------------------------------------------------------------------
\* A transaction has one row at most.
OneRowPerTx == \A t, u \in deposits : TxOf[t] = TxOf[u] => t = u

\* A row, or an event still to be stored, is of a block SafetyBuffer deep.
Buried(t) == BlockOf[t] + SafetyBuffer <= head
RowsAreDeep == \A t \in deposits : Buried(t)

AllBuried == \A t \in deposits \cup events : Buried(t)

\* The file never names a block nearer to the head than a row may be.
FileIsDeep == file = -1 \/ file + SafetyBuffer <= head

Table == Typed /\ OneRowPerTx /\ InLoop /\ AllBuried /\ FileIsDeep

\* A step that stores nothing and fetches nothing keeps what is said of the rows.
LEMMA SameRows ==
  ASSUME Table, head' \in Nat, head' >= head, deposits' = deposits, events' \subseteq events
  PROVE  OneRowPerTx' /\ AllBuried'
<1>1. \A t \in deposits \cup events : BlockOf[t] \in Nat
  BY ScanAssumption DEF Table, Typed, TypeOK
<1>2. head \in Nat /\ SafetyBuffer \in Nat
  BY ScanAssumption DEF Table, Typed, TypeOK
<1>3. AllBuried'
  BY <1>1, <1>2 DEF Table, AllBuried, Buried
<1>4. QED
  BY <1>3 DEF Table, OneRowPerTx

\* Every step keeps it: the head only grows, and the cycle stays in its range.
LEMMA TableStep == Table /\ [Next]_vars => Table'
<1> SUFFICES ASSUME Table, [Next]_vars PROVE OneRowPerTx' /\ InLoop' /\ AllBuried' /\ FileIsDeep'
  BY TypedStep DEF Table
<1> USE ScanAssumption DEF InLoop, FileIsDeep, loopVars
<1>0. /\ Typed /\ OneRowPerTx /\ InLoop /\ AllBuried /\ FileIsDeep
      /\ file \in Nat \cup {-1}
      /\ head \in Nat /\ cursor \in Nat /\ block \in Nat /\ maxBlock \in Nat
      /\ deposits \subseteq Transfers /\ events \subseteq Transfers
  BY DEF Table, Typed, TypeOK
<1>1. CASE NewBlock
  BY <1>0, <1>1, SameRows DEF NewBlock
<1>2. CASE NothingToScan \/ UNCHANGED vars
  BY <1>0, <1>2, SameRows DEF NothingToScan, vars
<1>3. CASE Start \/ InitFails \/ FetchFails
  BY <1>0, <1>3, SameRows DEF Start, InitFails, FetchFails
<1>4. CASE BeginCycle
  BY <1>0, <1>4, SameRows DEF BeginCycle, Least
<1>5. CASE FetchEvents
  <2>1. \A t \in events' : t \in Transfers /\ BlockOf[t] = block
    BY <1>5 DEF FetchEvents
  <2>2. AllBuried'
    BY <1>0, <1>5, <2>1 DEF FetchEvents, AllBuried, Buried
  <2>3. QED
    BY <1>0, <1>5, <2>2 DEF FetchEvents, OneRowPerTx
<1>6. ASSUME NEW t \in Transfers, HandleEvent(t) PROVE OneRowPerTx' /\ InLoop' /\ AllBuried' /\ FileIsDeep'
  <2>1. OneRowPerTx'
    BY <1>0, <1>6 DEF HandleEvent, OneRowPerTx
  <2>2. AllBuried'
    BY <1>0, <1>6 DEF HandleEvent, AllBuried, Buried
  <2>3. QED
    BY <1>0, <1>6, <2>1, <2>2 DEF HandleEvent
<1>7. ASSUME NEW t \in Transfers, EventFails(t) PROVE OneRowPerTx' /\ InLoop' /\ AllBuried' /\ FileIsDeep'
  BY <1>0, <1>7, SameRows DEF EventFails
<1>8. CASE CommitMemory \/ SaveFails
  BY <1>0, <1>8, SameRows DEF CommitMemory, SaveFails
<1>9. CASE SaveFile
  BY <1>0, <1>9, SameRows DEF SaveFile, NextBlock
<1>10. CASE Crash \/ CrashWhileSaving
  BY <1>0, <1>10, SameRows DEF Crash, CrashWhileSaving, Down
<1>11. QED
  BY <1>1, <1>2, <1>3, <1>4, <1>5, <1>6, <1>7, <1>8, <1>9, <1>10 DEF Next, Proceeds

\* In every reachable state.
LEMMA TableInvariant == Spec => []Table
<1>1. Init => Table
  BY SoundInit
  DEF Sound, FirstIsBehind, Init, Table, Typed, OneRowPerTx, InLoop, AllBuried, FileIsDeep
<1>2. QED
  BY <1>1, TableStep, PTL DEF Spec

\* What stands in the table, also where a transaction pays two wallets or the event
\* service is late: one row of a transaction, and none of a block that is not SafetyBuffer
\* deep, however often the worker resumes. So DepositConfirm detects a payment (Detect).
THEOREM TableTheorem == Spec => [](OneRowPerTx /\ RowsAreDeep)
<1>1. Table => OneRowPerTx /\ RowsAreDeep
  BY DEF Table, AllBuried, RowsAreDeep
<1>2. QED
  BY <1>1, TableInvariant, PTL

\* While the process runs the cursor goes on block by block, and the file gets nothing but
\* the block it stands at, or is emptied.
ScanWays ==
  [][/\ pc # "down" /\ pc' # "down" => cursor' \in {cursor, cursor + 1}
     /\ file' \in {file, cursor, -1}]_vars

\* No step jumps over a block, whatever fails between two of them, and what is in the file
\* is the block the cursor stood at, SafetyBuffer blocks deep: so a worker that resumes
\* from it goes on where one has been, block by block.
THEOREM OrderTheorem == Spec => []FileIsDeep /\ ScanWays
<1> DEFINE Goes == /\ pc # "down" /\ pc' # "down" => cursor' \in {cursor, cursor + 1}
                   /\ file' \in {file, cursor, -1}
<1>1. Table /\ [Next]_vars => [Goes]_vars
  <2> SUFFICES ASSUME Table, Next PROVE Goes
    OBVIOUS
  <2>0. InLoop
    BY DEF Table
  <2>1. CASE CommitMemory
    BY <2>0, <2>1 DEF CommitMemory, InLoop
  <2>2. CASE SaveFile
    BY <2>0, <2>2 DEF SaveFile, InLoop
  <2>3. CASE Start
    BY <2>3 DEF Start
  <2>4. CASE SaveFails \/ Crash \/ CrashWhileSaving
    BY <2>4 DEF SaveFails, Crash, CrashWhileSaving, Down
  <2>5. CASE UNCHANGED <<cursor, file>>
    BY <2>5
  <2>6. QED
    BY <2>1, <2>2, <2>3, <2>4, <2>5
    DEF Next, Proceeds, NewBlock, InitFails, BeginCycle, NothingToScan, FetchEvents, FetchFails,
        HandleEvent, EventFails, vars
<1>2. Table => FileIsDeep
  BY DEF Table
<1>3. QED
  BY <1>1, <1>2, TableInvariant, PTL DEF Spec, ScanWays
-----------------------------------------------------------------------------
(* DepositScan implements DepositRecord: the part that detects *)

Rows == [t \in Transfers |-> IF t \in deposits THEN "DETECTED" ELSE "none"]
NoCallbacks == [t \in Transfers |-> "none"]

Record == INSTANCE DepositRecord
            WITH Deposits <- Transfers, row <- Rows, callback <- NoCallbacks

\* No row at the start.
LEMMA RecordInit == Init => Record!Init
  BY DEF Init, Record!Init, Rows, NoCallbacks

\* Only the handling of an event writes the table, and it writes one row at most.
LEMMA RecordStep == [Next]_vars => [Record!Next]_(Record!vars)
<1> SUFFICES ASSUME [Next]_vars PROVE [Record!Next]_(Record!vars)
  OBVIOUS
<1>1. ASSUME UNCHANGED deposits PROVE UNCHANGED Record!vars
  BY <1>1 DEF Record!vars, Rows, NoCallbacks
<1>2. ASSUME NEW t \in Transfers, HandleEvent(t), ~ UNCHANGED deposits PROVE Record!Detect(t)
  <2>1. deposits' = deposits \cup {t} /\ t \notin deposits
    BY <1>2 DEF HandleEvent
  <2>2. Rows[t] = "none" /\ Rows' = [Rows EXCEPT ![t] = "DETECTED"]
    BY <2>1 DEF Rows
  <2>3. QED
    BY <2>2 DEF Record!Detect, NoCallbacks
<1>3. QED
  BY <1>1, <1>2
  DEF Next, Proceeds, NewBlock, Start, InitFails, BeginCycle, NothingToScan, FetchEvents, FetchFails,
      EventFails, CommitMemory, SaveFile, SaveFails, Crash, CrashWhileSaving, Down, vars, Record!Next

\* A row of the table Deposit appears as DETECTED, once, and the worker never takes it back
\* or changes it, whatever is scanned twice: the first part of the life of a deposit.
THEOREM RecordTheorem == Spec => Record!Spec
  BY RecordInit, RecordStep, PTL DEF Spec, Record!Spec
=============================================================================
