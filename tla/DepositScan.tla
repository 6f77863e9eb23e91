----------------------------- MODULE DepositScan -----------------------------
(***************************************************************************)
(* DepositWorker: block by block it asks the event API for the Transfer     *)
(* events of the token contract and stores a Deposit row for every one that *)
(* pays a known wallet.  Its cursor lives in memory and in a file, and is   *)
(* moved on only when a block is done with; after a restart it is taken     *)
(* from the file, or from 20 blocks behind the chain.                       *)
(*                                                                          *)
(* Deposit.txHash is unique and a second row of the same transaction is     *)
(* dropped (createDetected), so the table is a set of transactions.         *)
(***************************************************************************)
EXTENDS Integers

CONSTANTS
  Transfers,      \* Transfer events to system wallets
  TxOf,           \* event -> its transaction
  BlockOf,        \* event -> its block
  UseCursor,      \* USE_WATCHER_POLLING_CURSOR
  SafetyBuffer,   \* targetBlock = latest - 2
  Lookback,       \* a first start begins at latest - 20
  BlocksPerCycle, \* MAX_BLOCK_PER_CYCLE
  EventLag,       \* the event API, asked for confirmed events only, serves a
                  \* block's this many blocks late
  FirstHead,      \* height of the chain when the worker is first started
  MaxHead,        \* bound: height of the chain
  Faults,         \* the kinds of failure that may happen
  MaxFaults       \* bound: failures in a behaviour

FaultKinds == {"init", "fetch", "event", "file", "crash", "torn"}

ASSUME ScanAssumption ==
  /\ BlockOf \in [Transfers -> Nat]
  /\ UseCursor \in BOOLEAN
  /\ SafetyBuffer \in Nat /\ EventLag \in Nat /\ BlocksPerCycle \in Nat \ {0}
  /\ FirstHead \in Nat /\ MaxHead \in Nat
  /\ Lookback \in 0..FirstHead
  /\ Faults \subseteq FaultKinds /\ MaxFaults \in Nat

VARIABLES
  head,      \* height of the chain
  deposits,  \* transfers that have their Deposit row
  file,      \* runtime/watcher-state.json: a block, or -1 when it cannot be read
  cursor,    \* lastScannedBlock
  first,     \* where scanning last began without a cursor to resume from
  lost,      \* transfers whose event failed and was passed over
  unseen,    \* history: transfers whose block was scanned before the event API
             \* served them, and that were not handled since
  pc,        \* "down", "dead" (init failed), "idle", "fetch", "events", "save"
  block,     \* block in hand
  maxBlock,  \* last block of this cycle
  events,    \* its events still to handle
  faults

vars == <<head, deposits, file, cursor, first, lost, unseen, pc, block, maxBlock, events, faults>>
loopVars == <<block, maxBlock, events>>

TypeOK ==
  /\ head \in Nat
  /\ deposits \subseteq Transfers
  /\ lost \subseteq Transfers
  /\ unseen \subseteq Transfers
  /\ file \in Nat \cup {-1}
  /\ cursor \in Nat /\ first \in Nat /\ block \in Nat /\ maxBlock \in Nat
  /\ pc \in {"down", "dead", "idle", "fetch", "events", "save"}
  /\ events \subseteq Transfers
  /\ faults \in Nat

Init ==
  /\ head = FirstHead
  /\ deposits = {}
  /\ lost = {}
  /\ unseen = {}
  /\ file = -1 /\ cursor = 0 /\ first = 0
  /\ pc = "down"
  /\ block = 0 /\ maxBlock = 0 /\ events = {}
  /\ faults = 0

Fault(kind) ==
  /\ kind \in Faults
  /\ faults < MaxFaults
  /\ faults' = faults + 1

NewBlock ==
  /\ head < MaxHead
  /\ head' = head + 1
  /\ UNCHANGED <<deposits, file, cursor, first, lost, unseen, pc, loopVars, faults>>

----------------------------------------------------------------------------
(* init *)

\* A cursor is used, and can be read.
Resumes == UseCursor /\ file # -1

\* Mutant of ResumePoint: what could not be read is taken as it comes.
ResumePointUnchecked == IF UseCursor THEN file ELSE head - Lookback

\* The block in the file, or Lookback blocks behind the chain.
ResumePoint == IF Resumes THEN file ELSE head - Lookback

\* loadLastBlock or getLatestBlockNumber, then BaseWorker.onModuleInit.
Start ==
  /\ pc = "down"
  /\ cursor' = ResumePoint
  /\ first' = IF Resumes THEN first ELSE ResumePoint
  /\ pc' = "idle"
  /\ UNCHANGED <<head, deposits, file, lost, unseen, loopVars, faults>>

\* getLatestBlockNumber fails: init is not tried again, the worker never polls.
InitFails ==
  /\ Fault("init")
  /\ pc = "down"
  /\ ~Resumes
  /\ pc' = "dead"
  /\ UNCHANGED <<head, deposits, file, cursor, first, lost, unseen, loopVars>>

----------------------------------------------------------------------------
(* process *)

Least(a, b) == IF a <= b THEN a ELSE b

\* Mutant of BeginCycle: the last block of the range is left out.
BeginCycleShort ==
  LET target == head - SafetyBuffer IN
  /\ pc = "idle"
  /\ cursor + 1 < target
  /\ block' = cursor + 1
  /\ maxBlock' = Least(target - 1, cursor + BlocksPerCycle)
  /\ pc' = "fetch"
  /\ UNCHANGED <<head, deposits, file, cursor, first, lost, unseen, events, faults>>

\* The cursor is up with the chain: an early return.
NothingToScan ==
  /\ pc = "idle"
  /\ cursor >= head - SafetyBuffer
  /\ UNCHANGED vars

\* latest is read once; the cycle takes at most BlocksPerCycle blocks.
BeginCycle ==
  LET target == head - SafetyBuffer IN
  /\ pc = "idle"
  /\ cursor < target
  /\ block' = cursor + 1
  /\ maxBlock' = Least(target, cursor + BlocksPerCycle)
  /\ pc' = "fetch"
  /\ UNCHANGED <<head, deposits, file, cursor, first, lost, unseen, events, faults>>

\* All pages of the block's events.  A rate limit, or no answer at all, is
\* waited out and the block asked for again, without end.  A block that is not
\* served yet comes back without events, as one that has none.
FetchEvents ==
  LET due == {t \in Transfers : BlockOf[t] = block}
      served == {t \in due : block + EventLag <= head} IN
  /\ pc = "fetch"
  /\ events' = served
  /\ unseen' = unseen \cup (due \ served)
  /\ pc' = "events"
  /\ UNCHANGED <<head, deposits, file, cursor, first, lost, block, maxBlock, faults>>

\* Mutant of FetchFails: the loop goes on with the next block.
FetchFailsContinues ==
  /\ Fault("fetch")
  /\ pc = "fetch"
  /\ IF block < maxBlock THEN block' = block + 1 /\ pc' = "fetch"
                         ELSE UNCHANGED block /\ pc' = "idle"
  /\ UNCHANGED <<head, deposits, file, cursor, first, lost, unseen, maxBlock, events>>

\* Any other error ends the cycle before this block.
FetchFails ==
  /\ Fault("fetch")
  /\ pc = "fetch"
  /\ pc' = "idle"
  /\ UNCHANGED <<head, deposits, file, cursor, first, lost, unseen, loopVars>>

\* handleDetectedTransfer and createDetected: the row, unless its transaction
\* has one.
HandleEvent(t) ==
  /\ pc = "events" /\ t \in events
  /\ deposits' = IF \E u \in deposits : TxOf[u] = TxOf[t]
                   THEN deposits ELSE deposits \cup {t}
  /\ events' = events \ {t}
  /\ unseen' = unseen \ {t}
  /\ UNCHANGED <<head, file, cursor, first, lost, pc, block, maxBlock, faults>>

\* An event that cannot be stored is logged, and passed over.
EventFails(t) ==
  /\ Fault("event")
  /\ pc = "events" /\ t \in events
  /\ events' = events \ {t}
  /\ lost' = lost \cup {t}
  /\ unseen' = unseen \ {t}
  /\ UNCHANGED <<head, deposits, file, cursor, first, pc, block, maxBlock>>

\* Mutant of CommitMemory: the block is committed before its events are stored.
CommitMemoryEarly ==
  /\ pc = "events"
  /\ cursor' = block
  /\ pc' = "save"
  /\ UNCHANGED <<head, deposits, file, first, lost, unseen, loopVars, faults>>

\* commitBlock: the cursor in memory, and then the file.
CommitMemory ==
  /\ pc = "events" /\ events = {}
  /\ cursor' = block
  /\ pc' = "save"
  /\ UNCHANGED <<head, deposits, file, first, lost, unseen, loopVars, faults>>

\* The loop goes on with the next block, or the cycle ends.
NextBlock ==
  IF block < maxBlock THEN block' = block + 1 /\ pc' = "fetch"
                      ELSE UNCHANGED block /\ pc' = "idle"

SaveFile ==
  /\ pc = "save"
  /\ file' = block
  /\ NextBlock
  /\ UNCHANGED <<head, deposits, cursor, first, lost, unseen, maxBlock, events, faults>>

\* writeFile fails inside the try block, before or after it has emptied the
\* file: the cycle ends.
SaveFails ==
  /\ Fault("file")
  /\ pc = "save"
  /\ file' \in {file, -1}
  /\ pc' = "idle"
  /\ UNCHANGED <<head, deposits, cursor, first, lost, unseen, loopVars>>

\* The process is gone, and with it all that was only in memory.
Down ==
  /\ pc' = "down"
  /\ cursor' = 0 /\ block' = 0 /\ maxBlock' = 0 /\ events' = {}
  /\ UNCHANGED <<head, deposits, first, lost, unseen>>

Crash ==
  /\ Fault("crash")
  /\ pc \notin {"down", "dead"}
  /\ Down
  /\ UNCHANGED file

\* It dies while writeFile has emptied the file and not yet filled it.
CrashWhileSaving ==
  /\ Fault("torn")
  /\ pc = "save"
  /\ Down
  /\ file' = -1

\* What the worker does without the event API.
Proceeds ==
  \/ Start \/ BeginCycle \/ NothingToScan
  \/ \E t \in Transfers : HandleEvent(t)
  \/ CommitMemory \/ SaveFile

Next ==
  \/ NewBlock \/ Proceeds \/ FetchEvents
  \/ InitFails \/ FetchFails \/ SaveFails \/ Crash \/ CrashWhileSaving
  \/ \E t \in Transfers : EventFails(t)

Spec == Init /\ [][Next]_vars

\* The chain grows and the worker polls for as long as the process runs.  The
\* event API need never answer: its request has no timeout.
FairSpec == Spec /\ WF_vars(NewBlock) /\ WF_vars(Proceeds)
----------------------------------------------------------------------------
(* Properties *)

\* A block is skipped by nothing but a failing event or one that comes too
\* late: when the cursor has passed a block, every transfer in it to a system
\* wallet has its Deposit row, was passed over, or had not been served when
\* the block was scanned, whatever was retried, crashed and resumed.
Accounted == deposits \cup lost \cup unseen

EveryTransferHandled ==
  \A t \in Transfers :
    first < BlockOf[t] /\ BlockOf[t] <= cursor => t \in Accounted

\* What is in the file is never ahead of what is in the table: a restart
\* resumes behind the work that was done.
FileBehindTable ==
  \A t \in Transfers :
    first < BlockOf[t] /\ BlockOf[t] <= file => t \in Accounted

\* The same without the excuse: no transfer to a system wallet is lost.
EveryTransferStored ==
  \A t \in Transfers :
    first < BlockOf[t] /\ BlockOf[t] <= cursor => t \in deposits

\* The worker never falls behind for good: again and again its cursor is up
\* with the chain, whatever failed, was passed over or was torn in between,
\* unless init failed, which is never tried again, or the event API leaves a
\* request unanswered or refuses it for ever.
ScanKeepsUp ==
  \/ []<>(cursor >= head - SafetyBuffer \/ pc = "dead")
  \/ <>[](pc = "fetch")
=============================================================================
