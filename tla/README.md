# Verification of the settlement backend

TLA+ models of this repository, the TLC runs that check them on small
instances, and proofs that hold for every size. Most of the models are about
`apps/api`, a NestJS server whose workers poll a PostgreSQL database (Prisma)
and a Tron node; first among them the workers that move money or decide that
money has to move. The others are about `apps/portal`, the React application
of the operators: its session, its requests, its routes and its lists. All
paths below are relative to `apps/api/src` unless they start with `apps/`,
`portal/` (for `apps/portal/src`) or `packages/`.

## 1. The system

Partners give their users deposit wallets. A token transfer to such a wallet
is found on chain, confirmed, reported to the partner, and the money is swept
to one hot wallet. The parts talk to each other only through rows of the
database and through the chain:

```
 Tron events ─► DepositWorker ─► Deposit(DETECTED)
                                     │
 balanceOf ───► ConfirmWorker ───────┼─► CallbackLog(PENDING) ─► CallbackWorker ─► partner
                (deposits)           └─► SweepJob(PENDING)
                                             │
 balances ────► SweepWorker ◄────────────────┘
                   │   transfer / refill ─► Tron
                   └─► SweepLog(BROADCASTED) ◄── ConfirmWorker (sweeps) ◄── receipt
```

| Part | State it keeps | Operations | What makes it correct |
|---|---|---|---|
| `worker/base.worker.ts` | `timer`, `isRunning` | poll, one cycle at a time, swallow what a cycle throws | a worker of a process is single-flight |
| `worker/deposit.worker.ts`, `domains/deposit` | `lastScannedBlock`, `runtime/watcher-state.json`, `Deposit` | `init`, `process`, `commitBlock`, `createDetected` | no block is skipped, across restarts and failures, and none is lost to anything but a failing or a late event; the file is never ahead of the table |
| `worker/confirm.worker.ts`, deposits | `Deposit.status`, `CallbackLog`, `SweepJob` | `processDepositConfirm` | one callback per deposit, not before the block is deep, always in the end; no money without a job or a transfer, unless a sweep failed |
| `worker/sweep.worker.ts`, `infra/tron` | `SweepJob.status` (a lock), `SweepLog` | `process`, `releaseJob`, `finishJob`, `writeLog` | one process per job, one sweep per deposit, records that agree with the chain, the queue drains |
| `worker/confirm.worker.ts`, sweeps | `SweepLog.status`, `SweepJob` | `processSweepConfirm` | a row is closed once, with what the chain decided for good |
| `worker/callback.worker.ts`, `domains/callback` | `CallbackLog.status`, `attemptCount` | `process`, `retryFailedIds`, `retryFailedAll` | SUCCESS is what the partner accepted, nothing falls out of the query, every row ends |
| `worker/recalim.worker.ts`, `domains/wallet` | `AssetsReclaimJob` | `process`, `createReclaimJobsAll` | a job goes only when the transfer of the tokens it found has moved them or reverted; one administrator does not queue a wallet twice; every job that can be done is done |
| `domains/user`, `domains/wallet` | `User.isActive`, `UserWallet.status` | `create`, `update`, `createWallet` | the wallets of a suspended user are suspended; a user has a wallet |
| `domains/partner`, `domains/auth/guards` | `Partner.apiKeyHash`, `apiKeyPrefix` | `create`, `rotateApiKey`, `ApiKeyGuard` | the key that was shown works, the one it replaced does not |
| `domains/exception-log`, `core/errors` | `ExceptionLog` | capture, `update`, `softDelete` | nothing goes that is still to be worked on |
| `domains/monitor`, `portal/domains/devconsole` | the hash and the answer on the screen | `getProcessFlow`, `useSafePolling` | the end of what is on the screen is shown |
| `portal/store`, `portal/core/network`, the guard | the redux store, what is persisted of it, the axios instance | load, rehydrate, sign in, sign out, choose a server, expire | requests carry the session that is shown; an expired one ends |
| `portal/app/RouteData.tsx`, `portal/core/route-meta` | the location | registering routes, menu, tabs | a link shows the page it names |
| controllers, DTOs, `ValidationPipe`, guards; `portal/domains/*/*.api.ts` and pages | the session's role | every route, every form | the API takes what the pages send |
| `portal` lists of wallets and callbacks | partner, filter, selection, query cache | fetch, select, bulk change | a bulk change stays with the partner on the screen |
| `portal` grid and pager, `findAll` | offset, total | page and group buttons | every row is on one page, every page is reached |
| balances, withdrawals, members, encryption | rows | listings, single-row changes | see section 6 |

The parts from reclaim on share no state with the pipeline above but
rows it only reads. Reclaim shares the wallets: a sweep of the wallet in
hand, which takes its tokens or burns its TRX, is an action of `Reclaim`.

### What is hard about it

* **Several processes over one database.** `WorkerModule` is part of every
  server process, so two deployments poll the same tables. Nothing but
  conditional updates (`updateMany ... where status = ...`) and unique columns
  keeps them apart; every model has several processes.
* **Awaits.** Each `await` is a point where other workers, other processes and
  the chain move on. What was read before it (a snapshot of jobs, a wallet's
  balance, an attempt count, the chain's height) may be stale after it.
* **Two stores.** A transfer on chain and its row in the database are written
  one after the other; a crash, a lost answer or a failing write falls between.
* **A chain that changes its mind.** Blocks are reorganised while shallow,
  transactions expire in the pool, events are served late.
* **Errors.** Each worker has its own catch block with database calls of its
  own, which may fail as well.

## 2. The modules

| Module | Models | Lines it stands for |
|---|---|---|
| `Sweep` | `SweepJob`, `SweepLog`, `SweepWorker.process`, `ConfirmWorker.processSweepConfirm`, the calls to the node, the chain (external) | `worker/sweep.worker.ts`, `worker/confirm.worker.ts:120-211`, `infra/tron/tron.service.ts:88-143` |
| `SweepLedger` | the abstract promise of `SweepLog`: each transfer is entered at most once and closed with the outcome the chain decided | implemented by `Sweep` (`RefinesLedger`) |
| `SweepQueue` | the abstract promise of the table `SweepJob`: a sweep is queued by the confirmation of its deposit or never, and once gone it stays gone | implemented by `DepositConfirm` and by `Sweep` (section 5) |
| `DepositRecord` | the abstract promise of the tables `Deposit` and `CallbackLog` together: a deposit is detected once, confirmed once and has one callback from that step on, which is set back only from FAILED | implemented by `DepositScan`, `DepositConfirm`, `Callback` and `TestConsole`, each with its part (section 5) |
| `DepositConfirm` | `ConfirmWorker.processDepositConfirm` | `worker/confirm.worker.ts:23-118` |
| `Callback` | `CallbackWorker.process` and the retry endpoints | `worker/callback.worker.ts`, `domains/callback/callback.repository.ts` |
| `DepositScan` | `DepositWorker` and `createDetected` | `worker/deposit.worker.ts`, `domains/deposit` |
| `TronEvents` | the pages of a block's events, with back-off; what `DepositScan` takes as the one step `FetchEvents` or `FetchFails` | `infra/tron/tron.service.ts:154-232` |
| `SingleFlight` | the abstract promise of a polling worker: cycles follow one another and there is always a next one | implemented by `BaseWorker` (`CyclesAlternate`) |
| `BaseWorker` | the interval timer, `isRunning`, start and shutdown | `worker/base.worker.ts` |
| `Reclaim` | `AssetsReclaimJob`, `ReclaimWorker.process`, `createReclaimJobsAll`, the wallets on chain and the sweeps of the same wallets | `worker/recalim.worker.ts`, `domains/wallet/wallet.repository.ts` |
| `Accounts` | creation and suspension of users and wallets, as the steps of their transactions | `domains/user`, `domains/wallet/wallet.service.ts` |
| `PartnerKeys` | issuing, rotating, showing and checking of API keys | `domains/partner`, `domains/auth/guards/api-key.guard.ts` |
| `ExceptionLogs` | capture, update and soft deletion, each a check and a change | `domains/exception-log`, `core/errors` |
| `TestConsole` | the monitor's two reads, the polling hook, the console page | `domains/monitor`, `portal/core/hooks/useSafePolling.ts`, `portal/domains/devconsole` |
| `Session` | the twice persisted store, page loads, the guard, the axios instance, expiry | `portal/store`, `portal/core/network`, `portal/app`, `portal/components`, `portal/pagas/LoginPage.tsx` |
| `Routes` | the route tree and its three readings | `portal/app/RouteData.tsx`, `portal/core/route-meta`, `portal/components/layouts` |
| `Requests` | DTOs as the values each field takes, the routes with guard and role, the portal's request functions and forms | controllers, DTOs, `main.ts`; `portal/domains/*` |
| `ListPage` | the two lists with bulk operations, their query keys and selections | `portal/domains/wallet`, `portal/domains/callback`, `domains/wallet/wallet.repository.ts`, `domains/callback/callback.repository.ts` |
| `Pager` | offset, total, buttons, numbering | `portal/core/tx-ui/TxAgGrid`, `core/dto/get-table.query.dto.ts`, `domains/user/user.repository.ts` |
| `MCSweep`, `MCDepositConfirm`, `MCCallback`, `MCDepositScan` | values of the constants for TLC | |
| `MCPlatform` | the twelve modules from `TronEvents` to `Pager` (without `SingleFlight`), side by side, and their values | |
| `SweepProofs`, `DepositConfirmProofs`, `CallbackProofs`, `DepositScanProofs`, `ReclaimProofs` | proofs about the module each is named for | |
| `RecordProofs` | proofs about `Accounts`, `PartnerKeys` and `ExceptionLogs` | |
| `LoopProofs` | proofs about `BaseWorker` and `TronEvents` | |
| `PortalProofs` | proofs about `Session`, `ListPage`, `Pager` and `TestConsole` | |

How state and actions correspond to the code:

* One action is the code between two awaits. `pc` names the await a worker is
  at; where a loop needs no label (the confirm workers) the rows of the
  snapshot still to visit (`batch`, `cbatch`) and the row in hand (`at`,
  `dropping`) say it. A process has one control point per worker because
  `isRunning` keeps a worker single-flight.
* `SweepJob` is unique in `depositId`, so it is a function from deposits:
  `"none"` stands for no row. `SweepLog` rows with a `txHash` (unique) are the
  function `sweepLog`; rows without one (SKIPPED, and PENDING for a refill) are
  the set `notes`: how often the same row is written is not told apart.
* `findMany` and the loop over its result: `FetchJobs`, `FetchBroadcasts`,
  `FetchDetected`, `FetchDue` take the snapshot; the loop visits its rows in
  any order (in the order of `detectedAt` in `DepositConfirm`). The `take` of
  both confirm queries is the constant `Take`, oldest rows first, because there
  it decides what is never looked at. `FetchJobs` takes all PENDING jobs: a job
  leaves that state or is tried again, so a queue longer than the 100 rows of
  the query only waits.
* `updateMany` with a status in its `where` is an action that tests the status
  (`LockJob`/`MissLock`, `Settle`, `ConfirmDeposit`); `update` by id is one that
  does not (`MarkSuccess`, `MarkFailure`).
* A Prisma `$transaction` is one action (`ConfirmSweep`, `ConfirmDeposit`);
  statements without one are several (`FailSweep` then `DropJob`).
* Failures are actions guarded by `Fault(kind)`: a constant `Faults` says which
  kinds may happen and `MaxFaults` how many. In `Sweep`: `chain` (a call to the
  node is refused before it did anything), `ack` (the node took the transaction
  but the answer was lost), `db` (a database call fails), `lock` (the update that
  takes the lock fails) and `crash`. The target of each is the code's own catch
  block. `captureWorkerException` in these blocks never fails (it swallows its
  errors), so it is left out.
* Amounts are integers in units of 10^-6 token. `Sent` is what becomes of a
  balance on its way through two floating-point conversions: for the balances
  in the constant `RoundsDown` it is one unit less (`249 / 1e6 * 1e6` is
  `248.99999999999997`, and `Math.floor` follows).

* A `$transaction` that others see the middle of, because it locks a row or
  because a snapshot was taken before it, is several actions and a record of
  what it will make visible: `UpdateUser`, `UpdateWallets`, `Commit` in
  `Accounts`; `SelectWallets` and `InsertJobs` in `Reclaim`, where one
  `INSERT ... SELECT ... WHERE NOT EXISTS` reads and then writes.
* A history variable or field (`owed`, `author`, `raced`, `overlap`, `since`,
  `bare`, `streak`, `hit`, `failed`, `unseen`) is read by no guard. Its comment says what it records.
* In `Requests` a value is one of a few kinds a rule can tell apart ("text",
  "uuid", "bool", ...) and a DTO is a function from a field to the kinds its
  decorators let through; a page's form is the set of the values its controls
  can produce. In `Routes` a path is the sequence of its segments.

Environment, modelled from how the code uses it and marked external in the map:
the payments (`Pay`) and the transactions of `Sweep` (`Execute`, `Revert`, `Finalize`, `Reorg`,
`Expire`, `CreditTrx`). A transaction may be reorganised until it is final and
never after; the code's `CONFIRMATION_COUNT` stands for that depth. A transfer
of tokens may revert although its wallet had TRX, in each module that sends one
(`Revert` in `Sweep`, `SweepFails` in `DepositConfirm`, `OutOfEnergy` in `Reclaim`): `feeLimit`
(`infra/tron/tron.service.ts:135`) only bounds what is burnt.

## 3. The runs

TLC, two workers; the whole set takes about ten minutes.

| Run | States | What it shows |
|---|---|---|
| `sweep_all_faults` | 417k | two processes, one job, an amount that rounding shortens, any two failures of any kind: no job of a confirmed deposit goes without a record (`NoJobDropped`), `SweepLog` agrees with the chain (`LedgerMatchesChain`) and implements `SweepLedger` (`RefinesLedger`) |
| `sweep_once` | 2.1M | two processes, two jobs of one wallet, a transfer whose answer may be lost: the lock holds (`MutualExclusion`) and a deposit has one live row (`OneSweepPerDeposit`) |
| `sweep_live` | 77k | one process, two jobs of one wallet, one row per confirm cycle, one refused call: the queue drains (`QueueDrains`) and every broadcast is settled unless it expires or expired ones crowd it out (`SweepSettles`) |
| `confirm` | 278k | two processes, three deposits to two wallets, two rows per cycle, two cycles cut short, payments in between and sweeps that are sent, executed, reverted or expire: `OneCallbackPerConfirmed`, `ConfirmedIsDeep`, `NoFundsForgotten`, `DeepGetsConfirmed` |
| `callback` | 359k | two processes, two rows, three attempts, two failures, one retry by an operator: `SuccessWasAccepted`, `PendingIsDue`, `CallbacksEnd` |
| `scan_all_faults` | 53k | ten blocks, four transfers, events served a block later than a scan that is up with the chain asks for them, three failures of six kinds (init, fetch, event, file, crash, torn file): `EveryTransferHandled`, `FileBehindTable`, `ScanKeepsUp` |
| `platform` | 156k | `MCPlatform`, part by part as below |

What `platform` shows of each part:

| Part | Instance | Properties |
|---|---|---|
| `Reclaim` | two processes, two administrators, two jobs, a wallet whose key does not decrypt, one mishap (a failing call, a late or a reverted transfer, a crash) | `OneRowPerAuthor`, `NotGivenUp`, `ReclaimEnds` |
| `PartnerKeys` | two partners, two operators, three raw strings of which two begin alike | `RotatedKeyWorks`, `ReplacedKeyRefused` |
| `ExceptionLogs` | one row, two clerks | `DeletedIsDone` |
| `Accounts` | two users, three addresses, two requests at a time | `SuspendedStaysSo` |
| `BaseWorker` | up to two cycles at a time, if the code let them | `CyclesAlternate` |
| `TronEvents` | three pages, eight refusals, the code's five retries | `BlockComesWhole` |
| `TestConsole` | two hashes, two failing requests | `ResultShown` |
| `Session` | two tokens, two servers, three page loads, two versions | `RequestsAuthorized`, `ExpiredSignedOut` |
| `Routes` | the whole tree, the three roles, two clicks | `LinksLead` |
| `Requests` | every route, every form | `RequestsAccepted` |
| `ListPage` | both lists, two partners, three rows, three turns of the operator, one change by the system, one query at a time | `BulkStaysWithPartner`, `ListFollowsPartner` |
| `Pager` | pages of two, groups of three, a window of 16 rows and offsets up to 12, eleven sizes of the list | `PagerReaches` |

The parts share no variable, and none reads another's. A behaviour of
`MCPlatform` is therefore one of one part, chosen in its initial state, with the
others at rest: letting them interleave would multiply the states and show
nothing new. `PlatformTypeOK` is the conjunction of their type invariants.

Every property of these runs has a mutant: a small bug in one definition
(defined right before it, "Mutant of ...") under which TLC finds the property
violated.

**Bounds and why they are enough.** Two processes are enough for every race
here, since each is between one that holds something stale and one that
changes it; `sweep_live` has one, whose two workers already race over a job
(`DropJob`), and leaves other processes to the safety runs. Two deposits of one wallet share its balance and its TRX; two
transfers are what a double sweep needs. Two failures allow a failure in the
handling of a failure (`releaseJob` in the catch block), and the proofs below
cover any number. `Take = 2` of three deposits, and `Take = 1` of two
broadcasts, make one wait for the next cycle; `MaxAttempts = 3` leaves an attempt between first and last. The chain of
`DepositScan` has transfers in the first block that can be reached, in a late one and
two in one block, and more blocks than one cycle takes. `EventLag = 3` against
`SafetyBuffer = 2` makes events come too late for a worker that is up with the chain and in time
for one that is behind, so that a block is scanned both ways, also the same block
before and after a restart. In `confirm` two of the amounts are above `Minimum` and
one is not, and a depth of two blocks against a scan one block behind lets a deposit
be detected before it may be confirmed.
In `platform`, two jobs are one that can be done and one that cannot, or two of one
wallet, and a cycle looks at both (`ReclaimTake = 2`): a wallet whose key is
broken comes back in every cycle and must not be all a cycle looks at. One payment
to each wallet and one mishap in all suffice for a transfer that is late, refused or reverted
and for a crash; the proofs cover any number of each. Eight refusals are more than
`MAX_RETRY`, so that a page can fail after another was retried. Three page loads
are a sign-in, a reload with a new version, and the reload after that. The
window of the pager ends between two pages of a group and the list has sizes
below, at and above every edge; `Window - PageSize > MaxOffset`, as in the code (10000 - 50 > 9900).
`MaxRefills` bounds only how many refills are under way to a wallet at a time,
`MaxHead` how far the chain grows.

**Symmetry** is used in the safety runs of `Sweep` only, over processes,
hashes and deposits to the same wallet. `CHECK_DEADLOCK FALSE` is set in
two runs: in `scan_all_faults` a worker whose `init` failed really stops for
ever, and in `platform` parts come to an end (a block's events are fetched, a
worker is shut down).

**Fairness.** `setInterval` calls `process()` as long as the process runs, so each
worker is weakly fair as a whole: it takes some step when it can take one, and
no single branch is favoured. That takes it that the promise behind an
await is settled in the end. `worker/callback.worker.ts:33` sees to it itself (a timeout of five
seconds); calls of TronWeb and of the database client are left to these libraries;
the code itself sets nothing. The exception is the request for events
(`infra/tron/tron.service.ts:164`): it has no timeout, and a rate limit is waited out without
bound (`worker/deposit.worker.ts:113-122`), so nothing makes it end. `FetchEvents` is
therefore not fair in `DepositScan`, and `ScanKeepsUp` says what is left: the scan catches up again
and again, or a request stays open or is refused for ever.
`CyclesAlternate` likewise takes it that `process()` settles. The chain is fair in that a
transaction in the pool is executed, reverted or expired (weak), and that one
that is executed again and again becomes final (strong: a reorganisation
disables it in between). `Reorg`, failures and an operator's retries need
not happen. In `DepositScan` the chain grows up to the bound. In `platform` a
process that runs goes on with its job and a transfer it waits for is executed
or reverts, or the wait is too short (reverts, like every failure, are bounded: two processes at
one wallet whose transfers revert for ever could take each other's TRX for ever, and `ReclaimEnds` would
fail); the worker's timer fires and its cycle settles; the
browser's timers fire, a page that loads goes on loading, a query is sent and
answered. Operators, administrators and partners need do nothing.

## 4. Where code and documents disagree

Each of these is a run of its own with the property TLC refutes.

* `sweep_lock_fails` (`MutualExclusion`): `worker/sweep.worker.ts:146` releases
  a job in the catch block without knowing that it holds it. If the `updateMany`
  at line 49 fails in one process while another works on the job, the job is
  PENDING again, and the next cycle locks it and works on it beside the other
  process. (A process that only releases is not at work: `Working` leaves `"release"` out.)
* `sweep_twice` (`OneSweepPerDeposit`): `hasTerminalSweepLog` is asked before
  `hasPendingBroadcast`. A row that turns from BROADCASTED to CONFIRMED between
  the two queries is seen by neither. With a job still queued after its sweep
  (a failing `finishJob`) the deposit is swept again. Asking in the other order
  would close the gap.
* `sweep_rounding` (`LoggedAmountMoved`): `infra/tron/tron.service.ts:132`
  truncates where the conversion was inexact, so `SweepLog.amount` can be one
  unit more than what was moved.
* `callback_overwritten` (`OutcomeStands`): `updateAttempt` overwrites whatever
  another process has stored, SUCCESS included.
* `scan_event_lost` (`EveryTransferStored`): an event that cannot be stored is
  logged and its block committed.

Met while modelling, and not kept as runs:

* A crash between `worker/sweep.worker.ts:130` and `:132` leaves a transfer
  without a row, and the job PROCESSING for ever: nothing looks for stale
  locks. A failing `releaseJob` in the catch block does the same (add `db` or
  `crash` to `Faults` of `sweep_live`; `QueueDrains` then fails).
* The threshold is `>` at `worker/confirm.worker.ts:101`, and "이상" (at least)
  at `core/constants/index.ts:15`. `NoFundsForgotten` speaks of balances above it.
* `domains/deposit/deposit.repository.ts:42` drops a second row with the same
  `txHash`: a transaction that pays two wallets yields one deposit
  (`TxOf <- SharedTx` in `scan_all_faults.cfg`: `EveryTransferHandled` fails).
* A torn cursor file makes the worker start 20 blocks behind the chain
  (`worker/deposit.worker.ts:150`); blocks between the lost cursor and there are
  never scanned. The properties of `DepositScan` speak of the blocks after
  `first`, where scanning last began without a cursor.
* `init` is tried once (`worker/deposit.worker.ts:35`); when it fails the worker
  never polls, although `docs/05` has workers go on after an error.
* Events are asked for with `only_confirmed` (`infra/tron/tron.service.ts:168`)
  two blocks behind the chain, while a block of the chain is confirmed about nineteen later. A
  block whose events are not served yet looks empty and is committed: its
  deposits are never created unless a restart scans the block again. In
  `scan_all_faults` events come late, and `unseen` keeps what they lose;
  `EveryTransferHandled` says that nothing else is lost with it.
* The request for events has no timeout (`infra/tron/tron.service.ts:164`): one connection
  that hangs leaves `isRunning` true, and no later tick scans. `ScanKeepsUp` exempts it.
* A job is deleted once its transfer is broadcast (`worker/sweep.worker.ts:144`), and a
  failed sweep is final (`worker/confirm.worker.ts:166-174`); an expired one is passed over
  (`:140`). Either leaves the balance without a job until the wallet's next
  deposit. `NoFundsForgotten` exempts a wallet a sweep of which failed after its last payment
  (`failed`), and says that the next deposit brings all of the money back into the queue.
* `ReclaimWorker` waits ten seconds and reads no receipt
  (`worker/recalim.worker.ts:64-66`). When the transfer of the tokens has reverted, for want of
  energy say, it sends the TRX away and deletes the row all the same
  (`:93`): the tokens stay, and nothing will fetch them. `NotGivenUp` exempts a
  transfer that reverted; where `Effect` lets a debt end with it (`moves \/ reverts`), drop the second
  half, and `platform` violates it.
* An expired transaction stays BROADCASTED for ever: `getTransactionInfo` has
  nothing on it, and the row is passed over in every cycle. As the query takes
  the 100 oldest rows (`worker/confirm.worker.ts:129`), a hundred of them keep
  every younger one from being settled. `SweepSettles` exempts both
  (`Crowded`); without that exemption `sweep_live`, where a cycle takes one row,
  violates it.
* `processDepositConfirm` and `processSweepConfirm` share one cycle
  (`worker/confirm.worker.ts:23-26`) and the first throws when a deposit fails:
  a deposit that failed for ever would keep every sweep from being settled. The
  models bound failures and so take it that the first half ends.
* On a timeout `Number(undefined)` is `NaN` in `lastStatusCode`
  (`worker/callback.worker.ts:64`). What the database client makes of it lies
  outside; if it rejects the update, it is `FailureNotSaved` every time.

In the other parts of the server:

* A partner is created with a key that is the bare random string
  (`domains/partner/partner.repository.ts:17-35`), but the guard looks up what
  stands before the first dot and compares it with the eight characters that are
  stored (`domains/auth/guards/api-key.guard.ts:41`). That key is never
  accepted, although `main.ts:13-15` has partners use the key issued at
  registration; the one of a rotation is. `RotatedKeyWorks` speaks of rotations.
* `main.ts:23` and the Swagger text send the key as `Authorization: Bearer`; the
  guard reads `x-api-key` (`api-key.guard.ts:35`), as `portal/docs/apiGuide.md:52` says.
* `domains/wallet/wallet.service.ts:28` announces one retry on an address that
  is taken; there is none.
* `createReclaimJobsAll` is one statement, and two of them at a time queue a
  wallet twice: the subquery of each sees none of the other's rows.
  `OneRowPerAuthor` is what is left of "not twice".
* The catch block of `worker/recalim.worker.ts:99` updates a row that another
  process may have deleted, which throws and ends the cycle. Every other job of it
  waits for the next one.
* A deletable log may be set back to OPEN between check and deletion
  (`domains/exception-log/exception-log.service.ts:68`); `DeletedIsDone` exempts
  the rows where that happened (`overlap`).
* A wallet that is being created while its user is suspended stays ACTIVE
  (`domains/wallet/wallet.service.ts:35`); `SuspendedStaysSo` exempts it (`raced`).
* `getProcessFlow` reads deposit and callback one after the other and may
  answer with a final callback of a deposit that is not yet confirmed.
* `retryFailedIds` resets `lastAttemptAt`, `retryFailedAll` does not
  (`domains/callback/callback.repository.ts:81`).
* `waitForConfirm` throws for a failed transaction inside its own `try`, which
  swallows it (`infra/tron/tron.client.ts:169`); nothing calls it.

In the portal:

* A sign-out that a new `APP_VERSION` forces while the first of the two persisted
  layers is restored (`portal/store/index.ts:75`) is undone when the second one is.
* `LoginPage`, opened with a session, leaves at once for the dashboard, but its
  server list has made a new axios instance without the header by then
  (`bare` in `RequestsAuthorized`).
* "전체 재시도" (retry all) is disabled unless `status` is FAILED, where `status` is
  not the filter's but the browser window's (`portal/domains/callback/CallbackList.tsx:66`):
  always disabled.
* The key of the callback list lacks the partner (`CallbackList.tsx:21`), so
  another partner's rows stay until the next refetch (`ListFollowsPartner` says
  that it comes); a selection survives partner, filter and the grid it was made in.
* The pager offers page 200 of 50 rows, whose offset 9950 the API refuses
  (`core/constants/index.ts:3`); then the grid is empty and the pager gone. When
  a list shrinks so that the current page is two behind the last, no button is
  enabled.
* An answer of the monitor about the previous hash is shown under the new one
  and, if final, stops the polling (`portal/domains/devconsole/DevConsolePage.tsx:62-67`).
  So does FAILED, which is not final: a callback that is set back, or whose outcome
  another process overwrites, goes on unseen until "process refresh" is clicked.
* Passwords without an upper case letter pass the form and are refused by
  `domains/member/dto/create-member.dto.ts:20`; the Delete button of the exception log is shown
  to an OPERATOR, who may not delete. `RequestsAccepted` names both.
* The dashboards use the query key `['users']` for balances; the alert of
  `portal/domains/wallet/WalletList.tsx:34` prints an object for a number; the
  page of withdrawals, disabled, asks for an endpoint that does not exist.

## 5. The proofs

Checked by TLAPS for every value of the constants: any deposits, wallets,
processes, hashes, transfers and amounts, any chain and any number of failures.
The assumptions are the types of the constants (`SweepAssumption`,
`ConfirmAssumption`, `CallbackAssumption`, `ScanAssumption`, `ReclaimAssumption`,
`EventsAssumption`, `WorkerAssumption`, `ConsoleAssumption`) and besides:
`KeysAssumption`: no raw string is the prefix of another; `ReclaimAssumption`: TRX is
counted in units of a transfer's fee (`FeeUnits = 1`); `SessionAssumption`: there is a
server, and no token stands for "signed out"; `PagerAssumption`: the window
(`totalOffset`, 10000) is full pages (`ITEMSIZE`, 50 in every list). TLC evaluates each of
them in a run. What a theorem needs besides is a premise in its statement.

| Module | Theorem | States | Under |
|---|---|---|---|
| `SweepProofs` | `TypeCorrect` | `TypeOK` | any failures |
| | `LedgerTheorem` | `LedgerMatchesChain` | any failures |
| | `QueueTheorem` | `NoJobDropped` | any failures |
| | `RefinementTheorem` | `RefinesLedger`: `Sweep` implements `SweepLedger` | any failures |
| | `LeavesTheorem` | `Sweep` implements `SweepQueue` | any failures |
| | `DoneTheorem` | a confirmed sweep's deposit has no job, and never again one | any failures |
| | `LockTheorem` | `MutualExclusion` | the update that takes the lock does not fail (`"lock" \notin Faults`) |
| | `OnceTheorem` | `OneSweepPerDeposit` | nor does any other database call (`"db" \notin Faults`); node, answers and processes may fail |
| | `SkippedTheorem` | a deposit on record as SKIPPED has no live sweep, then or later | the same |
| | `OneTransferTheorem` | each deposit is submitted to the chain once at most | calls to the node may fail and processes crash, but every answer arrives (`Faults \subseteq {"chain", "crash"}`) |
| | `HeldTheorem` | a PROCESSING job is in the hands of a process | no process dies and no database call fails but the one that takes the lock (`"crash"`, `"db"` not in `Faults`) |
| | `AmountsTheorem` | a row's transfer moves `Sent` of the row's amount | any failures |
| | `MovedTheorem` | `LoggedAmountMoved` | no balance is rounded down (`RoundsDown = {}`) |
| `DepositConfirmProofs` | `TypeCorrect` | `TypeOK` | any failures |
| | `CallbackTheorem` | `OneCallbackPerConfirmed` | any failures |
| | `DeepTheorem` | `ConfirmedIsDeep` | any failures |
| | `FundsTheorem` | `NoFundsForgotten` | any failures, sweeps that revert or expire included |
| | `QueueTheorem` | `DepositConfirm` implements `SweepQueue` | any failures |
| | `RecordTheorem` | `DepositConfirm` implements `DepositRecord` | any failures |
| `CallbackProofs` | `TypeCorrect` | `TypeOK` | any failures and retries |
| | `AcceptedTheorem` | `SuccessWasAccepted` | any failures and retries |
| | `DueTheorem` | `PendingIsDue` | any failures and retries |
| | `WaysTheorem` | `StatusWays`: the changes a status can make, SUCCESS to PENDING not among them | any failures and retries |
| | `RecordTheorem` | `Callback` implements `DepositRecord` | any failures and retries |
| | `OutcomeTheorem` | `OutcomeStands` | one server process (`OneInstance`) |
| | `GivenUpTheorem` | a FAILED row has had its last attempt | one server process |
| `DepositScanProofs` | `TypeCorrect` | `TypeOK` | any failures |
| | `TableTheorem` | one row per transaction, and only of blocks `SafetyBuffer` deep | any failures |
| | `OrderTheorem` | the cursor goes on block by block, the file gets nothing but the block it stands at and is emptied at worst | any failures |
| | `RecordTheorem` | `DepositScan` implements `DepositRecord` | any failures |
| | `HandledTheorem` | `EveryTransferHandled` | no transaction pays two wallets (`OneTransferPerTx`); any failures and any delay of the events |
| | `FileTheorem` | `FileBehindTable` | the same |
| | `StoredTheorem` | `StoredOrUnseen`: what the cursor has passed is stored, or its event came too late | the same, and storing an event does not fail (`NoEventFails`) |
| `ReclaimProofs` | `ReclaimTypeCorrect` | `ReclaimTypeOK` | any failures and sweeps |
| | `AuthorTheorem` | `OneRowPerAuthor` | any requests of any administrators |
| | `GivenUpTheorem` | `NotGivenUp` | any failures, reverts and sweeps |
| | `WaysTheorem` | the changes a row can make: deleted for good, never PENDING again, and deleted only by a process that is owed nothing (as `owed` is defined) | any failures, reverts and sweeps |
| `RecordProofs` | `AccountsTypeCorrect` | `AccountsTypeOK` | any requests |
| | `SuspendedTheorem` | `SuspendedStaysSo` | any requests |
| | `WalletTheorem` | `UserHasWallet` | any requests |
| | `KeysTypeCorrect` | `KeysTypeOK` | any keys and prefixes |
| | `RotationTheorem` | `RotatedKeyWorks` | the same, any overlap of rotations |
| | `ReplacedTheorem` | `ReplacedKeyRefused` | the same |
| | `LogsTypeCorrect` | `LogsTypeOK` | any requests |
| | `DeletedTheorem` | `DeletedIsDone` | any requests |
| `LoopProofs` | `WorkerTypeCorrect` | `WorkerTypeOK` | cycles of any length, that may throw |
| | `AlternateTheorem` | `BaseWorker` implements `FlightSafety`, the safety half of `SingleFlight` | the same |
| | `EventsTypeCorrect` | `EventsTypeOK` | any refusals and errors |
| | `WholeTheorem` | `BlockComesWhole` | any number of pages, any `MAX_RETRY` |
| `PortalProofs` | `SessionTypeCorrect` | `SessionTypeOK` | any page loads, versions and tokens |
| | `AuthorizedTheorem` | `RequestsAuthorized` | the same |
| | `ListTypeCorrect` | `ListTypeOK` | any partners and rows |
| | `BulkTheorem` | `BulkStaysWithPartner` | the same, any order of answers |
| | `OwnWalletsTheorem` | `OwnWalletsShown`: the wallet list shows the chosen partner's wallets | the same |
| | `PagerTypeCorrect` | `PagerTypeOK` | any size of page, group, window and list |
| | `ReachTheorem` | `PagerReaches` | the same |
| | `ConsoleTypeCorrect` | `ConsoleTypeOK` | any transactions |
| | `ShownTheorem` | `ShownHappened`, `StopsOnOutcome` | the same, any failed requests |
| | `RecordTheorem` | what `TestConsole` takes of the workers implements `DepositRecord` | the same |

The premises of `LockTheorem`, `OnceTheorem`, `MovedTheorem` and `OutcomeTheorem` are what four of
the violation runs break: each run shows that its premise is
needed, the theorem that nothing else is. `StoredTheorem` has the premise that the fifth breaks
(`scan_event_lost`), and names late events as the one other way to lose a transfer. No run checks `SkippedTheorem`, `OneTransferTheorem` and
`HeldTheorem`; what breaks without their premises is told below. `OnceTheorem` excludes every failure of a
database call, of which the run needs one.

### Sweep

The argument. None of the properties is inductive by itself: a row about to be
written comes from variables of the worker, so the invariant must say what
these hold. `Consistent` adds to the properties that a worker holding a job
knows its deposit (`HasDeposit`), that the row it is about to write is of a
transfer it submitted, that has no row and is nobody else's (`AboutToLog`),
that the rows in the confirm worker's snapshot are final and stay so
(`DecidedRows`, `FinalIsDecided`), and that a worker comes to `finishJob` only
with the outcome on record (`FinishAfterRecord`). `Locked` adds that a held
job is not PENDING, which is why `updateMany` finds it for nobody else.
`Untouched` says that a job that can be taken or is being worked on has no live
row; only `LogBroadcast` adds one, and at `finish` the job is on its way out.
The refinement maps a transfer to its outcome on chain and to the status of
its row: `LogBroadcast` is `Enter`, `ConfirmSweep` and `FailSweep` are `Close`
if the row was open, `Finalize` is `Decide`, and everything else a stutter.

`AmountsSent` is inductive beside `Consistent`: the row is written with the balance that
was read (`AboutToLog` ties it to the transfer), `ChainKeepsTransfers` and
`SettleKeepsAmounts` say that neither side changes an amount afterwards.

Four more say how a job comes to its end. `OneTransferPerDeposit` is about the chain, where
`OneSweepPerDeposit` is about the table: `Unsent` says that a job which is PENDING or being
worked on, before its broadcast, has no transfer yet. Its premise asks for more. After an answer
that was lost (`ack`), or a failing database call after the broadcast, the job goes back to the
queue with a transfer on its way that has no row, and the deposit is submitted again; a crash
leaves the job PROCESSING, where nobody takes it. `SkippedForGood` keeps what the
lock gave at the moment of the note: nobody else was past `LockJob`, and the job does not become
PENDING again. `ProcessingIsHeld` is inductive by itself: every way out of a held job deletes it
or gives it back, but for the failures the premise names, which section 4 reports. `DoneTheorem`
needs no premise: a row that becomes CONFIRMED takes the job with it in one transaction, and none
comes back (`OnlyConfirmed` says that every row and every job in hand is of a confirmed deposit,
whose job is never created again). So a second sweep of a deposit, as in `sweep_twice`, must have
taken its job before the first was confirmed.

### SweepQueue

`DepositConfirm` cuts `SweepWorker` down to its outcomes and `Sweep` takes the confirmation in
one step, so each assumes
something of the other's half. That something is `SweepQueue`, and both implement it.
In `DepositConfirm` (`QueueTheorem`) a job that is `"none"`, `"PENDING"` or `"done"` maps
to one still to come, queued or gone; the guarded update makes `ConfirmDeposit` a `Confirm`
or a stutter, and `JobOnlyConfirmed` excludes a job that is there already. In `Sweep`
(`LeavesTheorem`) there is no `"done"`: a missing job is gone when its deposit is
CONFIRMED. `JobOfConfirmed` is kept, because a lock or a release never makes a job out of
none (`JobStays`): `FinishJob`, `ConfirmSweep` and `DropJob` are `Leave`, or a stutter where
another worker was first (`JobGoes`), and `QueueSweep` is `Confirm`.

### DepositRecord

Scan, confirmation and callback are modelled apart, and each takes something of the others for
granted: `DepositConfirm` detects a payment in one step, `Callback` begins with PENDING rows,
`TestConsole` moves a transaction from stage to stage. `DepositRecord` is what they agree on.
Its `Init` takes the story up anywhere, as long as the confirmed deposits and no others have a callback.

* `DepositScan` maps a stored transfer to DETECTED: `HandleEvent` is `Detect` or, for a row that
  exists, a stutter; all else stutters.
* `DepositConfirm` maps the number of callbacks to none, one or a value that the record does not
  know: a second callback would not be a step of it. The guarded update makes
  `ConfirmDeposit` a `Confirm` or a stutter, as row and callback go together (`OneCallbackPerConfirmed`).
* `Callback` has confirmed deposits only: `MarkSuccess` and a last `MarkFailure` are
  `Settle`, or `Overwrite` where another process was first, `RetryFailed` is `SetBack`.
* `TestConsole` has all of it in one variable: each way that `Onwards` offers is one action.

So what one of them takes for granted and what another does are steps of the same record, which
has the order of the steps of one deposit. That the modules, run together, would still each
behave as they do apart is not proved: there is no composed module (section 7).

### DepositConfirm

`NoFundsForgotten` speaks of wallets whose payments are all confirmed and says
nothing on the way there, where each deposit decides on a balance that was read
earlier. What is kept throughout is `Covered`: the money of a wallet above the
minimum has a PENDING job, or a transfer under way that leaves no more than the
minimum (`Leaving`), or a sweep of the wallet failed since its last payment, or there is a
payment to it still to be confirmed such that every process that has read the balance for it has seen
at least what the wallet holds (`Awaited`). A new payment raises the balance
and is itself awaited; a confirmation that used a smaller balance leaves the
younger payment awaited; a broadcast turns the job into a transfer of the whole balance; a
transfer that is executed only lowers it, and one that fails is what `failed` records. `InHand` says that deposits in
a snapshot were deep when fetched, and `JobOnlyConfirmed` that the job comes with
the confirmation, so that creating it never meets an existing one.

### Callback

Updates by id overwrite each other. What holds all the same rests on what a
worker knows of the rows in its hands (`InHand`): a row it is to mark as SUCCESS
was accepted, and the count it is to write is below the maximum unless it
writes FAILED with it. With one process more is known: the rows in hand are PENDING and
stay so until they are marked (`StillPending`), as the retry endpoints touch FAILED rows only;
so nothing overwrites SUCCESS, and FAILED comes with the last attempt (`GivenUpLate`).

### DepositScan

`InLoop` says where the loop stands (the block in hand follows the cursor, the
file is written with the block just committed), `BlockInHand` that the
transfers of the block in hand are stored, passed over or still to come, and
`FirstIsBehind` that a worker which starts without a cursor never starts behind
an earlier start. An event that is not served when its block is fetched goes to `unseen` in that
step, so no assumption about the event service is needed. The one premise is a real condition: section
4 says what happens without it. `StoredTheorem` adds that `lost` stays empty where no event fails.
`TableTheorem` has no premise: `InLoop` keeps the cycle SafetyBuffer blocks behind the head it
began with, which only grows, and with it the events in hand (`Buried`). It is what
`DepositConfirm` assumes of a payment it takes for detected (`Detect`, with `ScanLag`).
`OrderTheorem` follows from the same invariant: the block that is committed is the one after the
cursor, and the one that is saved is the cursor. It speaks of the worker between two starts: a start
without a file may go ahead, to `Lookback` blocks behind the chain (section 4).

### Reclaim

`Settling` is the inductive invariant: `Rows`, `Chain` and `Workforce`. A worker
decides to delete a job on a balance it read several awaits earlier, so
`NotGivenUp` needs what it knows on the way there. `GoodWorker` says that a process
at work has a job with a row and, through `Owing`, that as long as `owed` is set
the tokens it found are still in the wallet, before the fee, while the refill is
under way, and when the transfer of the tokens is, with the fee beside them. Each
way to lose them (another process, a sweep, a wait that was too short), and the end of
the transfer itself, executed or reverted,
clears `owed`, in every process at once, which is why `EffectOnWorkers` speaks of all
of them. `WaysTheorem` is the same seen from the rows: three places write them, the catch block
only where there is a live row (`CatchWays`), and the deletion with no debt. `ChosenIsFresh` is what makes `OneRowPerAuthor` inductive: between the two halves of
one `INSERT` no row of the same administrator appears for a wallet it has selected.

### Accounts (`RecordProofs`)

`Sound` adds to the property what the row lock of `user.update` gives
(`OneUpdate`: at most one update per user, which holds the lock) and what it does not:
a creation asks for the user without the lock. `UnracedIsActive` says that a creation
that has met no update still has an active user, `UnseenAreRaced` that a
wallet an update has not seen was created beside it, `HiddenAreWallets` that what it
has seen are wallets of its user. `HasWallet` holds because a user comes with its first wallet
and nothing deletes one.

### PartnerKeys (`RecordProofs`)

`RowsAgree`: hash and prefix of a row are written by one statement, under a unique index
on the prefix. So a key whose hash is stored is found by its prefix and by
nobody else's. `CheckIsRecent`: the row a request was looked up with was the
partner's at some moment since, which is all that can be said of a comparison that
takes its time.

### ExceptionLogs (`RecordProofs`)

`InHand`: a row about to be deleted was old and RESOLVED when it was checked, and
whatever has been written to it since is in `overlap`.

### BaseWorker and TronEvents (`LoopProofs`)

`WorkerSound`: `isRunning` is true exactly while a call of `process()` is under way, and before
the start there is none. So a tick in the middle of a call is a stutter of `SingleFlight` and any
other begins a call. `EventsSound`: until the loop over the pages ends, `all` has exactly the pages
before the one that is asked for, and `retry` counts the refusals of that page alone.

### The portal (`PortalProofs`)

* Session: `BaseIsServer` says that once the router is mounted the base URL is the server of
  the store. The guard mounts it after both rehydrations have ended, choosing a server changes both
  at once, and a page load starts over.
* Lists: `StatusShown` says that the status a request is sent with is the one the dropdown shows, and
  `WalletsKept` that every cached or expected list of wallets has the rows of the partner in its key.
  The key of the callback list has no partner: for it only what the request takes from
  the screen holds, and that is `BulkStaysWithPartner`.
* Pager: what is on the screen is the answer to the query of this page (`Brought`). The rest is
  arithmetic: lemmas on division by `PageSize` show that a list has as many pages as it takes
  (`PagesTaken`), that row n is on page (n - 1) / `PageSize` + 1 and on no other, and that
  one of "next", "previous" and the numbers of the group comes nearer to every page.
* Console: `Happened` says that the transaction of an answer is at least where the answer says, also
  when the two reads it was made of lie apart. A stage once left is not come back to except among the ends of the
  callback (`WaysTheorem` of `CallbackProofs` is why `Onwards` is complete for it, and `DepositRecord` that it
  allows nothing else), so what has happened stays so (`HappenedStays`).

### What is model-checked only

The liveness properties: those of the pipeline, and `ReclaimEnds`, `CyclesAlternate` (its safety half is
`AlternateTheorem`), `ResultShown`, `ExpiredSignedOut`, `ListFollowsPartner`. They need
fairness and `ENABLED`, which the prover does not support. `PlatformTypeOK` as a whole: it is
the conjunction of type invariants that are proved one by one, and of `Routes` and
`Requests`, which are not. `LinksLead` and `RequestsAccepted`: these two modules are about given
tables, without a constant but the number of clicks, and TLC goes through them exhaustively; a proof
would repeat that by cases, and `Routes` follows the tree with recursive functions,
about which nothing can be proved here by induction. The violated properties are refuted as they
stand, and proved under the premises above, `MutualExclusion` and `OneSweepPerDeposit` included.

## 6. What is not modelled

* `GasRefillWorker`: not registered in `WorkerModule`, it never runs.
* Withdrawals: rows are stored and listed, no code processes them. Their routes and
  DTOs are in `Requests`.
* Balances, listings, dashboards: single queries that only read.
* Sign-in and members on the server: single-row operations behind libraries for
  tokens and hashes. The forms and routes are in `Requests`, the session that comes of a sign-in in `Session`.
* `waitForConfirm` (without a caller), `createAccount` and the pass-through
  endpoints of `infra/tron` and of the proxy to an external service; the rate limit inside `DepositWorker`'s
  fetch is waited out in `FetchEvents`, and step by step in `TronEvents`.
* `CallbackService.update`: it changes the URL of a row, which no other step depends on.
* Encryption and environment: pure computation. Where a key fails to decrypt is `KeyFails`.
* Rendering, themes, icons, `portal/core/extensions.ts`, `TxCoolTable` (unused), the
  multiple choice dropdown, the cells of the grid. That clearing a cell of the grid may send
  `null` depends on the grid library and is left out.
* The health check's call to the database.
* A deposit that fails for ever (`worker/confirm.worker.ts:24`): the models bound
  failures, so that no property covers the sweeps it would hold up.

## 7. Plan

1. Done: `Sweep`, `SweepLedger`, `DepositConfirm`, `Callback`, `DepositScan`, the
   proofs of their safety properties and of the refinement.
2. Done: `Reclaim`, `Accounts`, `PartnerKeys`, `ExceptionLogs` and their proofs;
   `BaseWorker` with `SingleFlight`, `TronEvents`, `TestConsole`, and the proofs of these.
3. Done: the portal's `Session`, `Routes`, `Requests`, `ListPage`, `Pager`, and the proofs
   of all but `Routes` and `Requests`; `SweepQueue`, which two models of the pipeline implement.
4. Done: the seams between scan, confirmation, sweep and callback, as what both sides of each
   implement: `DepositRecord` for the deposit and its callback, `SweepQueue` for its job; and the
   proofs about where jobs and transfers end.
5. Open: the pipeline as one module over shared state. It would show that the parts need nothing
   of each other but these records; today `Callback` has all its rows from the start, and
   `DepositConfirm` knows of a sweep only its outcomes.
6. Open: `Reclaim` and `Sweep` composed in full: now `Reclaim` has a sweep of its wallets as one
   step, and `Sweep` knows a reclaim only as a transfer that reverts.
