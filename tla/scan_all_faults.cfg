\* Every kind of failure, three in all, and events that are served a block later
\* than a worker that is up with the chain asks for them.  A worker whose init
\* failed stops: no deadlock is looked for.
SPECIFICATION FairSpec
CONSTANTS
  t1 = t1  t2 = t2  t3 = t3  t4 = t4  x1 = x1  x2 = x2  x3 = x3  x4 = x4
  Transfers = {t1, t2, t3, t4}
  TxOf <- OwnTx
  BlockOf <- Blocks
  UseCursor = TRUE
  SafetyBuffer = 2
  Lookback = 3
  BlocksPerCycle = 2
  EventLag = 3
  FirstHead = 4
  MaxHead = 9
  Faults = {"init", "fetch", "event", "file", "crash", "torn"}
  MaxFaults = 3
INVARIANTS TypeOK EveryTransferHandled FileBehindTable
PROPERTY ScanKeepsUp
CHECK_DEADLOCK FALSE
