\* Storing one event fails.
SPECIFICATION Spec
CONSTANTS
  t1 = t1  t2 = t2  t3 = t3  t4 = t4  x1 = x1  x2 = x2  x3 = x3  x4 = x4
  Transfers = {t1, t2, t3, t4}
  TxOf <- OwnTx
  BlockOf <- Blocks
  UseCursor = TRUE
  SafetyBuffer = 2
  Lookback = 3
  BlocksPerCycle = 2
  EventLag = 2
  FirstHead = 4
  MaxHead = 8
  Faults = {"event"}
  MaxFaults = 1
INVARIANT EveryTransferStored
