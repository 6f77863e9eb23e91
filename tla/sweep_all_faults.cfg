\* Two processes after one job; any two failures.
SPECIFICATION Spec
CONSTANTS
  d1 = d1  d2 = d2  w1 = w1  hot = hot  i1 = i1  i2 = i2  h1 = h1  h2 = h2
  Deposits = {d1}
  Wallets = {w1, hot}
  HotWallet = hot
  WalletOf <- OneDeposit
  Amount <- OneAwkward
  RoundsDown = {249, 498}
  Instances = {i1, i2}
  TxHash = {h1, h2}
  Take = 2
  None = None
  Faults = {"chain", "ack", "db", "lock", "crash"}
  MaxFaults = 2
  MaxRefills = 1
SYMMETRY ProcessSymmetry
INVARIANTS TypeOK NoJobDropped LedgerMatchesChain
PROPERTY RefinesLedger
