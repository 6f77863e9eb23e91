\* The database may fail once.
SPECIFICATION Spec
CONSTANTS
  d1 = d1  d2 = d2  w1 = w1  hot = hot  i1 = i1  i2 = i2  h1 = h1  h2 = h2
  Deposits = {d1, d2}
  Wallets = {w1, hot}
  HotWallet = hot
  WalletOf <- SharedWallet
  Amount <- UnitAmount
  RoundsDown = {}
  Instances = {i1}
  TxHash = {h1, h2}
  Take = 2
  None = None
  Faults = {"db"}
  MaxFaults = 1
  MaxRefills = 1
INVARIANT OneSweepPerDeposit
