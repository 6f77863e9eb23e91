\* One process, two jobs for one wallet, one row per confirm cycle; a call to the
\* node may be refused.
SPECIFICATION FairSpec
CONSTANTS
  d1 = d1  d2 = d2  w1 = w1  hot = hot  i1 = i1  i2 = i2  h1 = h1  h2 = h2
  Deposits = {d1, d2}
  Wallets = {w1, hot}
  HotWallet = hot
  WalletOf <- SharedWallet
  Amount <- UnitAmount
  RoundsDown = {}
  Instances = {i1}
  TxHash = {h1, h2}
  Take = 1
  None = None
  Faults = {"chain"}
  MaxFaults = 1
  MaxRefills = 1
PROPERTIES QueueDrains SweepSettles
