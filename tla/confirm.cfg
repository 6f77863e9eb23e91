\* Two processes, three deposits to two wallets, two rows per cycle, two cycles cut short.
SPECIFICATION FairSpec
CONSTANTS
  w1 = w1  w2 = w2  i1 = i1  i2 = i2
  N = 3
  Wallets = {w1, w2}
  WalletOf <- ThreeDeposits
  Amount <- SmallAmounts
  Instances = {i1, i2}
  Confirmations = 2
  ScanLag = 1
  Minimum = 1
  Take = 2
  MaxHead = 4
  MaxFaults = 2
INVARIANTS TypeOK OneCallbackPerConfirmed ConfirmedIsDeep NoFundsForgotten
PROPERTY DeepGetsConfirmed
