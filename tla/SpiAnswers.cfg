SPECIFICATION SpiSpec
CONSTANTS
  Configs <- CommandConfigs
  SpiRates = {16}
  Bauds = {2}
  DivMask = 3
  TxDepth = 8
  RxDepth = 8
  MaxTransfers = 2
  MaxTimeouts = 1
INVARIANT SucceedsWithItsOwn
