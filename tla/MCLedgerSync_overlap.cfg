SPECIFICATION Spec
CONSTANTS
  p = p
  q = q
  Nobody = Nobody
  Runs <- TwoRuns
  Wallets <- One
  Chain <- TradeChain
  Sender <- TradeSender
  MaxHead = 2
  MaxFaults = 1
  Overlap = TRUE
INVARIANT NoDoubleCount
PROPERTY ImplementsMirror
