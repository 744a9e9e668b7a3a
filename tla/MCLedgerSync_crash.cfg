SPECIFICATION FairSpec
CONSTANTS
  p = p
  q = q
  Nobody = Nobody
  Runs <- OneRun
  Wallets <- Both
  Chain <- SmallChain
  Sender <- SmallSender
  MaxHead = 2
  MaxFaults = 1
  Overlap = FALSE
INVARIANT NothingLost
INVARIANT FeesComplete
PROPERTY EventuallyRecorded
