SPECIFICATION Spec
CONSTANTS
  Chain <- PaymentsChain
  Silent <- Rebase
  Own <- Sent
  MaxRounds = 2
  MaxHead = 4
  MaxFaults = 1
INVARIANT NeverTwice
INVARIANT ReportIsTrue
INVARIANT BisectionIsSound
INVARIANT FeesFollow
