SPECIFICATION FairSpec
CONSTANTS
  Clicks <- TwoClicks
  Scans <- VotesOnly
  StaleSeconds = 2
  StartupDelays <- Startup
  Intervals <- Cadence
  RetryBase = 1
  RetryCap = 3
  MaxFailures = 3
  MaxCrashes = 2
  LongWrites = TRUE
INVARIANT TypeOK
INVARIANT OneSyncHere
INVARIANT OneScanEach
PROPERTY ImplementsLease
PROPERTY ResultStays
PROPERTY KeepsTrying
PROPERTY CorpseCleared
