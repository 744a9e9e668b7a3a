SPECIFICATION TaggingSpec
CONSTANTS
  Events <- SomeEvents
  Tracked <- SomeTracked
  RuleBook <- SomeRules
  HandTags <- SomeHandTags
  HandPriced <- SomePrices
  Switched <- SomeSwitched
  Adapted <- SomeAdapted
  Window = 2
INVARIANT BackupRestores
INVARIANT OwnTransfersTagged
INVARIANT HistoryFree
INVARIANT FirstRuleWins
INVARIANT VaultFlowsOnce
INVARIANT PagesAgree
