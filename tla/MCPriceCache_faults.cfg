SPECIFICATION Spec
CONSTANTS
  listed = listed
  p1 = p1
  p2 = p2
  None = None
  Runs <- TwoRuns
  Tokens <- OneToken
  ChartDays <- EveryDay
  ProviderDays <- LastDayOnly
  Poison <- OldPoison
  LastDay = 1
  MaxSpan = 2
  FailureLimit = 1
  Overnight = FALSE
  Late = TRUE
SYMMETRY Interchangeable
PROPERTY MissesAreReal
PROPERTY PricesStay
PROPERTY RepriceComplete
