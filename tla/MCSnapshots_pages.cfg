SPECIFICATION Spec
CONSTANTS
  p = p
  q = q
  x = x
  Openers <- TwoRuns
  Runs <- TwoRuns
  Build <- Latest
  Scripts <- ShortScripts
  Groups <- ThreeGroups
  Pools <- OnePool
  Nobody = Nobody
  NoRun = NoRun
  MaxKills = 1
  MaxClock = 3
  MaxCuts = 1
  Overlap = TRUE
SYMMETRY SameRuns
CHECK_DEADLOCK FALSE
INVARIANT OpenMeansReady
INVARIANT ShownIsWhole
INVARIANT NeverOutdated
INVARIANT RewardsInSight
