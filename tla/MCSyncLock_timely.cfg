SPECIFICATION TimelySpec
CONSTANTS
  r1 = r1
  r2 = r2
  r3 = r3
  Runs <- Three
  Nobody = Nobody
  StaleSeconds = 1
  MaxTime = 4
  MaxWrites = 1
SYMMETRY Interchangeable
INVARIANT WorkingIsShown
INVARIANT MutualExclusion
PROPERTY ImplementsLease
CHECK_DEADLOCK FALSE
