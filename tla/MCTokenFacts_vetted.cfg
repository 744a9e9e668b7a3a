SPECIFICATION Spec
CONSTANTS
  a = a
  b = b
  usdc = usdc
  bribe = bribe
  Scanners <- TwoScanners
  Pair <- ThePair
  Bribes <- TheBribes
  Majors <- ThePair
  TokenSafety = TRUE
  Filters <- AllGates
  TTL = 0
  MaxClock = 1
  MaxScans = 3
  MaxMishaps = 2
SYMMETRY SameScanners
INVARIANTS
  SuggestionsAreVetted
  AgeGateIsTrue
CHECK_DEADLOCK FALSE
