SPECIFICATION Spec
CONSTANTS
  dashboard = dashboard
  cli = cli
  old = old
  Scanners <- TwoScanners
  Pools <- OnePool
  Born <- AllOld
  HistoryEpochs = 3
  LastWeek = 6
INVARIANT StoredIsFinal
INVARIANT NoHoleInside
