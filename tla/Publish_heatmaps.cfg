SPECIFICATION FairSpec
CONSTANTS
  r1 = r1
  r2 = r2
  f1 = f1
  a1 = a1
  a2 = a2
  Runs = {r1, r2}
  Refreshes = {f1}
  Items = {}
  Assumptions = {a1, a2}
  MaxVersion = 2
  KeepVersions = 2
  Budget <- PriceChanges
  None = None
INVARIANT HeatmapRight
PROPERTY RunsEnd
CHECK_DEADLOCK FALSE
