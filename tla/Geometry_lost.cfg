SPECIFICATION GeometrySpec
CONSTANTS
  Plans = {p1, p2}
  NoPlan = NoPlan
  Stagers = {s1, s2}
  Drawings = {{"landUse"}, {"own"}, {"own", "landUse"}}
  MaxDatasets = 2
  MaxBatches = 2
PROPERTY PublishedIsApplied
CHECK_DEADLOCK FALSE
