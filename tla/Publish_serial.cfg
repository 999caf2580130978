SPECIFICATION ServingSpec
CONSTANTS
  r1 = r1
  f1 = f1
  i1 = i1
  i2 = i2
  a1 = a1
  p1 = p1
  p2 = p2
  s1 = s1
  s2 = s2
  Runs = {r1}
  Refreshes = {f1}
  Items = {i1, i2}
  Assumptions = {a1}
  MaxVersion = 3
  KeepVersions = 2
  Budget <- StepsFail
  None = None
  Plans = {p1, p2}
  NoPlan = NoPlan
  Stagers = {s1, s2}
  Drawings = {{"landUse"}, {"own"}}
  MaxDatasets = 3
  MaxBatches = 3
SYMMETRY ServingSymmetry
INVARIANTS PublishedStaysServed FailureLeavesNothing
INVARIANTS LandUseKept RejectedStaysOut OneRunUnderReview
CHECK_DEADLOCK FALSE
