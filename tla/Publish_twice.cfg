SPECIFICATION Spec
CONSTANTS
  r1 = r1
  r2 = r2
  i1 = i1
  a1 = a1
  a2 = a2
  Runs = {r1, r2}
  Refreshes = {}
  Items = {i1}
  Assumptions = {a1, a2}
  MaxVersion = 3
  KeepVersions = 3
  Budget <- NoEvents
  None = None
INVARIANT PublishedStaysServed
CHECK_DEADLOCK FALSE
