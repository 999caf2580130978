SPECIFICATION Spec
CONSTANTS
  r1 = r1
  r2 = r2
  f1 = f1
  a1 = a1
  Runs = {r1, r2}
  Refreshes = {f1}
  Items = {}
  Assumptions = {a1}
  MaxVersion = 4
  KeepVersions = 2
  Budget <- Troubles
  None = None
SYMMETRY Symmetric
INVARIANTS ServedArchiveExists RetainedArchivesExist
CHECK_DEADLOCK FALSE
