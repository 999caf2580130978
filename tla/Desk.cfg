SPECIFICATION DeskSpec
CONSTANTS
  s1 = s1
  s2 = s2
  x1 = x1
  x2 = x2
  f1 = f1
  Staff = {s1, s2}
  Experts = {x1, x2}
  Files = {f1}
  Amounts = {100, 150}
  None = None
  Extractors = {x1, x2}
  Admins = {s1, s2}
  MaxRuns = 2
  MaxSteps = 2
  MaxTries = 2
  Troubles <- FaultPairs
SYMMETRY Symmetric
INVARIANTS RowBacksClaims AuditTellsStatus
INVARIANTS DetachedIsQuiet ReadOnce
PROPERTIES DeliveredByAssignee LifecycleKept StepPaidOnce
CHECK_DEADLOCK FALSE
