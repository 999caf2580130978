SPECIFICATION Spec
CONSTANTS
  Jobs = {j1, j2}
  Keys = {k1}
  Callers = {c1, c2}
  Workers = {w1, w2}
  None = None
  MaxAttempts = 2
  MaxManualRetries = 1
  FaultBudget <- HarshFaults
SYMMETRY Symmetric
INVARIANTS TypeOK OneActivePerKey NeverStranded OneBodyPerJob
PROPERTY LifecycleKept
CHECK_DEADLOCK FALSE
