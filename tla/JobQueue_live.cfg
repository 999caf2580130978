SPECIFICATION FairSpec
CONSTANTS
  Jobs = {j1, j2}
  Keys = {k1}
  Callers = {c1, c2}
  Workers = {w1, w2}
  None = None
  MaxAttempts = 2
  MaxManualRetries = 0
  FaultBudget <- BrokerTrouble
PROPERTIES EventuallyFinal
CHECK_DEADLOCK FALSE
