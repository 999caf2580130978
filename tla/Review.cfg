SPECIFICATION Spec
CONSTANTS
  e1 = e1
  e2 = e2
  Executions = {e1, e2}
  MaxRuns = 2
  MaxItems = 3
  MaxReadings = 2
  MaxDecisions = 3
  Budget <- Redelivered
SYMMETRY Workers
INVARIANTS TypeOK RunReadsOnce
PROPERTIES ReplacedStaysOut ValueKept RejectedKeptOut
CHECK_DEADLOCK FALSE
