SPECIFICATION Spec
CONSTANTS
  e1 = e1
  Executions = {e1}
  MaxRuns = 3
  MaxItems = 3
  MaxReadings = 1
  MaxDecisions = 3
  Budget <- NoFaults
PROPERTY LatestDecisionWins
CHECK_DEADLOCK FALSE
