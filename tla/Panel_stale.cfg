SPECIFICATION PanelSpec
CONSTANTS
  Readers = {r1, r2}
  Stamped = {"version", "coverage"}
  Unstamped = {"adopted_on"}
  Advancing = {"version"}
  MaxChanges = 3
INVARIANTS NothingStale
CHECK_DEADLOCK FALSE
