SPECIFICATION OfficeSpec
CONSTANTS
  land = land
  sale = sale
  a1 = a1
  a2 = a2
  o1 = o1
  o2 = o2
  o3 = o3
  Metrics = {land, sale}
  Items = {o1, o2, o3}
  MetricOf <- MetricOfItem
  Clerks = {a1, a2}
  MaxVersions = 3
  MaxDecisions = 3
  MaxAdmins <- AdminsByVersions
  MaxDay = 1
  Letters = {o1, o2}
  Requests = {a1, a2}
  Postmen = {a1, a2}
  Browsers = {a1, a2}
  MaxAttempts = 2
  MaxMints = 2
  MaxSwitches = 1
  MaxFaults <- FaultsByLetters
  Readers = {a1, a2}
  Stamped = {"version", "coverage"}
  Unstamped = {"adopted_on"}
  Advancing = {"version"}
  MaxChanges = 2
  Codes = {o3}
  NoCode = NoCode
  Editors = {a1, a2}
  MaxRows = 3
  Panels <- PanelsToOpen
  Whole = 2
  Nothing = NoValue
  NoValue = NoValue
  DefaultShare = 2
  SliderMin <- LowestOf
  SliderMax <- HighestOf
  ServerLimit <- HighestTaken
  Servers = {s1}
  s1 = s1
  Searches = {o1, o2}
  Nobody = Nobody
  Interval = 2
  MaxWait = 1
  FailOpen = 2
  Backoff = 1
  MaxNow = 2
  MaxSlots = 3
  MaxOutages = 2
  MaxRestarts = 1
INVARIANTS Provenance CarriedOver FirstVersionArrives
INVARIANTS SignInSafe OneLinkAtATime SentAsLogged NotForgotten
INVARIANTS FreshUnlessRecurred RegisterKept RangesCover SlotsSpaced
PROPERTIES AppliedIsClosed OnlyDependents
SYMMETRY Symmetry
CHECK_DEADLOCK FALSE
