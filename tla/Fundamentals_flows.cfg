SPECIFICATION ResearchSpec
CONSTANTS
  exercisable = {"fundamentals"}
  Panels = {p1, p2}
  Days = {0, 90, 180, 270, 360, 450, 540}
  Coverage <- Reported
  MaxLag = 90
  MaxReports = 5
  None = None
  Raised = Raised
  NaN = NaN
  Symbols = {1, 2, 3}
  MaxTime = 4
  MaxCommits = 2
  MaxMatrices = 2
  MaxSupplied = 1
  MaxDay = 3
  MaxChanges = 3
INVARIANT FlowsAreLatestFour
CHECK_DEADLOCK FALSE
