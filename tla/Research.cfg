SPECIFICATION ResearchSpec
CONSTANTS
  exercisable = {"fundamentals", "release", "membership", "adjustments", "decisions", "overlays", "calendar"}
  Panels = {p1, p2}
  Days = {0, 90, 180, 270, 360, 450}
  Coverage <- Reported
  MaxLag = 90
  MaxReports = 5
  None = None
  Raised = Raised
  NaN = NaN
  Symbols = {1, 2, 3}
  MaxTime = 3
  MaxCommits = 2
  MaxMatrices = 2
  MaxSupplied = 1
  MaxDay = 3
  MaxChanges = 3
SYMMETRY Symmetry
INVARIANTS
  ResearchTypes
  PdfIsOneRelease
  RerunsReproduceReviewed
  MembershipIsHistory
  ReturnsArePreserved
  NothingForeseen
  DecisionsStand
  HistorySuffices
  TargetsWithinLimits
PROPERTIES
  OverlaysRestrain
CHECK_DEADLOCK FALSE
