SPECIFICATION Spec
CONSTANTS
  s1 = s1
  s2 = s2
  Symbols = {s1, s2}
  NBars = 3
  MaxDecisions = 3
  Settings <- MCSettings
  Relatives <- MCRelatives
  TargetsOf <- MCTargetsOf
  None = None
SYMMETRY Alike
INVARIANT
  DriftIsMarked
CHECK_DEADLOCK FALSE
