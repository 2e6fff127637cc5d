SPECIFICATION StoresSpec
CONSTANTS
  Clients = {w1, w2}
  Readers = {r1}
  Parts = {a, b}
  MaxWrites = 3
  MaxTime = 3
  TTLs = {0, 1}
  Keys = {k1}
  Values = {v1, v2}
  Absent = Absent
  Error = Error
  MaxRevision = 3
SYMMETRY Symmetry
INVARIANT GetAnswers
CHECK_DEADLOCK FALSE
