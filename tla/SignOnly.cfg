SPECIFICATION Spec
CONSTANTS
  Calls = {c1, c2}
  Executions = {x1, x2}
  Colons = {x2}
  Events = {e1}
  Plans = {p1}
  Digests = {d1, d2}
  Garbled = {d2}
  None = None
INVARIANTS
  TypeOK
  UnreadableHasACause
  AttemptsLeaveOneRecord
  EndingsMatchTheLog
SYMMETRY Symmetry
CHECK_DEADLOCK FALSE
