SPECIFICATION Spec
CONSTANTS
  Calls = {c1, c2, c3}
  Executions = {x1}
  Keys = {k1, k2}
  Plans = {p1, p2}
  None = None
  Missing = Missing
  Statuses = {"BLOCKED", "POSTED"}
INVARIANTS
  TypeOK
  EndingsMatchEffects
  RetriesAreOneSubmission
  MissingIsFinal
SYMMETRY Symmetry
CHECK_DEADLOCK FALSE
