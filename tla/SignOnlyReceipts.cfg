SPECIFICATION Spec
CONSTANTS
  Calls = {c1}
  Executions = {x1}
  Colons = {}
  Events = {e1}
  Plans = {p1}
  Digests = {d1, d2}
  Garbled = {d2}
  None = None
INVARIANTS
  ConformingConstructionsAreAccepted
CHECK_DEADLOCK FALSE
