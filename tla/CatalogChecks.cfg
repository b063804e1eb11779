SPECIFICATION Spec
CONSTANTS
  Tokens = {t1, t2}
  None = None
  Environments <- MCEnvironments
  Faults = 0
INVARIANTS
  ChecksAnswer
CHECK_DEADLOCK FALSE
