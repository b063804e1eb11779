SPECIFICATION Spec
CONSTANTS
  r1 = r1
  r2 = r2
  Releases = {r1, r2}
  MaxTime = 1
  Junk = Junk
  None = None
INVARIANTS
  SidecarBindsTheReport
CHECK_DEADLOCK FALSE
