SPECIFICATION Spec
CONSTANTS
  r1 = r1
  r2 = r2
  Releases = {r1, r2}
  MaxTime = 2
  Junk = Junk
  None = None
INVARIANTS
  TypeOK
  ReadyMeansApproved
  MismatchHasACause
CHECK_DEADLOCK FALSE
