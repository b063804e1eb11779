SPECIFICATION PagesSpec
CONSTANTS
  Kind = "live_read"
  Limits = {0, 1, 2}
  DefaultLimit = 3
  MaxLog = 4
INVARIANTS
  PagesHaveNoGaps
  FinishedIsComplete
CHECK_DEADLOCK FALSE
