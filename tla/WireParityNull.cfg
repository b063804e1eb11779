SPECIFICATION ParitySpec
CONSTANTS MaxEdits = 0
INVARIANT PassedMeansAligned
CHECK_DEADLOCK FALSE
