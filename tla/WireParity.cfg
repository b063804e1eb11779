SPECIFICATION ParitySpec
CONSTANTS MaxEdits = 2
INVARIANT PassedRefusalsAreOfValues
CHECK_DEADLOCK FALSE
