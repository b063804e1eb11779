SPECIFICATION ParitySpec
CONSTANTS MaxEdits = 1
INVARIANT EveryModelIsCompared
CHECK_DEADLOCK FALSE
