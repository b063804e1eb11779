SPECIFICATION FairSpec
CONSTANTS
  Calls = {c1, c2}
  Offered <- MCAllTools
  Approvals <- MCApprovals
  MaxTime = 2
  None = None
INVARIANTS
  TypeOK
  CarriedOutInOrder
  PlansRestOnCheckedApprovals
  PreparedPlansAreCoherent
PROPERTIES
  AnsweredMeansSettled
  EveryCallEnds
  ImplementsToolCall
CHECK_DEADLOCK FALSE
