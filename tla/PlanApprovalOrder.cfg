SPECIFICATION Spec
CONSTANTS
  Calls = {c1}
  Offered <- MCAllTools
  Approvals <- MCApprovals
  MaxTime = 1
  None = None
INVARIANTS
  ApprovalFollowsDecision
CHECK_DEADLOCK FALSE
