SPECIFICATION Spec
CONSTANTS
  Tokens = {t1, t2}
  None = None
  Environments <- MCEnvironments
  Faults = 2
INVARIANTS
  TypeOK
  OfferedToolsRun
  SchemaFollowersAreServed
  WhatIsSentIsComplete
CHECK_DEADLOCK FALSE
