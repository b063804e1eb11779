SPECIFICATION Spec
CONSTANTS
  Calls = {c1, c2, c3}
  Accounts = {acct}
  Blank = blank
  None = None
  Scopes = {"ACCOUNT", "GLOBAL"}
INVARIANTS
  TypeOK
  OkIsInForce
  AnsweredCallsAreOver
  AskingAgainIsSafe
SYMMETRY Symmetry
CHECK_DEADLOCK FALSE
