SPECIFICATION Spec
CONSTANTS
  t1 = t1
  t2 = t2
  svc = svc
  alice = alice
  bob = bob
  Calls = {c1, c2}
  Tokens = {t1, svc}
  ServiceToken = svc
  Subjects = {alice, bob}
  OwnerOf <- MCOneOwner
  Offered <- MCSwitch
  Accounts = {acct}
  None = None
INVARIANTS
  AnswersMatchDeeds
  FlowInv
CHECK_DEADLOCK FALSE
