SPECIFICATION FairSpec
CONSTANTS
  t1 = t1
  t2 = t2
  svc = svc
  alice = alice
  bob = bob
  Calls = {c1}
  Tokens = {t1, t2, svc}
  ServiceToken = svc
  Subjects = {alice, bob}
  OwnerOf <- MCOwnerOf
  Offered <- MCThreeTools
  Accounts = {acct}
  None = None
INVARIANTS
  TypeOK
  DeedsAreVerified
  NoServiceTokenOnAdminPath
  AnswersMatchDeeds
PROPERTIES
  VerificationBindsTheCall
  EveryCallEnds
  ImplementsToolCall
CHECK_DEADLOCK FALSE
