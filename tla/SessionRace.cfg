SPECIFICATION Spec
CONSTANTS
  t1 = t1
  t2 = t2
  None = None
  Workers = {w1, w2}
  Users = {"ann", "bob"}
  Registered = {"ann", "bob"}
  Tokens = {t1, t2}
  Requests <- SessionRequests
  LossyRedis = FALSE
  Faults = TRUE
  Checking = FALSE
  Expiring = {"session", "user"}
SYMMETRY Alike
INVARIANTS
  TypeOK
  SessionsOwned
  LogoutEnds
PROPERTY
  EndedStaysEnded
