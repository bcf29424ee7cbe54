SPECIFICATION FairSpec
CONSTANTS
  t1 = t1
  t2 = t2
  None = None
  Workers = {w1}
  Users = {"ann", "eve"}
  Registered = {"ann"}
  Tokens = {t1, t2}
  Requests <- PresenceRequests
  LossyRedis = FALSE
  Faults = FALSE
  Checking = TRUE
  Expiring = {"session", "heartbeat"}
INVARIANTS
  LiveIsCurrent
  LogoutLeavesNoTrace
PROPERTY
  SilentLeavesOnline
