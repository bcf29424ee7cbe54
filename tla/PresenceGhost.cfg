SPECIFICATION FairSpec
CONSTANTS
  t1 = t1
  t2 = t2
  None = None
  Workers = {w1}
  Users = {"ann"}
  Registered = {"ann"}
  Tokens = {t1}
  Requests <- SilentRequests
  LossyRedis = FALSE
  Faults = FALSE
  Checking = TRUE
  Expiring = {"session", "heartbeat", "user"}
PROPERTY
  SilentGoesOffline
