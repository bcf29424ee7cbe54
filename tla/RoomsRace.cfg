SPECIFICATION Spec
CONSTANTS
  r1 = r1
  None = None
  Workers = {w1, w2}
  Users = {"ann", "bob"}
  Registered = {"ann", "bob"}
  Rooms = {r1}
  Names = {"new"}
  Requests <- RaceRequests
  LossyRedis = FALSE
  Faults = TRUE
  Expiring = FALSE
SYMMETRY Alike
INVARIANTS
  TypeOK
  CachesHeld
  Authorised
