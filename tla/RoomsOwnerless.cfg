SPECIFICATION Spec
CONSTANTS
  r1 = r1
  None = None
  Workers = {w1}
  Users = {"ann", "bob"}
  Registered = {"ann", "bob"}
  Rooms = {r1}
  Names = {"new"}
  Requests <- OwnerRequests
  LossyRedis = FALSE
  Faults = FALSE
  Expiring = FALSE
PROPERTIES
  OwnerRemains
