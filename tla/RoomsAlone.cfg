SPECIFICATION Spec
CONSTANTS
  r1 = r1
  None = None
  Workers = {w1}
  Users = {"ann", "bob", "eve"}
  Registered = {"ann", "bob"}
  Rooms = {r1}
  Names = {"new"}
  Requests <- AloneRequests
  LossyRedis = FALSE
  Faults = FALSE
  Expiring = TRUE
INVARIANTS
  RolesFresh
  MembersFresh
  CountFresh
PROPERTIES
  OwnerKept
  ActsByPresentRole
