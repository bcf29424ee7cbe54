SPECIFICATION Spec
CONSTANTS
  None = None
  Workers = {w1, w2}
  Names = {"ann", "bob"}
  Nicks = {"x", "y"}
  MaxId = 3
  FriendsLimit = 1
  Requests <- AccountRequests
  LossyRedis = FALSE
  Faults = TRUE
  Expiring = {"user", "friends"}
SYMMETRY Alike
INVARIANTS
  TypeOK
  NamesTrue
  ProfilesHeld
PROPERTIES
  WritersRepair
  RegisterSpec
