SPECIFICATION Spec
CONSTANTS
  ann = ann
  bob = bob
  eve = eve
  zed = zed
  None = None
  Workers = {w1, w2}
  Users = {ann, bob, eve, zed}
  Registered = {ann, bob, eve}
  Members = {ann, bob}
  Precedes <- TextOrder
  MaxId = 2
  MaxTime = 0
  Window = 0
  Keep = 2
  DefaultLimit = 2
  Requests <- RaceRequests
  PartialMembers = TRUE
  LossyRedis = FALSE
  Faults = TRUE
  Expiring = {"copy"}
SYMMETRY Alike
INVARIANTS
  TypeOK
  CopiesTrue
  UnreadBounded
PROPERTY
  ConversationSpec
