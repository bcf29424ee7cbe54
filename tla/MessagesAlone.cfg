SPECIFICATION Spec
CONSTANTS
  ann = ann
  bob = bob
  eve = eve
  zed = zed
  None = None
  Workers = {w1}
  Users = {ann, bob}
  Registered = {ann, bob}
  Members = {ann, bob}
  Precedes <- TextOrder
  MaxId = 3
  MaxTime = 1
  Window = 0
  Keep = 2
  DefaultLimit = 2
  Requests <- AloneRequests
  PartialMembers = FALSE
  LossyRedis = FALSE
  Faults = FALSE
  Expiring = {"copy", "timeline", "preview"}
INVARIANTS
  CopyFresh
  TimelineGapless
  UnreadExact
  PreviewFresh
