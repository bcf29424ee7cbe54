SPECIFICATION HurtSpec
CONSTANTS
  c1 = c1
  c2 = c2
  None = None
  Workers = {w1}
  Users = {1, 2}
  Registered = {1, 2}
  ChatIds = {c1}
  Requests <- MemberRequests
  LossyRedis = FALSE
  Faults = FALSE
INVARIANTS
  ParticipantAdmitted
