SPECIFICATION HurtSpec
CONSTANTS
  c1 = c1
  c2 = c2
  None = None
  Workers = {w1, w2}
  Users = {1, 2, 3}
  Registered = {1, 2}
  ChatIds = {c1, c2}
  Requests <- RaceRequests
  LossyRedis = TRUE
  Faults = TRUE
SYMMETRY Alike
INVARIANTS
  TypeOK
  OneChatPerPair
  CachesTrue
  LocalsTrue
  RefusedOnlyIfChatExists
PROPERTY
  DirectorySpec
