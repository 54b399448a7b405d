SPECIFICATION Spec
CHECK_DEADLOCK FALSE
CONSTANTS
  Client = {c1, c2}
  QueueSize = 1
  HubChannelSize = 2
  MaxEvents = 3
  MaxRequests = 1
  MaxRedisErrors = 1
  MaxRestarts = 1
SYMMETRY ClientSymmetry
INVARIANTS
  FeedIInv
  NoGap
  LossIsVisible
  ListReplaysBook
