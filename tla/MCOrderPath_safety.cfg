SPECIFICATION PathSpec
CHECK_DEADLOCK FALSE
CONSTANTS
  Order = {o1, o2, o3}
  Broker = {b1}
  NoBroker = NoBroker
  User = {u1}
  NoUser = NoUser
  PublicKey = {k1, k2}
  NoKey = NoKey
  AssetId <- Assets
  AmountStep = 2
  PriceStep <- PriceSteps
  FundsStep <- FundsSteps
  QuoteMin <- QuoteMins
  MaxPrice = 3
  MaxAmount = 3
  RefundFee = 1
  FeeScale = 1000
  AnyContent <- Contents
  FewContent <- LongLogs
  PageLimit = 3
  ValuesCase <- AllValues
  RetriesCase <- AllRetries
  MaxSnapshots = 3
  SnapshotTies = 2
  PollerRestarts = 1
  MaxFailures = 1
  MaxLostReplies = 0
  ActionLimit = 2
  ActionTime = 2
  EngineRestarts = 1
  ListLimit = 2
  ListTime = 3
  ListTies = 2
  MaxSkew = 1
  Sender = {s1, s2, s3}
  MutexKey = {m1}
  NoMutexKey = NoMutexKey
  MaxMutexes = 4
INVARIANTS
  OrdersFitTheEngine
  EntriesArePlaced
  ActionsReachTheBook
  ListsAreComplete
  TransfersAreRight
PROPERTIES
  SnapshotsAreKept
