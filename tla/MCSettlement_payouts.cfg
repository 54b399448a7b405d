SPECIFICATION FairSpec
CHECK_DEADLOCK FALSE
CONSTANTS
  Order = {o1, o2}
  Broker = {b1, b2}
  QuoteMinimum = 1
  MaxPrice = 2
  Price = {2}
  AskAmount = {2}
  BidFunds = {1, 5}
  AmountGrain = 3
  FundsGrain = 1
  FeeScale = 4
  TakerFee = 1
  MakerFee = 0
  RefundFee = 1
  TransferLimit = 1
  EmptyRefused = TRUE
  MaxRestarts = 1
  MaxLostReplies = 1
INVARIANTS
  BrokersSolvent
  OnlyFeesAreKept
PROPERTIES
  QueuesRunDry
  EveryDebtIsPaidOnce
