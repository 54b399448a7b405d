SPECIFICATION ExchangeFairSpec
CONSTANTS
  Order = {o1, o2}
  NoOrder = NoOrder
  QuoteMinimum = 1
  MaxPrice = 2
  Price = {2}
  AskAmount = {1}
  BidFunds = {3}
  EventQueueSize = 1
  ListLimit = 2
  MaxRestarts = 1
  MaxUnackedTrades = 0
  MaxUnackedCancels = 1
PROPERTIES
  EveryOrderReachesTheBook
  EveryCancelIsHonoured
