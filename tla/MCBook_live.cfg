SPECIFICATION FairSpec
CONSTANTS
  Order = {o1, o2, o3}
  NoOrder = NoOrder
  QuoteMinimum = 1
  MaxPrice = 2
  Price = {2}
  AskAmount = {2}
  BidFunds = {5}
  EventQueueSize = 2
PROPERTIES
  EveryActionLands
