SPECIFICATION Spec
CONSTANTS
  Order = {o1, o2, o3}
  NoOrder = NoOrder
  QuoteMinimum = 1
  MaxPrice = 3
  Price = {2, 3}
  AskAmount = {0, 2}
  BidFunds = {1, 4}
  EventQueueSize = 2
SYMMETRY OrderSymmetry
INVARIANTS
  IInv
  OrdersAccounted
  PricesHonoured
  LevelExact
PROPERTIES
  KeepsContract
  MatchesInTurn
