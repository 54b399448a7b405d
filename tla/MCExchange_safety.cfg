SPECIFICATION ExchangeSpec
CHECK_DEADLOCK FALSE
CONSTANTS
  Order = {o1, o2, o3}
  NoOrder = NoOrder
  QuoteMinimum = 1
  MaxPrice = 2
  Price = {2}
  AskAmount = {1}
  BidFunds = {3}
  EventQueueSize = 1
  ListLimit = 2
  MaxRestarts = 1
  MaxUnackedTrades = 1
  MaxUnackedCancels = 1
SYMMETRY OrderSymmetry
INVARIANTS
  ExchangeIInv
  ActionsMatchState
  TradesExplainRows
  StuckOnlyIfUnacked
PROPERTIES
  EngineAsSpecified
  PriorityAcrossRestarts
  TablesKeepContract
