SPECIFICATION ExampleSpec
CHECK_DEADLOCK FALSE
CONSTANTS
  CandlesCase <- Lengths
  WindowCase <- Window
  MaxShown = 3
  PageSize = 4
  MaxTrades = 6
  MaxSkew = 3
  Handler = {p1, p2}
  Receiver = {r1, r2}
  Code = {c1, c2}
  Password = {w1, w2}
  UserId = {u1, u2}
  CodesCase <- Codes
  UsersCase <- Users
  General <- OneGeneral
  Rare <- OneRare
  MaxRequests = 3
  MaxInFlight = 2
  MaxServerTime = 3
  MaxRedisFailures = 1
  MaxUsers = 3
  MaxDeaths = 1
  MaxCallFailures = 1
  MaxLostAnswers = 2
INVARIANTS
  CandlesAreRight
  HistoryIsRight
  AccountsAreGuarded
  LimitsHold
  PoolIsSound
PROPERTIES
  BrowserTracksBook
