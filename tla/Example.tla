------------------------------- MODULE Example -------------------------------
(***************************************************************************)
(* The example, part by part: candles and statistics of the market, the    *)
(* copies of the book and of the trades on its page, accounts and their    *)
(* codes, the rate limiter, and the users it creates at the network.       *)
(*                                                                         *)
(* The parts share no state.  A behaviour moves one of them and leaves the *)
(* others where they begin, so that their state spaces add up in one run.  *)
(* Where a part is checked twice, two instances share its variables.       *)
(***************************************************************************)
EXTENDS Integers

CONSTANTS
    CandlesCase, WindowCase,   \* Candles: two records of its constants
    MaxShown, PageSize, MaxTrades, MaxSkew,     \* TradeHistory
    \* Accounts: two records of its constants
    CodesCase, UsersCase,
    \* RateLimit
    General, Rare, MaxRequests, MaxInFlight, MaxServerTime, MaxRedisFailures,
    \* PoolKeys
    MaxUsers, MaxDeaths, MaxCallFailures, MaxLostAnswers

VARIABLES
    part,
    \* Candles
    trades, now, property, checkpoint, page, polling, cache, candles, stats, market, handled,
    restarts, failures, lost,
    \* Replica
    levels, emitted, list, messages, connections, book, items, cut, cropped, joined, booked,
    reorders, bare, reordered,
    \* TradeHistory
    made, listed, from, stream, fetch, offset, answer, history, quiet,
    \* Accounts
    clock, requests, verifications, users, sessions, keys, poolKeys, unanswered, tries, issued,
    inserted, entered, consumed, reused, signedUp, lostInserts, overfull, resets, opened, aborts,
    queryFailures,
    \* RateLimit
    serverTime, arrivals, zset, redisFailures,
    \* PoolKeys
    created, netPin, registered, job, pooled, owners, brokers, loaded, orphans,
    deaths, callFailures, lostAnswers

candleVars ==
    <<trades, now, property, checkpoint, page, polling, cache, candles, stats, market, handled,
      restarts, failures, lost>>
replicaVars ==
    <<levels, emitted, list, messages, connections, book, items, cut, cropped, joined, booked,
      reorders, bare, reordered>>
historyVars == <<made, listed, from, stream, fetch, offset, answer, history, quiet>>
accountVars ==
    <<clock, requests, verifications, users, sessions, keys, poolKeys, unanswered, tries, issued,
      inserted, entered, consumed, reused, signedUp, lostInserts, overfull, resets, opened, aborts,
      queryFailures>>
rateVars == <<serverTime, arrivals, zset, redisFailures>>
poolVars ==
    <<created, netPin, registered, job, pooled, owners, brokers, loaded, orphans,
      deaths, callFailures, lostAnswers>>

-----------------------------------------------------------------------------
Chart(c) == INSTANCE Candles WITH
    TradePrice <- c.tradePrice, TradeAmount <- c.tradeAmount,
    Granularity <- c.granularity, StatsGranularity <- c.statsGranularity, Day <- c.day,
    Limit <- c.limit, MaxTrades <- c.maxTrades, MaxTime <- c.maxTime, MaxTies <- c.maxTies,
    MaxRestarts <- c.maxRestarts, MaxFailures <- c.maxFailures,
    MaxLostReplies <- c.maxLostReplies

\* Few prices, and lists that are cut off after one level of a side.
Copy == INSTANCE Replica WITH
    MaxPrice <- 2, MaxAmount <- 2, MaxLevels <- 1, MaxAskItems <- 0, MaxItems <- 1,
    MaxAsks <- 1, MaxBids <- 1, MaxEvents <- 3, MaxConnections <- 2, MaxReorders <- 1,
    MaxBare <- 1, page <- items

Trades == INSTANCE TradeHistory WITH trades <- made

Account(c) == INSTANCE Accounts WITH
    Request <- c.request, Receiver <- c.receiver, Code <- c.code, Password <- c.password,
    UserId <- c.userId, Interval <- c.interval, Lifetime <- c.lifetime, Window <- c.window,
    ValidateLimit <- c.validateLimit, CleanupLimit <- c.cleanupLimit, MaxTime <- c.maxTime,
    MaxVerifications <- c.maxVerifications, MaxSessions <- c.maxSessions,
    MaxResets <- c.maxResets, MaxAborts <- c.maxAborts, MaxFailures <- c.maxFailures,
    MaxLostReplies <- c.maxLostReplies,
    now <- clock, lost <- lostInserts, failures <- queryFailures

Limiter == INSTANCE RateLimit WITH
    MaxTime <- MaxServerTime, MaxFailures <- MaxRedisFailures,
    now <- serverTime, requests <- arrivals, failures <- redisFailures

\* A network that takes a second PIN and a known trace id, or one that refuses them.
Pool(strict) == INSTANCE PoolKeys WITH
    PinSetOnce <- strict, TraceStrict <- strict,
    MaxRestarts <- MaxDeaths, MaxFailures <- MaxCallFailures, MaxLostReplies <- MaxLostAnswers,
    poolKeys <- pooled, keys <- owners, restarts <- deaths, failures <- callFailures,
    lost <- lostAnswers

ASSUME CandlesAssumption ==
    Chart(CandlesCase)!CandlesAssumption /\ Chart(WindowCase)!CandlesAssumption
ASSUME ReplicaAssumption == Copy!ReplicaAssumption
ASSUME HistoryAssumption == Trades!HistoryAssumption
ASSUME AccountsAssumption ==
    Account(CodesCase)!AccountsAssumption /\ Account(UsersCase)!AccountsAssumption
ASSUME LimiterAssumption == Limiter!RateLimitAssumption
ASSUME PoolAssumption == Pool(TRUE)!PoolKeysAssumption

-----------------------------------------------------------------------------
Part == {"candles", "window", "copy", "trades", "codes", "users", "limiter", "lenient", "strict"}

ExampleInit ==
    /\ part \in Part
    /\ Chart(CandlesCase)!Init /\ Copy!Init /\ Trades!Init
    /\ IF part = "users" THEN Account(UsersCase)!Init ELSE Account(CodesCase)!Init
    /\ Limiter!Init /\ Pool(FALSE)!Init

CandleStep ==
    /\ \/ part = "candles" /\ Chart(CandlesCase)!PollerNext
       \/ part = "window" /\ Chart(WindowCase)!Next
    /\ UNCHANGED <<part, replicaVars, historyVars, accountVars, rateVars, poolVars>>

CopyStep ==
    /\ part = "copy" /\ Copy!Next
    /\ UNCHANGED <<part, candleVars, historyVars, accountVars, rateVars, poolVars>>

TradeStep ==
    /\ part = "trades" /\ Trades!Next
    /\ UNCHANGED <<part, candleVars, replicaVars, accountVars, rateVars, poolVars>>

AccountStep ==
    /\ \/ part = "codes" /\ Account(CodesCase)!Next
       \/ part = "users" /\ Account(UsersCase)!Next
    /\ UNCHANGED <<part, candleVars, replicaVars, historyVars, rateVars, poolVars>>

LimiterStep ==
    /\ part = "limiter" /\ Limiter!Next
    /\ UNCHANGED <<part, candleVars, replicaVars, historyVars, accountVars, poolVars>>

PoolStep ==
    /\ \/ part = "lenient" /\ Pool(FALSE)!Next
       \/ part = "strict" /\ Pool(TRUE)!Next
    /\ UNCHANGED <<part, candleVars, replicaVars, historyVars, accountVars, rateVars>>

ExampleNext ==
    CandleStep \/ CopyStep \/ TradeStep \/ AccountStep \/ LimiterStep \/ PoolStep

exampleVars ==
    <<part, candleVars, replicaVars, historyVars, accountVars, rateVars, poolVars>>

ExampleSpec == ExampleInit /\ [][ExampleNext]_exampleVars

-----------------------------------------------------------------------------
\* A candle is the sum of its trades and closes with the last, unless a crash, a failed
\* write or a lost reply is to blame; the statistics are of one day (Candles).
CandlesAreRight ==
    /\ part = "candles" =>
         /\ Chart(CandlesCase)!TypeOK
         /\ Chart(CandlesCase)!CandlesMatchTrades
         /\ Chart(CandlesCase)!CloseIsLast
         /\ Chart(CandlesCase)!StallNeedsFailedWrite
    /\ part = "window" =>
         /\ Chart(WindowCase)!TypeOK
         /\ Chart(WindowCase)!WindowIsComplete
         /\ Chart(WindowCase)!StatsWithinDay

\* The lists in the browser stay sorted and are those of the engine; the page shows no
\* more of a price than they hold, and less only after an order joined an item (Replica).
BrowserTracksBook ==
    /\ [](part = "copy" =>
            /\ Copy!TypeOK
            /\ Copy!ListsAreSorted
            /\ Copy!ListsTrackBook
            /\ Copy!PageNeverShowsMore)
    /\ Copy!MissesNeedJoin

\* The trades on the page are in order; those that came as events have no hole, and
\* those of the answer are there unless an event overtook it (TradeHistory).
HistoryIsRight ==
    part = "trades" =>
        /\ Trades!TypeOK
        /\ Trades!NewestOnTop
        /\ Trades!StreamLeavesNoHole
        /\ Trades!AnswerIsShown

\* A verification needs its code, guesses and codes are bounded, and a verification is
\* used twice only after an aborted transaction; a receiver has one user and a key one
\* owner, and a reset of the password ends the sessions of the old one (Accounts).
Guarded(c) ==
    /\ Account(c)!TypeOK
    /\ Account(c)!VerifiedByItsCode
    /\ Account(c)!GuessesAreBounded
    /\ Account(c)!CodesArePaced
    /\ Account(c)!ReuseNeedsAbort
    /\ Account(c)!OneOwner
    /\ Account(c)!ResetEndsSessions
AccountsAreGuarded ==
    /\ part = "codes" => Guarded(CodesCase)
    /\ part = "users" => Guarded(UsersCase)

\* No window admits more requests than its limit, and a request is refused only when
\* others filled a window (RateLimit).
LimitsHold ==
    part = "limiter" =>
        /\ Limiter!TypeOK
        /\ Limiter!NeverOverLimit
        /\ Limiter!RefusalIsEarned

\* The stored PIN and key are those the network and the exchange have, a user in use
\* comes back to the pool only after a lost answer, and so does a loop get stuck
\* (PoolKeys).
Sound(strict) ==
    /\ Pool(strict)!TypeOK
    /\ Pool(strict)!StoredPinOpens
    /\ Pool(strict)!OceanKeyNeedsReply
    /\ Pool(strict)!PoolIsUnused
    /\ Pool(strict)!StuckNeedsLostReply
PoolIsSound ==
    /\ part = "lenient" => Sound(FALSE)
    /\ part = "strict" => Sound(TRUE)
=============================================================================
