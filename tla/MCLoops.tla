------------------------------- MODULE MCLoops -------------------------------
(***************************************************************************)
(* The loops that must get on: the snapshots, the actions, the candles and *)
(* their statistics, the pool of users, and a client that reads its orders *)
(* page by page.  Each goroutine that repeats itself for ever is weakly    *)
(* fair and nothing else is.                                               *)
(*                                                                         *)
(* The parts share no state.  A behaviour moves one of them and leaves the *)
(* others where they begin, so that their state spaces add up in one run.  *)
(***************************************************************************)
EXTENDS Integers

CONSTANTS Order, ListedOrder, Broker, NoBroker, Payer, NoUser, PublicKey, NoKey

VARIABLES
    part,
    \* Snapshots
    log, property, checkpoint, page, polling, seen, orderState, cancelled, publicKey,
    refundRow, handled, first, restarts, failures, lost,
    \* Actions
    type, state, actions, clock, attached, batch, createIndex, cancelIndex, resting, stops,
    \* Listing
    listState, createdAt, listClock, reading, direction, start, offset, given, steady, early,
    \* Candles
    trades, now, tradeProperty, tradeCheckpoint, tradePage, tradePolling, cache, candles, stats,
    market, added, exits, writeFailures, lostWrites,
    \* PoolKeys
    created, netPin, registered, job, pooled, owners, brokers, loaded, orphans,
    deaths, callFailures, lostAnswers

snapshotVars ==
    <<log, property, checkpoint, page, polling, seen, orderState, cancelled, publicKey,
      refundRow, handled, first, restarts, failures, lost>>
actionVars ==
    <<type, state, actions, clock, attached, batch, createIndex, cancelIndex, resting, stops>>
listVars ==
    <<listState, createdAt, listClock, reading, direction, start, offset, given, steady, early>>
candleVars ==
    <<trades, now, tradeProperty, tradeCheckpoint, tradePage, tradePolling, cache, candles,
      stats, market, added, exits, writeFailures, lostWrites>>
poolVars ==
    <<created, netPin, registered, job, pooled, owners, brokers, loaded, orphans,
      deaths, callFailures, lostAnswers>>

-----------------------------------------------------------------------------
Asset == {"XIN", "BTC", "USDT", "DOGE"}
Quote == {"XIN", "BTC", "USDT"}
PriceStep == [q \in Quote |-> IF q = "USDT" THEN 2 ELSE 1]
FundsStep == [q \in Quote |-> IF q = "USDT" THEN 4 ELSE 2]
QuoteMin == [q \in Quote |-> IF q = "USDT" THEN 2 ELSE 1]

\* Payments whose memo does not decode, which are refunded.
Undecoded == [broker |-> CHOOSE b \in Broker : TRUE, opponent |-> CHOOSE u \in Payer : TRUE,
              trace |-> 1, asset |-> "XIN", amount |-> 4, decodes |-> FALSE, key |-> NoKey,
              cancels |-> 0, other |-> "BTC", type |-> "LIMIT", side |-> "ASK", price |-> 2]

Network == INSTANCE Snapshots WITH
    User <- Payer, Key <- PublicKey,
    AmountStep <- 2, MaxPrice <- 3, MaxAmount <- 3, RefundFee <- 1, FeeScale <- 1000,
    Content <- {Undecoded}, Limit <- 2, MaxSnapshots <- 3, MaxTies <- 1,
    MaxRestarts <- 1, MaxFailures <- 1, MaxLostReplies <- 1

Poller == INSTANCE Actions WITH
    Limit <- 3, MaxTime <- 2, MaxRestarts <- 1, checkpoint <- attached, restarts <- stops

Reader == INSTANCE Listing WITH
    Order <- ListedOrder, Limit <- 2, MaxTime <- 2, MaxTies <- 2, MaxSkew <- 0,
    state <- listState, clock <- listClock, order <- direction, seen <- given

Market == INSTANCE Candles WITH
    TradePrice <- {1, 2}, TradeAmount <- {1}, Granularity <- {1, 3}, StatsGranularity <- 3,
    Day <- 2, Limit <- 3, MaxTrades <- 2, MaxTime <- 2, MaxTies <- 2,
    MaxRestarts <- 1, MaxFailures <- 0, MaxLostReplies <- 0,
    property <- tradeProperty, checkpoint <- tradeCheckpoint, page <- tradePage,
    polling <- tradePolling, handled <- added,
    restarts <- exits, failures <- writeFailures, lost <- lostWrites

Pool == INSTANCE PoolKeys WITH
    PinSetOnce <- TRUE, TraceStrict <- TRUE,
    MaxUsers <- 2, MaxRestarts <- 1, MaxFailures <- 1, MaxLostReplies <- 2,
    poolKeys <- pooled, keys <- owners, restarts <- deaths, failures <- callFailures,
    lost <- lostAnswers

ASSUME Network!IngestAssumption /\ Network!SnapshotsAssumption
ASSUME Poller!ActionsAssumption /\ Reader!ListingAssumption
ASSUME Market!CandlesAssumption /\ Pool!PoolKeysAssumption

-----------------------------------------------------------------------------
LoopsInit ==
    /\ part \in {"network", "poller", "reader", "market", "pool"}
    /\ Network!Init
    /\ Poller!Init /\ (part # "poller" => type = [o \in Order |-> "LIMIT"])
    /\ Reader!Init
    /\ Market!Init
    /\ Pool!Init

NetworkStep ==
    /\ part = "network" /\ Network!Next
    /\ UNCHANGED <<part, actionVars, listVars, candleVars, poolVars>>

PollerStep ==
    /\ part = "poller" /\ Poller!Next
    /\ UNCHANGED <<part, snapshotVars, listVars, candleVars, poolVars>>

ReaderStep ==
    /\ part = "reader" /\ Reader!Next
    /\ UNCHANGED <<part, snapshotVars, actionVars, candleVars, poolVars>>

MarketStep ==
    /\ part = "market" /\ Market!Next
    /\ UNCHANGED <<part, snapshotVars, actionVars, listVars, poolVars>>

PoolStep ==
    /\ part = "pool" /\ Pool!Next
    /\ UNCHANGED <<part, snapshotVars, actionVars, listVars, candleVars>>

LoopsNext ==
    NetworkStep \/ PollerStep \/ ReaderStep \/ MarketStep \/ PoolStep

loopsVars ==
    <<part, snapshotVars, actionVars, listVars, candleVars, poolVars>>

\* The goroutines that repeat themselves; those of the other parts stand still.
LoopsSpec ==
    /\ LoopsInit /\ [][LoopsNext]_loopsVars
    /\ WF_snapshotVars(part = "network" /\ Network!PollMixinNetwork)
    /\ \A i \in 1..3 : WF_snapshotVars(part = "network" /\ Network!ExpireRefund(i))
    /\ WF_actionVars(part = "poller" /\ Poller!PollOrderActions)
    /\ WF_listVars(part = "reader" /\ Reader!ReadPage)
    /\ WF_candleVars(part = "market" /\ Market!HandleMarketCandles)
    /\ WF_candleVars(part = "market" /\ Market!HandleMarketStats)
    /\ WF_poolVars(part = "pool" /\ Pool!GeneratePoolKey)

-----------------------------------------------------------------------------
\* Every snapshot since the first checkpoint is processed (Snapshots).
EverySnapshotIsHandled == Network!EverySnapshotIsHandled

\* Every order and cancellation gets to the engine (Actions).
EveryActionIsAttached == Poller!EveryActionIsAttached

\* A client that keeps asking comes to the end of its lists; every trade comes into the
\* candles and the row of the market ends up with the last price; every user the
\* service creates gets into the pool (Listing, Candles, PoolKeys).
ClientsGetOn ==
    /\ Reader!EveryReadingEnds
    /\ Market!EveryTradeIsCounted
    /\ Market!MarketShowsLastPrice
    /\ Pool!EveryUserIsPooled
=============================================================================
