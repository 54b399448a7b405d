# Ocean ONE in TLA+

TLA+ models, model-checking runs and proofs for Ocean ONE, an exchange whose
orders and payments are transfers on the Mixin Network. The reference is the
code of the repository. Paths below are relative to its root.

## 1. The system

Two processes share a Spanner database and a Redis server.

    Mixin snapshots --> PollMixinNetwork --> orders, actions --> PollOrderActions
                                                                      | events channel
    Mixin transfers <-- PollTransfers <-- trades, transfers <-- Book.Run, one per market
                                                                      | queue.events
    websocket client <-- Client <-- Hub <-- Redis list, keys, publish <-- Queue.Loop

| Component | State | Operations | Interacts by |
|---|---|---|---|
| Matching engine, `engine/` | two pages of price levels and lists, `createIndex`, `cancelIndex`, events channel (8192) | `AttachOrderEvent`, `createOrder`, `cancelOrder`, `Page.Put/Remove/Iterate/List` | callbacks `transact` and `cancel` (synchronous, tried again until they succeed), `cacheList`/`cacheOrderEvent` |
| Order actions, `exchange.go`, `persistence/action.go`, `trade.go` | tables `orders`, `actions`, `trades`, `transfers`; an in-memory checkpoint | `CreateOrderAction`, `CancelOrderAction`, `ListPendingActions`, `Transact`, `CancelOrder` | one Spanner transaction or `Apply` each |
| Snapshot ingestion, `mixin.go`, `exchange.go` | property `checkpoint`, in-memory set of seen snapshots | `PollMixinNetwork`, `processSnapshot`, `refundSnapshot` | polls the network, writes actions, users and refunds |
| Transfers, `exchange.go`, `persistence/transfer.go` | table `transfers`, 100 mutexes | `PollTransfers` (one goroutine per broker), `processTransfer`, `ExpireTransfers` | sends with the transfer id as trace id |
| Event feed, `cache/`, `http.go` | sequence, queue (8192), Redis list and keys, hub maps `members` and `channels`, per-client channels | `handleEvent`, register, unregister, subscribe, unsubscribe, response, `loopHubChannel` | Redis list, `SET`, `PUBLISH`; Go channels with 10 s timeouts |
| REST and users, `routes.go`, `persistence/market.go`, `user.go` | table `users`, public keys | `UserOrders`, `MarketTrades`, ticker, book; `UpdateUserPublicKey` | reads the tables and the Redis keys, page by page for a client |
| Brokers, `persistence/broker.go` | table `brokers` | `AddBroker`, `AllBrokers` | creates a user at the network |
| Messages, start-up, `main.go`, `mixin` websocket | a websocket, configuration | acknowledges messages | - |
| Example: orders, `example/models/order.go`, `web/src/market` | the forms of a page with one trace id | `CreateOrder`, `CancelOrder`, entry of an order | sends transfers that become snapshots |
| Example: candles, `services/candle.go`, `models/candle.go`, `market.go` | tables `candles`, `markets`, a checkpoint, trades seen (in memory) | `handleMarketCandles`, `handleMarketStats` | polls `MarketTrades` of the exchange |
| Example: accounts, `models/verification.go`, `user.go`, `session.go`, `key.go`, `user_jwt.go` | verifications, users, sessions, keys | codes, sign-up, sign-in, reset, clean-up | Spanner transactions, the limiter, the pool |
| Example: pool of users, `models/pool_key.go` | table `pool_keys` | `GeneratePoolKey` | network, exchange |
| Example: rate limiter, `durable/limiter.go`, `middlewares/rate.go` | sorted sets in Redis | `Available` | pipelines of four commands |
| Example: market page, `web/src/api/engine.js`, `web/src/market/index.js` | a copy of the book, the items of the page, the recent trades | `render` of each event, `fetchTrades` | websocket feed and REST |

What is hard, and which properties answer for it:

* **Matching.** Many makers per taker, partial fills, truncating division and
  removal of filled makers only after the iteration. The properties: no order is
  lost or refunded twice, price-time priority, limits honoured over all fills,
  bounded truncation, exact levels, the contract with the client.
* **Delivery again and again.** The checkpoint of the poller is inclusive and
  actions of resting orders stay in their table, so the engine gets the same
  events many times; cancellations come before, with or after fills.
* **Crash and rebuild.** All of the book is in memory. After a crash it is
  rebuilt from the pending actions, possibly in the middle of a taker's matches.
* **Ambiguous commits.** `Apply` may commit and return an error, and the callbacks
  try again with ids that are hashes and hence taken.
* **Two roads to one client.** A subscriber reads a Redis list and a published
  stream that are written separately; commands fail, clients are slow, leave, and
  change their mind; timeouts of 10 s sit on both sides of the hub.
* **Money.** Refunds and trades become transfers of the right broker, sent at least
  once and accepted once; a transfer of nothing is refused for ever.
* **Numbers.** Four roundings lie between a form and the engine, of the form, the
  server, the network and the exchange, and each has minima of its own.
* **Polling with an offset that is included.** Snapshots, actions, trades, and the
  orders a client lists are read in pages from a created_at that may repeat, while
  rows come and go; the offset is stored apart from what was done with the page.
* **Copies.** Candles, the book in a browser and its list of trades are kept up to date
  by events that may be lost, repeated or late.
* **Retries with new random values.** Trace ids, PINs, keys and codes are made anew or
  kept when a call is repeated, and the difference decides what happens twice.

`PROJECT.json` lists the hazards line by line with the properties that cover them.

## 2. Modules

| Module | What it models |
|---|---|
| `OrderLifecycle` | abstract contract of an order: accepted once, its escrow shrinks only in trades which use up one side, ends once as filled or refunded |
| `Orders` | the record of an order and `process` of `engine/order.go`: what a trade takes from either side, shared by the modules below |
| `Book` | the engine of one market |
| `BookInvariant` | the inductive invariant `IInv` of `Book`, in named parts |
| `OrderProofs` | lemmas for the others: what `process` may take from two orders; sums over finite sets |
| `Exchange` | `Book` composed with ingestion, the poller, the tables and crashes |
| `ExchangeInvariant` | its inductive invariant `ExchangeIInv` |
| `EngineProofs` | the theorems about `Book` and `Exchange` |
| `Actions` | the poller and the two indexes when orders share a created_at |
| `Ingest` | `processSnapshot` as a classification of a snapshot, with its truncations and limits (no state of its own) |
| `Snapshots` | `Ingest` composed with `PollMixinNetwork`, its checkpoint, and what is written |
| `Payouts` | abstract: what is owed is paid before it is forgotten, and nothing is paid twice |
| `Settlement` | transfers of trades, cancellations and refunds, wallets, and `PollTransfers`; implements `Payouts` |
| `SettlementInvariant`, `SettlementProofs` | its inductive invariant `SettlementIInv` and the theorems |
| `TransferMutex` | the mutexes of `sendTransfer` and `tmap.fetch` |
| `Feed` | queue, Redis, hub and clients of one market |
| `FeedInvariant`, `FeedProofs` | its inductive invariant `FeedIInv` and the theorems |
| `Listing` | a client that reads its orders page by page while they change |
| `ClientOrders` | the forms and the server of the example, composed with `Ingest` |
| `Replica` | the order book in the browser |
| `TradeHistory` | the list of recent trades in the browser |
| `Candles` | candles and statistics of a market |
| `RateLimit` | the rate limiter |
| `Accounts` | verifications, users, sessions and keys |
| `PoolKeys` | the pool of users, and `AddBroker` |
| `OrderPath` | `Snapshots`, `ClientOrders`, `Actions`, `Listing`, `TransferMutex` and `Settlement` as parts of one specification (section 3) |
| `OrderPathInvariant` | the inductive invariants `SnapshotInv`, `ClientInv`, `ActionInv`, `ListingInv` and `MutexInv` of its parts |
| `SnapshotProofs` | the theorems about `Snapshots`, `Ingest` and `ClientOrders` |
| `PathProofs` | the theorems about `Actions`, `Listing`, `TransferMutex` and the part of `Settlement` |
| `Example` | `Candles`, `Replica`, `TradeHistory`, `Accounts`, `RateLimit` and `PoolKeys` as parts of one specification (section 3) |
| `ExampleInvariant` | the inductive invariants `CandlesInv`, `HistoryInv`, `LimiterInv`, `PoolInv` and `AccountInv` of its parts but `Replica` |
| `ExampleProofs`, `AccountsProofs` | the theorems about `RateLimit`, `TradeHistory` and `Candles`, and about `Accounts` and `PoolKeys` |
| `MC...` | the instances that TLC checks |

### Book

State and code: `order[o]` is the shared `*Order`; `page[s]` the orders of a
`Page` and `place[o]` their position in the list of their price; `level[s][p]` the
`Amount` or `Funds` of an `Entry`; `createIndex` (numbered, so that age can be
compared), `cancelIndex`, `events` as in `Book`; `taker` and `opponents` are the
local variables of a running `createOrder`; `trades` and `refunds` record the two
callbacks.

`createOrder` is cut where it calls a callback: `BeginCreate`, one `Match` per
opponent (process, callback, level), `Settle` (removal of the filled opponents, then
`Put` or the cancel callback). Nothing else of the goroutine runs in between, only
`AttachOrderEvent` of the poller. `SkipCreate` and `SkipCancel` are the early
returns. A `number.Integer` is the natural number of its smallest units: a price
times an amount has exactly the precision of funds, and `Div` truncates.

Assumed of the caller (`Listed`): a CANCEL is attached only after its CREATE, and
only for a LIMIT order. `exchange_safety` checks this assumption against `Exchange`
(property `EngineAsSpecified`), and `OrdersFitTheEngine` of `order_path` that what
`processSnapshot` accepts is an order of `Book`. The attached actions are otherwise
arbitrary: any order, any number of times.

### Exchange and Actions

`CreateOrderAction` and `CancelOrderAction` are what `processSnapshot` does to this
market. `ListPendingActions` reads one consistent snapshot with a limit and copies
the rows; `EnsureProcessOrderAction` attaches them in order and moves the
checkpoint. The copies travel with the events (`carried`); the struct of the first
accepted event is the one the engine goes on with. `Transact`, `SettleTaker` and
`CancelResting` are the steps of `Book` together with the one `Apply` of their
callback. An `Apply` that fails without effect is retried and is no step. One that
commits and reports an error sets `conflict` (the trade id is taken, so the callback
never returns) or `recommit` (the transfer id is taken until `ExpireRefund`).
`Restart` forgets everything but the tables.

In `Exchange` no two actions share a timestamp. `Actions` gives up prices and matches
and has the ties instead: the query orders by created_at alone, so equal actions come
in any order, and a page may cut through them.

### Ingest, Snapshots and ClientOrders

Decimals are numbers of finest units, and each precision of `number.Integer` is a step
of so many of them, so truncation is division. `Ingest` defines, in the order of the
code, what `processSnapshot` makes of a snapshot: ignored, a key, a cancellation, an
order, or a refund. `Snapshots` processes the pages: `RequestMixinNetwork`,
`SkipSeen`, `ProcessSnapshot`, `WriteTimeProperty`; a call that takes effect and fails
all the same is repeated, the write of the checkpoint may fail and is only logged, and
`Restart` keeps the tables and the property. `ClientOrders` produces the snapshots:
what a form makes of its fields, what the server checks and truncates, the trace id
and its renewal, lost answers, and the network that takes a trace id once. Its
assumption ties the two programs together as their sources do: both truncate prices and
amounts at the same decimals, the server truncates funds at the 8 decimals of the network,
an amount times a price has the decimals of funds, and the page asks for no more than the
maxima and no less than the minimum of the exchange.

### Settlement, Payouts and TransferMutex

Which orders meet is left open: a younger order may be the taker of any older one
whose price it accepts. `Deposit` is the snapshot: its whole amount comes to the wallet
of the broker. `processSnapshot` then stores an order in units of its precision and the
broker keeps the rest (`excess`, below `AmountGrain` or `FundsGrain`), or gives it back
less a fee (`RefundSnapshot`, of the whole amount), or keeps it, when the payment
carries a key or a cancellation (`KeepPayment`). `Transact`, `CancelOrder` and
`RefundSnapshot` write rows of `transfers`, with the fees as in `persistence/trade.go`.
Wallets, rows and totals are counted in ledger units, the last digit that `Persist` of
the number library keeps. The library is not in the repository: assumed is that this
digit is no coarser than a `number.Integer` that is stored (`AmountPrecision` is 4,
funds have 8 or 12 decimals), so that storing an order loses nothing, and that the
network pays the amount of a row as it stands. `PollTransfers(b)` lists a batch, sends the
transfers one by one and deletes the batch. The network executes a trace id once; the
reply may be lost. `CancelOrderAgain` is the retry whose id is free again.
`EmptyRefused` says whether the network refuses a transfer of nothing. The refinement
maps `owed` to the rows not yet paid and `paid` to what the network executed.
`TransferMutex` cuts `fetch` between its Load, Store and Load.

### Feed

The content of the book is abstracted to its `version`. `CacheList` and
`CacheOrderEvent` attach events; `RPush`, `PipelineDel`, `PipelinePush`, `SetBookT1`
and `Publish` are `handleEvent`, cut between the Redis commands (the pipeline is not
a MULTI). A command that fails may have had its effect. The hub takes one case of
its `select` per step. `Pipe` cancels a client whose channel is full after the
timeout; waiting without a timeout is not taking the step yet. A cancelled client may
still be given events, since its goroutine chooses among ready cases. `Restart` is a
new process of the engine: its sequence begins at the clock in nanoseconds, beyond all
older ones, and its book is empty. The receiving goroutine of the hub and the write
pump only delay and are left out.

### Listing, TradeHistory and Replica

`Listing` has orders made and ended between the pages a client asks for, ties of
created_at, both directions, and a client whose clock is off. `TradeHistory` has the
trades as events and, once, as an answer that may come before or after any of them.
`Replica` has the connection with its book and events, messages that are unpacked
concurrently and handled in another order (`MaxReorders`), reconnections, and a
subscription that gets no book (`MaxBare`, see `feed_first`); the lists of
`self.book`, the items of the page, and the cut after a number of levels.

### Candles, RateLimit, Accounts and PoolKeys

`Candles` is cut at the Spanner calls that another goroutine can tell apart: adding a
trade, which reads its candles and writes them in one `Apply`, is one step, since only
the poller writes candles; the three queries of the statistics are three. Time is counted in units of
which the candles have one or more. In `RateLimit` the four commands of a pipeline
are one step each, the sets are sequences of times, and a failing check lets the
request pass. In `Accounts` a read-write transaction is one step, but may be aborted
and run again with what its function assigned (`vf = last`); verification is not a
transaction and is cut at every call: the read of the row, `CheckLimit`, `MatchCode` with
the entry in the limiter, the update. `PersistPoolKey` is repeated until it is answered,
so that a row whose user was consumed meanwhile comes back (`unanswered`); a sign-up
that draws it fails as a whole on the insert into `keys`, which is no step. `tries` is the sorted set of wrong codes in Redis,
a function from members to scores. `PoolKeys` has every call of
`GeneratePoolKey` and `AddBroker` fail, or take effect and fail; whether the network
sets a PIN twice and what it makes of a known trace id with other content are
constants, since the code does not say.

## 3. Runs

| Run | Instance | Shows |
|---|---|---|
| `book_safety` | 3 orders, prices 2 and 3, asks of 0 or 2, bids of 1 or 4, queue of 2 | `IInv` (includes the types), `OrdersAccounted`, `PricesHonoured`, `LevelExact`, `MatchesInTurn`, refinement of `OrderLifecycle` |
| `book_live` | 3 orders, one price | `EveryActionLands` |
| `exchange_safety` | 3 orders, one price, 1 crash, 1 unacknowledged trade, 1 unacknowledged refund, listings of 2 | `ExchangeIInv` (includes the types), `ActionsMatchState`, `TradesExplainRows`, `StuckOnlyIfUnacked`, `EngineAsSpecified`, `PriorityAcrossRestarts`, the tables refine `OrderLifecycle` |
| `exchange_live` | 2 orders, 1 crash, 1 unacknowledged refund | `EveryOrderReachesTheBook`, `EveryCancelIsHonoured` |
| `feed_safety` | 2 clients, 3 events, 1 failing command, 1 restart of the engine | `FeedIInv` (includes the types), `NoGap`, `LossIsVisible`, `ListReplaysBook` |
| `feed_live` | 1 client, 3 requests, 3 events | `EveryEventArrives` |
| `feed_first` | 1 client | **violated**: `FirstIsBook` |
| `feed_last` | 1 client | **violated**: `LastRequestDecides` |
| `settlement` | 2 orders, an ask of 2 units and bids of 1 and 5, a unit of an amount being 3 of the ledger, 2 brokers, 1 crash, 1 lost reply, batches of 1, transfers of nothing refused | `BrokersSolvent`, `OnlyFeesAreKept`, `QueuesRunDry`, refinement of `Payouts` |
| `order_path` | the parts `Snapshots` (twice), `ClientOrders` (twice), `Actions`, `Listing`, `TransferMutex`, and `Settlement` with 3 orders | `OrdersFitTheEngine`, `SnapshotsAreKept`, `EntriesArePlaced`, `ActionsReachTheBook`, `ListsAreComplete`, `TransfersAreRight` |
| `example` | the parts `Candles` (twice), `Replica`, `TradeHistory`, `Accounts` (twice), `RateLimit`, `PoolKeys` (twice) | `CandlesAreRight`, `BrowserTracksBook`, `HistoryIsRight`, `AccountsAreGuarded`, `LimitsHold`, `PoolIsSound` |
| `loops` | the parts `Snapshots`, `Actions`, `Listing`, `Candles`, `PoolKeys`, each with its faults | `EverySnapshotIsHandled`, `EveryActionIsAttached`, `ClientsGetOn` |

`order_path`, `example` and `loops` hold several small components. Their parts share
no variable: the first state chooses a part, and only that part moves, so the state
spaces are added, not multiplied. Each of their properties is the conjunction of the
properties one or two modules state under names of their own, with the type
invariant; the list is in the `MC` module, and the comments are with the definitions.
Two instances of one module are two sets of bounds for two questions: for example
every content of a snapshot but only one of them, and few contents in long logs. The
instances of `ClientOrders`, `Accounts` and `Candles` take their constants from a record
(`Client(c)`, `Account(c)`, `Chart(c)`), whose two values are constants of the specification.

Bounds. In the engine an amount of 2 against funds of 1 or 4 at prices of 2 and 3 gives
full and partial fills, exact division, remainders, a bid that cannot buy one unit, and
an ask of zero; three orders give a maker with two takers, a taker with two makers, and
two makers of one price. Queues, pages and listings are as small as they can be and
still fill up. One crash separates two lives of a process, and a second crash starts
from tables of the same kind; one lost reply or failed write is enough to repeat a call.
Some faults are absent where a part is large enough without: `Snapshots` in `order_path`
has no lost replies (`SnapshotsKept` is proved for any number of them), and the charts in
`loops` no failed writes, so that the exception for a stalled loop is not met there
(`StallIsFailure` is proved, and `example` has failed writes).
Three snapshots or actions with ties of two or three exceed a page. `exchange_safety`
has one price, since the order of prices is a matter of `Book` alone, where it is
proved; what a restart could disturb is age. The numbers of events, requests, trades,
codes and users bound the length of a history; three or four exceed what a list, a page,
a window or a limit holds. In `Settlement` a payment of an ask has an excess of 0, 1 or
2 ledger units; bids have none (`FundsGrain` is 1, since the network has no more
decimals than funds), and the theorems have any grain of both. One instance of
`Accounts` has codes, times and aborted transactions, the other two receivers, two users, a
lost insert into the pool, and more sessions than a clean-up deletes. In `Ingest` and `ClientOrders` amounts, prices and funds are
chosen around every step, minimum and maximum.

Where deadlock is not checked: in `Exchange` a callback that cannot insert its trade
id keeps the goroutine for ever, and with a full channel the poller stops too, which
is what the code does; in the others the bounded orders, events, requests and
snapshots run out.

Fairness. Weak fairness is stated only for goroutines that repeat for ever and retry
after errors: the engine, the pollers of actions, snapshots and transfers, the queue,
hub and clients of the feed, the two loops of the candles, `GeneratePoolKey`, and in
`Listing` the client that asks for its next page (without it nothing is asked).
Everything that comes from outside is not fair: orders, cancellations, snapshots,
trades, requests, departures, crashes, failures and lost replies, which are bounded
instead. The liveness runs of the engine and the feed have no unacknowledged trade and
no Redis error, because with those the properties do not hold (see the hazards).
`EverySnapshotIsHandled` holds unless a failed write of the checkpoint has stalled the
poller, `EveryActionIsAttached` unless a full page shares one timestamp,
`EveryReadingEnds` unless a page of one created_at repeats, `QueuesRunDry` unless a
transfer of nothing is at the head of a queue, `EveryUserIsPooled` unless a lost answer
has stuck the loop: the exceptions are part of the formulas.

### What disagrees with the documentation

* `feed_first`: `README.md:96` says that BOOK-T0 is the first event of a subscriber.
  A client that reads the list between the pipelined DEL and RPUSH
  (`cache/queue.go:105`) finds it empty; the book that follows is published as a
  HEARTBEAT without content. Such a client gets no book until it subscribes again.
* `feed_last`: `README.md:91` describes subscribing and unsubscribing. Both requests
  wait in channels of their own, and the `select` of the hub may take them in the other
  order (`cache/hub.go:66`), so a client that has unsubscribed last may stay
  subscribed.

Facts that readers of this code should know and no document denies:

* the published stream may bring events older than the listed book (they carry lower
  sequences), and the events between the listing and the stream come twice;
* a CREATE and a CANCEL with one created_at may come in the other order, and the
  cancellation is then dropped until the process restarts (`CancelsLandUnlessTied`);
* a failed write of the snapshot checkpoint may stop the poller (`StallNeedsFailedWrite`);
* an item of the market page that a second order joins keeps the funds of that order
  only, and may vanish while the first still rests (`MissesNeedJoin`);
* an event that overtakes the answer leaves the list of trades almost empty
  (`AnswerIsShown` holds only where none does);
* what a payment has beyond the precision of its order stays with the broker, also when
  the order is cancelled untouched, and so does a payment that carries a key or a
  cancellation (`OnlyFeesAreKept` allows both);
* after a lost answer the pool may offer a key that has an owner; every sign-up that draws
  it fails, and it stays in the pool (`OneOwner`).

`example/middlewares/rate.go:59` answers a refused request with "10r/10m"; the tenth request
is already refused, because it counts itself (`RefusalIsEarned`). The string is a message
to the client and no run is about it.

## 4. Proofs

The theorems hold for every value of the constants that satisfies the named
assumptions of the modules (a positive limit or queue, natural bounds, steps and minima
that are not zero); the bounds of the runs, such as `MaxRestarts`, are any natural
numbers. Every safety proof has the same plan: an inductive invariant in named parts,
one lemma per action that it is kept, and the properties as consequences of it or of a
step from it. Each invariant was first checked by TLC on the instances of section 3.

### Book

Assumed: prices between 1 and a bound, natural sizes, a positive minimum, a queue of at
least one. `Invariance` is `Spec => []IInv`; from it `BookNeverCrossed`,
`LimitsAreHonoured` and `DustIsBounded` (together `PricesAreHonoured`), `NoOrderIsLost`,
`RefundsAreSingle` and `CancelsAreFinal` (`OrdersAreAccounted`), the action properties
`PriorityHolds` and `TradeIdsAreFresh` (`MatchesAreInTurn`), and `ContractIsKept`:
`Book` implements `OrderLifecycle`.

`NotCrossed` survives `Put` only because the iteration has used up every opponent
within the limit (`TakerOK`: an opponent is filled or the taker is; `OutOfReach`: where
no match is possible the others are worse than the limit). Priority by age survives
because lists are in the order of creation (`PlaceOK`), which holds because the taker
is the newest order. A trade id is fresh because the trades of the current taker are
those with its opponents (`TradesOK`), and nobody's opponent is visited twice.
Refund-once needs that a refunded order is neither resting nor the taker (`RefundOK`),
cancel-is-final that a CANCEL never precedes its CREATE in the channel (`EventsOK`).
The lemmas of `OrderProofs` say what `process` may take from either side: never more
than there is, at least one side is used up, less than one unit lost.

`LevelsAreExact` is about sums over sets of orders. The library defines them by a fold;
`OrderProofs` shows by a smallest counterexample, without induction over data, that the
fold unfolds at any element, and from this how a sum changes when one term or one member
does. A page is a finite set, the level of a price is the sum of what its orders have
left, and every step changes one term on both sides.

### Exchange

Assumed: a listing of at least two. `ExchangeIInv` keeps of `IInv` what does not depend
on the history of one process (`BookInv`), and adds what ties memory to tables:
the copies that travel with events are not stale where `createOrder` will use them
(`BatchOK`, `CarriedOK`), orders are created in the order of their created_at (`FifoOK`,
which needs `NothingSkipped`: the poller passes over no CREATE), a trade uses up one
order for good (`HistoryOK`, which replaces the freshness of trade ids after a crash),
and the column state follows from the row and its refund (`StateOK`). From it:
`ActionsFollowState`, `RowsAreExplained` (the trades of an order sum up to what its row
has lost), `NeverStuckByItself`, `PriorityInTables` across restarts, `EngineIsAsSpecified`
(every step between crashes is one of `Book`, so what is assumed of the caller there is
what the composition does), and `TablesKeepTheContract`, the refinement of
`OrderLifecycle` by the tables.

### Settlement

`SettlementIInv` says that whatever was ever written, listed or paid can be derived from
what happened to an order (`Explained`), hence an id stands for one transfer for ever;
that a row leaves the table only when it is settled (`RowsOK`, `QueuesOK`); and that a
pair of orders has one trade per side (`TradesOK`). `BrokersAreSolvent` and
`OnlyFeesStayBehind` compare three sums: what orders brought, what is owed, what was paid.
They are proved per broker and asset by the change of each sum in each step; what a
trade leaves behind is bounded by its fees and one unit per side. Orders have units of
their own, so a step of an order is translated to the ledger (`ValueFacts`), where a
grain times what the two sides lose and gain must agree. What may stay with a broker is
part of the invariant's account: the excess of an order once it is accepted, the fee of
a refund, and the whole of a payment that was no order (`KeptOf`). `DebtsArePaidOnce` is
the refinement of `Payouts`, over crashes, lost replies and transfers of nothing.

### Feed

`FeedIInv` has a part that holds whatever fails: all copies of events, wherever they
are, agree with the queue (`SeenOK`: equal numbers mean equal changes, consecutive
numbers consecutive changes), from which `LossesShow`. The other part, `NothingLost`,
holds as long as no Redis command has failed: the list is a book and all that was
numbered since (`ListOK`), the stream has no hole (`StreamOK`), and a channel begins
where what its client has ends (`ChannelOK` with `Covers`). `skipped` are the numbers
that died with a process; `Adjacent` reads gaps modulo them. From it `ListIsReplayable`
and `NothingIsMissed`, for any number of clients, requests, departures and restarts.

### OrderPath: mutexes, actions, listings

Each theorem is about `PathSpec`, which contains the part with its constants left open.

* `MutexInvariance`, `TransfersAreApart`. A goroutine that fetches without a race sees no
  other one store a mutex of its key and has the one that stays (`UnracedOK`), so two
  transfers of one key overlap only if both raced for the first mutex. The number of
  mutexes is bounded by the pairs of a key and a goroutine that have made one (`Racers`).
* `ActionInvariance`, `OrdersReachTheBook`. With ties of created_at the proof needs that
  the engine has everything it was given that is still PENDING (`BookOK`), that what is
  listed is in order from the checkpoint on (`BatchOK`), and that what is not attached is
  behind neither the checkpoint nor a listed action unless listed before it
  (`NothingPassed`); only a cancellation as old as its order comes first (`CancelsTied`).
* `ListingInvariance`, `ReadersMissNothing`. A client has of the list it reads what comes
  before its offset (`HasUpToOffset`); since a full page reaches beyond the ties of its
  offset this advances. An order that existed when it began was on the first list or will
  be on the second (`OnOneList`), though it ends in between.

### OrderPath: snapshots

Assumed besides: what snapshots say has the types of `SnapshotRecord`
(`ContentAssumption`). `SnapshotInvariance` proves `SnapshotInv`. The offset of a page
is written after the page, and may not be written, so the same snapshots are listed
again: `CheckpointsOK` relates the property, the checkpoint of the poller and the page;
`HandledOK` says that what is before the page or behind the checkpoint was processed, and
whole created_at at a time, which is what an inclusive offset needs; `SeenOK` that what
this process has seen is the log from some snapshot on. Cancellations reach their orders
because the order was processed first (`OrdersOK`), keys follow the last one seen
(`KeysOK`). `SnapshotsKept` is what the run checks, for every number of crashes, failures
and lost replies. `Before`, a CHOOSE, is pinned down by `BeforeOffset`.

`OrdersFit` is about one snapshot with any content: after truncation to units its order
satisfies what the engine asserts and its minimum and maxima (`QuotientBound`,
`AcceptedIsPlacement`), and of two assets at most one quotes the other.

### OrderPath: clients and transfers

`ClientInvariance` proves `ClientInv`, for any markets, entries, precisions and number of
requests that satisfy `ClientAssumption`. Three kinds of ids share one network and must
never meet: the trace ids of forms, of requests from elsewhere, and of cancellations
(`IdsOK`); a form's trace counts the successes its page has seen, so it runs ahead of the
requests that are still unanswered by no more than were sent (`ClientCounts`). Requests
have numbers of their own (`RequestsOK`), and a transfer at the network is the order or
the cancellation of a request (`NetworkOK`), so what the exchange reads is a function of
what was asked. `EntriesPlaced` then compares the roundings: the exchange cannot lose
anything to a second truncation (`Floored`), a truncation to coarser funds keeps whole
units (`FlooredFinely`), and a form that passes its minimum is short by less than one
unit of price or amount (`AskReaches`), or, for a bid, not at all (`BidPays`).

`TransfersAreAsOwed` is `Settlement` with a taker of two makers, some with another broker.
`MoneySpec` shows that the part is a behaviour of `Settlement` with its constants, so what
is proved there holds here.

### Example: limiter, trades on the page, candles, pool, accounts

* `LimiterInvariance`, `LimitsAreHeld`. The four commands of a pipeline are steps of their
  own, so between the ZREM and the ZCOUNT of one request others add and remove. What was
  added stays in a set for its window (`AddedStay`), and a set holds no more than a
  request may count (`CountedAreOthers`): so the last of a window to count sees all
  others, and a refused request sees only others.
* `HistoryInvariance`, `HistoryIsKept`. The answer is added in one step, a fold of
  `AddTradeEntry` over its trades. The fold is shown to go trade by trade (`FoldSteps`, by
  the least counterexample among the numbers, `LeastNatural`), so after j trades the page
  holds those of them that are newer than its top item, on top of what it held
  (`AnswerGives`). Ids and times order the items alike although an item has the time of
  the row or of the event (`ItemsOK`), so a trade is refused exactly when it is not newer
  (`OnTop`). That the answer leaves no hole in what came as events needs that it is a
  whole page or goes back to the first trade (`AnswerOK`) and that a page of an answer is
  no shorter than the list (`MaxShown <= PageSize`, 99 and 100 in the code); and while
  the page is not connected, that the next connection begins no earlier than the last
  BOOK-T0 (`ItemsAreDense`).
* `CandlesInvariance`, `CandlesAreKept`. A trade that is added again after a restart or a
  lost reply makes the close of its candle older than it was. So the invariant does not say
  that a candle closes with its last trade, but that it does, or that its last trade is
  still to be added again: it is not in the cache and not before the stored checkpoint
  (`CandleOK`). That this trade will come last again needs that every process adds the
  trades since its checkpoint in the order of time, so that both what it knows and what was
  ever added have no gap (`AddedInOrder`), and that what is fetched and not yet added goes
  on where they end (`PageInOrder`); the checkpoint in memory is never behind the stored
  one. Volumes are exact until a process stopped or a reply was lost, and too high at most
  after that. A volume over a day is a sum of sums: `SumByPoint` shows it to count every
  trade of the day at most once, by the least counterexample. A stall is excluded by
  counting (`StallIsFailure`): an answer that is full of known trades, none newer than the
  checkpoint, holds as many trades of one time as it lists, which the assumption
  `MaxTies < Limit` (100 in the code) excludes. `MarketCandles` is shown complete for every limit (`WindowHolds`; the property names
  three): points are multiples of the granularity, so a window holds no more of them than
  its limit (`FewMultiples`). A sum, too, is unfolded one member at a time from the
  definition of the library.
* `PoolInvariance`, `PoolIsSafe`. What a job holds is what the network has, and what it is
  about to set is not set yet unless an answer was lost (`JobsMatchNetwork`); the user a
  job works on is in no table before its last step (`PoolJobs`). Both kinds of network
  are proved at once, since neither invariant needs its answer to a second PIN.
* `AccountsInvariance`, `AccountsAreSafe`. A row of a verification travels through
  variables of requests, may be deleted, and may come back when a transaction is aborted.
  There is one assignment of ids to what was sent (`AsSent`, an existential) with which
  the table, the requests and the history agree, and from which rows can only differ in
  `verified`; that needs the code to have been entered. Guesses are bounded by the live
  members of the limiter and the requests between the check and the entry
  (`TriesAreBounded`). That a key has one owner does not need that the pool has none that
  is taken, which is false after a lost answer: it needs that the insert into `keys` fails
  for one that is, so that who signed up is who has the user (`OneOwner`). Pacing is inductive only together with the history of inserts
  (`InsertsAreKept`).

### Only model-checked

* Liveness, since fairness and ENABLED are outside the proof system: `EveryActionLands`,
  `EveryOrderReachesTheBook`, `EveryCancelIsHonoured`, `EveryEventArrives`,
  `QueuesRunDry`, `EverySnapshotIsHandled`, `EveryActionIsAttached`, `ClientsGetOn`.
* `BrowserTracksBook`, which is as the run checks it: the lists of the page are built by
  folds over the levels, and two copies of the book, the engine's and the browser's, would
  have to be related entry by entry through every event on its way.

## 5. Not modelled, and the plan

Left out, with the reason:

* withdrawals of the example (`models/withdrawal.go`): one transfer with the trace id of
  the request, no state of its own; favourite markets: rows a user adds and removes;
* `Authenticate` and the other checks of signatures, tokens and passwords: a
  cryptographic predicate of one request; `Accounts` has their outcome;
* a restart of the http process, pings, acknowledgements and the router: a restart
  closes every connection, and clients begin again as in `Feed`;
* the message websocket of the exchange, which acknowledges and acts on nothing;
  start-up, configuration, metrics, rendering;
* prices in dollars (`quoteUSD`, a package variable written by one goroutine and read
  by requests), charts, and the ticker: they show numbers and nothing depends on them;
* brokers are read once at start-up, so one that `AddBroker` makes is used after the
  next start; `PoolKeys` has its creation, `Settlement` a fixed set;
* a `limit` of zero in a request, and a clock that is set back while a queue numbers
  its events by it.

Two markets are independent except that one stuck market blocks the poller of all
(`engine/book.go:67`). `Exchange` has one market, so no run is about the others;
`StuckOnlyIfUnacked` says what the goroutine of a book can be stuck on.
The network, Spanner and Redis are modelled by how the code uses them: transactions
are atomic, a Redis command is atomic, a pipeline is not.

What a proof could still add is `Replica`.
