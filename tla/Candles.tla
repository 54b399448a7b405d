------------------------------- MODULE Candles -------------------------------
(***************************************************************************)
(* Candles and statistics of one market in the example: services/candle.go,*)
(* models/candle.go and models/market.go.                                  *)
(*                                                                         *)
(* handleMarketCandles fetches the trades of the market from the exchange, *)
(* by created_at from an offset which is included, and adds each to one    *)
(* candle per granularity.  The trades it has added are kept in memory and *)
(* the offset in table properties.  handleMarketStats reads the candles in *)
(* three queries and writes the row of the market.  The write of the       *)
(* offset may fail, which is only logged; an Apply may take effect and     *)
(* return an error, and is then tried again; the process may crash.        *)
(***************************************************************************)
EXTENDS Integers, Sequences, FiniteSetsExt, Functions

CONSTANTS
    TradePrice,      \* prices of trades
    TradeAmount,     \* amounts of trades
    Granularity,     \* lengths of candles, one minute to one day in the code
    StatsGranularity,\* CandleGranularity15M
    Day,             \* 24 hours
    Limit,           \* trades in one answer, 100 in the code
    MaxTrades, MaxTime,             \* bounds on the trades and the clock
    MaxTies,         \* bound on the trades of one created_at
    MaxRestarts, MaxFailures, MaxLostReplies    \* bounds on faults

CandlesAssumption ==
    /\ TradePrice \subseteq Nat \ {0} /\ TradeAmount \subseteq Nat \ {0}
    /\ Granularity \subseteq Nat \ {0} /\ StatsGranularity \in Granularity
    /\ Limit \in Nat \ {0} /\ MaxTies \in 1..(Limit - 1) /\ MaxTime \in Nat \ {0}
    /\ {Day, MaxTrades, MaxRestarts, MaxFailures, MaxLostReplies} \subseteq Nat

VARIABLES
    trades,      \* the trades of the exchange, in order of created_at
    now,         \* the clock
    property,    \* the checkpoint in table properties
    checkpoint,  \* the poller's copy
    page,        \* numbers of the fetched trades that are not added
    polling,     \* between a fetch and the write of the checkpoint
    cache,       \* numbers of the trades the process has added
    candles,     \* table candles, by granularity and point
    stats,       \* what handleMarketStats has read so far
    market,      \* the row of the market, with the time its reading began
    handled,     \* history: trades that were added
    restarts, failures, lost

poller == <<checkpoint, page, polling, cache>>
faults == <<restarts, failures, lost>>
vars == <<trades, now, property, poller, candles, stats, market, handled, faults>>

NoStats == [step |-> "price", price |-> 0, at |-> 0, first |-> 0]
NoMarket == [price |-> 0, first |-> 0, volume |-> 0, at |-> 0]

Init ==
    /\ trades = <<>> /\ now = 1
    /\ property = 0 /\ checkpoint = 0
    /\ page = <<>> /\ polling = FALSE /\ cache = {}
    /\ candles = <<>>
    /\ stats = NoStats
    /\ market = NoMarket
    /\ handled = {}
    /\ restarts = 0 /\ failures = 0 /\ lost = 0

Trade(p, a) ==
    /\ Len(trades) < MaxTrades
    /\ Cardinality({i \in DOMAIN trades : trades[i].at = now}) < MaxTies
    /\ trades' = Append(trades, [price |-> p, amount |-> a, at |-> now])
    /\ UNCHANGED <<now, property, poller, candles, stats, market, handled, faults>>

Tick ==
    /\ now < MaxTime
    /\ now' = now + 1
    /\ UNCHANGED <<trades, property, poller, candles, stats, market, handled, faults>>

-----------------------------------------------------------------------------
(* CreateOrUpdateCandle.                                                   *)

\* Time.Truncate.
Truncate(t, g) == t - (t % g)
KeysOf(t) == {<<g, Truncate(t, g)>> : g \in Granularity}

\* The candle of one trade, and an old candle with the trade added.
\* Mutant: the old candle's close is kept.
OfTrade(t) ==
    [open |-> t.price, close |-> t.price, high |-> t.price, low |-> t.price,
     volume |-> t.amount, total |-> t.price * t.amount]
AddedKeepsClose(c, t) ==
    [c EXCEPT !.high = IF t.price > @ THEN t.price ELSE @,
              !.low = IF t.price < @ THEN t.price ELSE @,
              !.volume = @ + t.amount, !.total = @ + t.price * t.amount]
Added(c, t) ==
    [c EXCEPT !.close = t.price,
              !.high = IF t.price > @ THEN t.price ELSE @,
              !.low = IF t.price < @ THEN t.price ELSE @,
              !.volume = @ + t.amount, !.total = @ + t.price * t.amount]

CreateOrUpdateCandle(t) ==
    candles' = [k \in DOMAIN candles \cup KeysOf(t.at) |->
                  IF k \notin DOMAIN candles THEN OfTrade(t)
                  ELSE IF k \in KeysOf(t.at) THEN Added(candles[k], t) ELSE candles[k]]

-----------------------------------------------------------------------------
(* handleMarketCandles.                                                    *)

\* MarketTrades of the exchange: the first trades since the offset, those of one
\* created_at in any order.  Mutant: the offset is left out.
SinceAfter(i, offset) == trades[i].at > offset
Since(i, offset) == trades[i].at >= offset

Answers(offset) ==
    LET from == {i \in DOMAIN trades : Since(i, offset)}
        listed == {i \in from : Cardinality({j \in from : j < i}) < Limit}
    IN  {s \in Injection(1..Cardinality(listed), listed) :
           \A x, y \in DOMAIN s : x < y => trades[s[x]].at <= trades[s[y]].at}

FetchTrades ==
    /\ ~ polling
    /\ checkpoint' = property
    /\ page' \in Answers(property)
    /\ polling' = TRUE
    /\ UNCHANGED <<trades, now, property, cache, candles, stats, market, handled, faults>>

SkipCached ==
    /\ page # <<>> /\ Head(page) \in cache
    /\ page' = Tail(page)
    /\ UNCHANGED <<trades, now, property, checkpoint, polling, cache, candles, stats, market,
                   handled, faults>>

\* Mutants: the checkpoint does not move; the trade is not remembered.
AdvanceNever(i) == checkpoint
Advance(i) == trades[i].at
RememberedNot(i) == cache
Remembered(i) == cache \cup {i}

AddTrade ==
    /\ page # <<>> /\ Head(page) \notin cache
    /\ CreateOrUpdateCandle(trades[Head(page)])
    /\ handled' = handled \cup {Head(page)}
    /\ \/ /\ checkpoint' = Advance(Head(page))
          /\ cache' = Remembered(Head(page))
          /\ page' = Tail(page)
          /\ UNCHANGED lost
       \/ /\ lost < MaxLostReplies /\ lost' = lost + 1
          /\ UNCHANGED <<checkpoint, cache, page>>
    /\ UNCHANGED <<trades, now, property, polling, stats, market, restarts, failures>>

WriteTimeProperty ==
    /\ polling /\ page = <<>>
    /\ polling' = FALSE
    /\ \/ property' = checkpoint /\ UNCHANGED failures
       \/ failures < MaxFailures /\ failures' = failures + 1 /\ UNCHANGED property
    /\ UNCHANGED <<trades, now, checkpoint, page, cache, candles, stats, market, handled,
                   restarts, lost>>

HandleMarketCandles == FetchTrades \/ SkipCached \/ AddTrade \/ WriteTimeProperty

-----------------------------------------------------------------------------
(* handleMarketStats: AggregateCandlesAsStats is three queries.            *)

Points(g) == {k[2] : k \in {x \in DOMAIN candles : x[1] = g}}
PointsSince(t) == {p \in Points(StatsGranularity) : p >= t}

\* time.Truncate(900) truncates to 900 ns, so that the start is not the start of a
\* candle.  Mutant: it is.
StartOfCandle(t) == Truncate(t - Day, StatsGranularity)
Start(t) == t - Day

ReadPrice ==
    /\ stats.step = "price"
    /\ LET p == Max(Points(StatsGranularity))
           close == candles[StatsGranularity, p].close
       IN  IF Points(StatsGranularity) = {}
           THEN /\ market' = [NoMarket EXCEPT !.at = now] /\ UNCHANGED stats
           ELSE IF p < Start(now)
           THEN /\ market' = [NoMarket EXCEPT !.price = close, !.at = now]
                /\ UNCHANGED stats
           ELSE /\ stats' = [step |-> "first", price |-> close, at |-> now, first |-> 0]
                /\ UNCHANGED market
    /\ UNCHANGED <<trades, now, property, poller, candles, handled, faults>>

ReadFirst ==
    /\ stats.step = "first"
    /\ stats' = [stats EXCEPT !.step = "volume",
                              !.first = candles[StatsGranularity, Min(PointsSince(Start(stats.at)))].close]
    /\ UNCHANGED <<trades, now, property, poller, candles, market, handled, faults>>

\* The change is stored as the close it is relative to.  CreateOrUpdateMarket.
ReadVolume ==
    /\ stats.step = "volume"
    /\ market' = [price |-> stats.price, first |-> stats.first, at |-> stats.at,
                  volume |-> SumFunctionOnSet([p \in Points(StatsGranularity) |->
                                                 candles[StatsGranularity, p].volume],
                                              PointsSince(Start(stats.at)))]
    /\ stats' = NoStats
    /\ UNCHANGED <<trades, now, property, poller, candles, handled, faults>>

HandleMarketStats == ReadPrice \/ ReadFirst \/ ReadVolume

Restart ==
    /\ restarts < MaxRestarts
    /\ restarts' = restarts + 1
    /\ checkpoint' = 0 /\ page' = <<>> /\ polling' = FALSE /\ cache' = {}
    /\ stats' = NoStats
    /\ UNCHANGED <<trades, now, property, candles, market, handled, failures, lost>>

\* The poller alone: the statistics only read what it writes.
PollerNext ==
    \/ \E p \in TradePrice, a \in TradeAmount : Trade(p, a)
    \/ Tick
    \/ HandleMarketCandles
    \/ Restart

Next == PollerNext \/ HandleMarketStats

Spec == Init /\ [][Next]_vars

\* Both goroutines go on.
FairSpec == Spec /\ WF_vars(HandleMarketCandles) /\ WF_vars(HandleMarketStats)

-----------------------------------------------------------------------------
(* MarketCandles: the last candles of a granularity without gaps.          *)

EmptyCandle(c) ==
    [c EXCEPT !.open = c.close, !.high = c.close, !.low = c.close, !.volume = 0, !.total = 0]

\* Mutant: a window that starts between two candles starts at the one after.
StartAfter(g, limit, inputs, end) == Min(inputs)
WindowStart(g, limit, inputs, end) ==
    LET start == end - (limit - 1) * g
    IN  IF \E p \in inputs : p <= start THEN start ELSE Min(inputs)

\* What is shown for point i: the candle, or an empty one after the last before it.
MarketCandles(g, limit) ==
    LET points == Points(g)
        inputs == {p \in points : Cardinality({q \in points : q > p}) < limit}
        end == Max(points)
        start == WindowStart(g, limit, inputs, end)
        shown(i) ==
            IF i \in inputs THEN candles[g, i]
            ELSE EmptyCandle(candles[g, Max({p \in inputs : p < i})])
    IN  IF points = {} THEN <<>>
        ELSE [x \in 1..((end - start) \div g + 1) |->
                [point |-> start + (x - 1) * g, candle |-> shown(start + (x - 1) * g)]]

-----------------------------------------------------------------------------
CandleRecord == [open : Nat, close : Nat, high : Nat, low : Nat, volume : Nat, total : Nat]

TypeOK ==
    /\ Len(trades) <= MaxTrades /\ now \in 1..MaxTime
    /\ \A i, j \in DOMAIN trades : i < j => trades[i].at <= trades[j].at
    /\ {property, checkpoint} \subseteq 0..MaxTime
    /\ polling \in BOOLEAN /\ (page # <<>> => polling)
    /\ cache \subseteq handled /\ handled \subseteq DOMAIN trades
    /\ \A k \in DOMAIN candles :
         k[1] \in Granularity /\ k[2] % k[1] = 0 /\ candles[k] \in CandleRecord
    /\ stats.step \in {"price", "first", "volume"}
    /\ {market.price, market.first, market.volume} \subseteq Nat

SumOf(S) == SumFunctionOnSet([i \in DOMAIN trades |-> trades[i].amount], S)
WorthOf(S) == SumFunctionOnSet([i \in DOMAIN trades |-> trades[i].price * trades[i].amount], S)
TradesIn(k) == {i \in handled : Truncate(trades[i].at, k[1]) = k[2]}
Prices(S) == {trades[i].price : i \in S}
Earliest(S) == {i \in S : \A j \in S : trades[i].at <= trades[j].at}
Latest(S) == {i \in S : \A j \in S : trades[i].at >= trades[j].at}

\* Whatever is fetched again, a candle opens with its first trade and has their highest
\* and lowest price; its volume is theirs as long as the process did not crash and
\* every Apply was acknowledged, and too high but never too low otherwise.
CandlesMatchTrades ==
    /\ \A i \in handled : KeysOf(trades[i].at) \subseteq DOMAIN candles
    /\ \A k \in DOMAIN candles :
         LET mine == TradesIn(k)
             c == candles[k]
         IN  /\ mine # {}
             /\ c.open \in Prices(Earliest(mine))
             /\ c.high = Max(Prices(mine)) /\ c.low = Min(Prices(mine))
             /\ c.volume >= SumOf(mine) /\ c.total >= WorthOf(mine)
             /\ restarts + lost = 0 => c.volume = SumOf(mine) /\ c.total = WorthOf(mine)

\* When the poller has nothing left to add, every candle closes with its last trade,
\* also after trades were added again from an old checkpoint.
CloseIsLast ==
    ~ polling /\ {i \in DOMAIN trades : Since(i, property)} \subseteq cache /\ handled = DOMAIN trades =>
        \A k \in DOMAIN candles : candles[k].close \in Prices(Latest(TradesIn(k)))

\* MarketCandles never returns more than it was asked for, leaves out no candle in
\* its window, and carries the last close into a window that starts in a gap.
WindowIsComplete ==
    \A g \in Granularity, limit \in 1..3 :
        LET m == MarketCandles(g, limit)
        IN  /\ Len(m) <= limit
            /\ \A p \in Points(g) : p > Max(Points(g)) - limit * g =>
                  \E x \in DOMAIN m : m[x] = [point |-> p, candle |-> candles[g, p]]
            /\ m # <<>> /\ (\E p \in Points(g) : p <= m[Len(m)].point - limit * g) => Len(m) = limit

\* The poller lists a full answer of trades it knows and will not move on.
Stalled ==
    ~ polling /\ \A s \in Answers(property) : Len(s) = Limit /\ Range(s) \subseteq cache

\* That happens only after a write of the checkpoint failed, which is only logged
\* (services/candle.go:145), because known trades do not move the checkpoint.
StallNeedsFailedWrite == Stalled => failures > 0

\* The statistics never count a trade of more than a day ago, though they are read in
\* three queries while candles change (AggregateCandlesAsStats).
StatsWithinDay ==
    LET day == {i \in DOMAIN trades : trades[i].at >= market.at - Day}
    IN  /\ restarts + lost = 0 => market.volume <= SumOf(day)
        /\ market.first # 0 => market.first \in Prices(day)

\* Every trade comes into the candles, unless the poller stalls.
EveryTradeIsCounted ==
    \A i \in 1..MaxTrades : i \in DOMAIN trades ~> (i \in handled \/ Stalled)

\* The row of the market ends up with the price of the last trade.
MarketShowsLastPrice ==
    <>[](Stalled \/ trades = <<>> \/ market.price \in Prices(Latest(DOMAIN trades)))
=============================================================================
