-------------------------------- MODULE Book --------------------------------
(***************************************************************************)
(* The matching engine of one market: engine/book.go and engine/page.go,   *)
(* over the orders of module Orders.                                       *)
(*                                                                         *)
(* One goroutine (Book.Run) takes OrderEvents from a bounded channel and   *)
(* runs createOrder or cancelOrder to the end before the next event.       *)
(* createOrder reaches the database through the transact callback once for *)
(* every match, so it is cut there: BeginCreate, one Match per opponent,   *)
(* Settle.  Nothing but AttachOrderEvent can run between those steps.      *)
(*                                                                         *)
(* A page is the set of the orders it holds.  The list of an entry keeps   *)
(* its orders in the sequence in which Put added them; place[o] is that    *)
(* position.  createIndex numbers the creations: 0 is "not in the map".    *)
(***************************************************************************)
EXTENDS Orders, Sequences, FiniteSetsExt

CONSTANTS
    Order,            \* order ids
    NoOrder,          \* the book is not inside createOrder
    EventQueueSize    \* capacity of the events channel

ASSUME NoOrderAssumption == NoOrder \notin Order
ASSUME QueueAssumption == EventQueueSize \in Nat \ {0}

VARIABLES
    order,        \* order[o]: the Order struct of o, shared by events, page and taker
    page,         \* page[s]: the orders resting on side s
    place,        \* place[o]: position in which Put added o to its list
    puts,         \* number of Puts so far
    level,        \* level[s][p]: entry.Amount of an ask level, entry.Funds of a bid level
    createIndex,  \* 0, or the number of the createOrder that accepted o
    created,      \* number of orders accepted by createOrder
    cancelIndex,  \* ids that cancelOrder has seen
    events,       \* the events channel
    taker,        \* the order createOrder is working on, or NoOrder
    opponents,    \* the makers the taker has matched so far
    trades,       \* history: one record per transact callback
    refunds       \* history: how many times the cancel callback ran for o

vars == <<order, page, place, puts, level, createIndex, created, cancelIndex,
          events, taker, opponents, trades, refunds>>

Action == {"CREATE", "CANCEL"}

-----------------------------------------------------------------------------
(* The order in which Page.Iterate visits a page.                          *)

\* A list is walked from its first order.  Mutant: from its last.
AheadLast(m, n) ==
    \/ Better(order[m].side, order[m].price, order[n].price)
    \/ order[m].price = order[n].price /\ place[m] > place[n]
Ahead(m, n) ==
    \/ Better(order[m].side, order[m].price, order[n].price)
    \/ order[m].price = order[n].price /\ place[m] < place[n]

\* m is the next opponent the iterator yields.
IsNext(m) ==
    LET unvisited == page[Opposite(order[taker].side)] \ opponents
    IN  m \in unvisited /\ \A n \in unvisited \ {m} : Ahead(m, n)

\* A LIMIT taker stops at the first opponent whose price is worse than its own.
\* Mutants: it never stops; the comparison is the wrong way round.
WithinLimitAlways(m) == TRUE
WithinLimitReversed(m) ==
    order[taker].type = "LIMIT" =>
        ~ Better(order[taker].side, order[taker].price, order[m].price)
WithinLimit(m) ==
    order[taker].type = "LIMIT" =>
        ~ Better(order[taker].side, order[m].price, order[taker].price)

\* The hook asks order.filled() only after a match.
Iterating == opponents = {} \/ ~ Filled(order[taker])

CanMatch(m) == Iterating /\ IsNext(m) /\ WithinLimit(m)

-----------------------------------------------------------------------------
Init ==
    /\ order \in [Order -> Placement]
    /\ page = [s \in Side |-> {}]
    /\ place = [o \in Order |-> 0]
    /\ puts = 0
    /\ level = [s \in Side |-> [p \in Price |-> 0]]
    /\ createIndex = [o \in Order |-> 0]
    /\ created = 0
    /\ cancelIndex = {}
    /\ events = <<>>
    /\ taker = NoOrder
    /\ opponents = {}
    /\ trades = {}
    /\ refunds = [o \in Order |-> 0]

\* What the poller hands over: any action again and again, because it lists from
\* created_at >= checkpoint, but the CANCEL of an order, always a LIMIT order, never
\* before its CREATE.  Mutant: the CANCEL may come first.
AttachedAlways(o) == TRUE
Attached(o) ==
    createIndex[o] # 0 \/ \E i \in DOMAIN events : events[i] = <<o, "CREATE">>
Listed(o, action) == action = "CANCEL" => Attached(o) /\ order[o].type = "LIMIT"

\* AttachOrderEvent blocks its caller while the channel is full.
AttachOrderEvent(o, action) ==
    /\ Len(events) < EventQueueSize
    /\ events' = Append(events, <<o, action>>)
    /\ UNCHANGED <<order, page, place, puts, level, createIndex, created,
                   cancelIndex, taker, opponents, trades, refunds>>

\* Book.Run takes an event when the previous one is done with.
Receive(o, action) ==
    /\ taker = NoOrder
    /\ events # <<>>
    /\ Head(events) = <<o, action>>
    /\ events' = Tail(events)

\* The id is in createIndex.  Mutant: createOrder does not look.
KnownNever(o) == FALSE
Known(o) == createIndex[o] # 0

\* createOrder returns at once for a known id.
SkipCreate(o) ==
    /\ Receive(o, "CREATE")
    /\ Known(o)
    /\ UNCHANGED <<order, page, place, puts, level, createIndex, created,
                   cancelIndex, taker, opponents, trades, refunds>>

\* createOrder of a new id.  r is the Order struct that came with the event.
BeginCreate(o, r) ==
    /\ Receive(o, "CREATE")
    /\ ~ Known(o)
    /\ order' = [order EXCEPT ![o] = r]
    /\ created' = created + 1
    /\ createIndex' = [createIndex EXCEPT ![o] = created + 1]
    /\ taker' = o
    /\ opponents' = {}
    /\ UNCHANGED <<page, place, puts, level, cancelIndex, trades, refunds>>

\* One turn of Iterate: process, the transact callback, the entry's total.
Match(m) ==
    /\ taker # NoOrder
    /\ CanMatch(m)
    /\ LET s == order[m].side
           x == Matched(order[taker], order[m])
       IN  /\ order' = [order EXCEPT ![taker] = Fill(@, x), ![m] = Fill(@, x)]
           /\ level' = [level EXCEPT ![s][order[m].price] = @ - LevelPart(s, x)]
           /\ trades' = trades \cup
                 {[taker |-> taker, maker |-> m, amount |-> x.amount, funds |-> x.funds]}
    /\ opponents' = opponents \cup {m}
    /\ UNCHANGED <<page, place, puts, createIndex, created, cancelIndex, events,
                   taker, refunds>>

\* The makers that the loop after Iterate removes; their remainder is zero.
\* Mutants: it removes none of them; it removes them all.
SpentNone == {}
SpentAll == opponents
Spent == {m \in opponents : Filled(order[m])}

\* What becomes of the taker when Iterate is over.
Rests(r) == ~ Filled(r) /\ r.type = "LIMIT"

\* Mutant: the rest of a MARKET order is forgotten.
RefundableNever(r) == FALSE
Refundable(r) == ~ Filled(r) /\ r.type = "MARKET"

\* After Iterate: remove the filled opponents, then Put or cancel the rest.
Settle ==
    /\ taker # NoOrder
    /\ ~ \E m \in Order : CanMatch(m)
    /\ LET r == order[taker]
       IN  /\ page' = [page EXCEPT ![Opposite(r.side)] = @ \ Spent,
                                   ![r.side] = IF Rests(r) THEN @ \cup {taker} ELSE @]
           /\ puts' = IF Rests(r) THEN puts + 1 ELSE puts
           /\ place' = IF Rests(r) THEN [place EXCEPT ![taker] = puts + 1] ELSE place
           /\ level' = IF Rests(r)
                       THEN [level EXCEPT ![r.side][r.price] = @ + Remaining(r)]
                       ELSE level
           /\ refunds' = IF Refundable(r) THEN [refunds EXCEPT ![taker] = @ + 1] ELSE refunds
    /\ taker' = NoOrder
    /\ opponents' = {}
    /\ UNCHANGED <<order, createIndex, created, cancelIndex, events, trades>>

\* Page.Remove finds the order in the entry of its price.
\* Mutant: it finds only orders that were never matched.
OnPageUntouched(o) == o \in page[order[o].side] /\ order[o].filledAmount = 0
OnPage(o) == o \in page[order[o].side]

\* cancelOrder: Page.Remove and the cancel callback when the order rests here.
CancelOrder(o) ==
    /\ Receive(o, "CANCEL")
    /\ o \notin cancelIndex /\ OnPage(o)
    /\ cancelIndex' = cancelIndex \cup {o}
    /\ page' = [page EXCEPT ![order[o].side] = @ \ {o}]
    /\ level' = [level EXCEPT ![order[o].side][order[o].price] = @ - Remaining(order[o])]
    /\ refunds' = [refunds EXCEPT ![o] = @ + 1]
    /\ UNCHANGED <<order, place, puts, createIndex, created, taker, opponents, trades>>

\* cancelOrder of an id seen before, or of an order that no longer rests.
SkipCancel(o) ==
    /\ Receive(o, "CANCEL")
    /\ o \in cancelIndex \/ ~ OnPage(o)
    /\ cancelIndex' = cancelIndex \cup {o}
    /\ UNCHANGED <<order, page, place, puts, level, createIndex, created, taker,
                   opponents, trades, refunds>>

Run ==
    \/ \E o \in Order : SkipCreate(o) \/ BeginCreate(o, order[o]) \/ CancelOrder(o) \/ SkipCancel(o)
    \/ \E m \in Order : Match(m)
    \/ Settle

Next ==
    \/ \E o \in Order, action \in Action : Listed(o, action) /\ AttachOrderEvent(o, action)
    \/ Run

Spec == Init /\ [][Next]_vars

\* The goroutine of Book.Run keeps running.
FairSpec == Spec /\ WF_vars(Run)

-----------------------------------------------------------------------------
TypeOK ==
    /\ order \in [Order -> OrderRecord]
    /\ page \in [Side -> SUBSET Order]
    /\ place \in [Order -> Nat]
    /\ puts \in Nat
    /\ level \in [Side -> [Price -> Int]]
    /\ createIndex \in [Order -> Nat]
    /\ created \in Nat
    /\ cancelIndex \subseteq Order
    /\ events \in Seq(Order \X Action)
    /\ Len(events) <= EventQueueSize
    /\ taker \in Order \cup {NoOrder}
    /\ opponents \subseteq Order
    /\ trades \subseteq [taker : Order, maker : Order, amount : Nat, funds : Nat]
    /\ refunds \in [Order -> Nat]
-----------------------------------------------------------------------------
(* Safety.                                                                 *)

Resting == page["ASK"] \cup page["BID"]

\* The book is never crossed: between events and in the middle of a match,
\* every resting ask is dearer than every resting bid (createOrder takes all
\* it can before it calls Put).
NotCrossed ==
    \A a \in page["ASK"], b \in page["BID"] : order[a].price > order[b].price

\* No order is lost or held twice: between events an order that createOrder
\* accepted is in exactly one of three places: on its page, filled, refunded.
Accounted ==
    taker = NoOrder =>
        \A o \in Order : createIndex[o] # 0 =>
            LET rests == o \in page[order[o].side]
                refunded == refunds[o] # 0
            IN  /\ rests \/ refunded \/ Filled(order[o])
                /\ ~ (rests /\ refunded)
                /\ Filled(order[o]) => ~ rests /\ ~ refunded

\* The cancel callback inserts a transfer whose id depends only on the order:
\* it runs at most once for an order, and never for one with nothing left.
RefundOnce ==
    \A o \in Order : refunds[o] # 0 => refunds[o] = 1 /\ ~ Filled(order[o])

\* A cancelled order can never come back: once cancelOrder has seen an id, no
\* page holds it, whatever is delivered again.
CancelIsFinal == cancelIndex \cap Resting = {}

\* Where the orders are, and how they end.
OrdersAccounted == Accounted /\ RefundOnce /\ CancelIsFinal

\* entry.Amount and entry.Funds, kept up to date by Put, Remove and Iterate
\* separately from the orders, are the sums the cached book shows.
LevelExact ==
    \A s \in Side, p \in Price :
        level[s][p] = SumFunctionOnSet([o \in Order |-> Remaining(order[o])],
                                       {o \in page[s] : order[o].price = p})

\* Over all its matches a LIMIT order never does worse than its price: an ask
\* earns at least its price for every unit, a bid spends at most its price for
\* every unit, plus less than one unit when it ends.
LimitHonoured ==
    \A o \in Order : LET r == order[o] IN r.type = "LIMIT" =>
        /\ r.side = "ASK" => r.filledFunds >= r.filledAmount * r.price
        /\ r.side = "BID" =>
             IF Filled(r) THEN r.filledFunds < (r.filledAmount + 1) * r.price
                          ELSE r.filledFunds <= r.filledAmount * r.price

\* Truncation is bounded: a trade takes from the bid what its amount costs, and
\* only the trade that exhausts the bid may take more, by less than one unit.
DustOnlyAtTheEnd ==
    \A t \in trades :
        LET b == IF order[t.taker].side = "BID" THEN t.taker ELSE t.maker
            p == order[t.maker].price
            dust == t.funds - t.amount * p
        IN  dust \in 0..(p - 1) /\ (dust # 0 => Filled(order[b]))

\* What the prices of orders are good for, on the book and in trades.
PricesHonoured == NotCrossed /\ LimitHonoured /\ DustOnlyAtTheEnd

(* What a step may never do.                                               *)

\* Price-time priority: no match goes to a maker while an unfilled order of its
\* side has a better price, or the same price and an earlier createOrder.
PriorityRespected ==
    [][\A m \in opponents' \ opponents :
          \A n \in page[order[m].side] \ {m} :
             \/ Filled(order[n])
             \/ Better(order[m].side, order[m].price, order[n].price)
             \/ order[m].price = order[n].price /\ createIndex[m] < createIndex[n]]_vars

\* The trade id is a hash of taker and maker and Transact inserts: the two
\* orders of a match have never been matched before.
TradeIdIsFresh ==
    [][\A m \in opponents' \ opponents :
          ~ \E t \in trades : {t.taker, t.maker} = {taker, m}]_vars

\* Who is matched next: the first in turn, and each pair once.
MatchesInTurn == PriorityRespected /\ TradeIdIsFresh

(* The contract with the client.                                           *)

Phase(o) ==
    IF createIndex[o] = 0 THEN "new"
    ELSE IF refunds[o] # 0 THEN "refunded"
    ELSE IF Filled(order[o]) THEN "filled" ELSE "open"

Contract == INSTANCE OrderLifecycle WITH
    phase <- [o \in Order |-> Phase(o)],
    left <- [o \in Order |-> Remaining(order[o])]

\* The engine keeps the contract: every one of its steps accepts an order,
\* trades two open orders so that one of them is used up, refunds an open
\* order, or changes nothing a client can see.
KeepsContract == Contract!Spec

(* Liveness, under FairSpec.                                               *)

\* Every CREATE in the channel ends with the order resting, filled or refunded.
EveryOrderSettles ==
    \A o \in Order :
        (\E i \in DOMAIN events : events[i] = <<o, "CREATE">>)
            ~> (o # taker /\ (o \in Resting \/ Filled(order[o]) \/ refunds[o] # 0))

\* Every CANCEL in the channel takes its order off the book for good.
EveryCancelLands ==
    \A o \in Order :
        (\E i \in DOMAIN events : events[i] = <<o, "CANCEL">>) ~> [](o \notin Resting)

\* Whatever the channel brings has its effect.
EveryActionLands == EveryOrderSettles /\ EveryCancelLands
=============================================================================
