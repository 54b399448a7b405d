------------------------------ MODULE OrderPath ------------------------------
(***************************************************************************)
(* The way of an order, part by part: the page and the server it is sent   *)
(* from, the snapshots the exchange reads, the actions it keeps, the       *)
(* listing a client reads back, the trades and transfers that pay for it,  *)
(* and the mutexes of those transfers.                                     *)
(*                                                                         *)
(* The parts share no state.  A behaviour moves one of them and leaves the *)
(* others where they begin, so that their state spaces add up in one run.  *)
(* Where a part is checked twice, two instances share its variables.       *)
(***************************************************************************)
EXTENDS Integers

CONSTANTS
    Order,
    \* Snapshots
    Broker, NoBroker, User, NoUser, PublicKey, NoKey, AssetId, AmountStep, PriceStep, FundsStep,
    QuoteMin, MaxPrice, MaxAmount, RefundFee, FeeScale,
    AnyContent,      \* what one snapshot may say
    FewContent,      \* what the snapshots of a long log may say
    PageLimit, MaxSnapshots, SnapshotTies, PollerRestarts, MaxFailures, MaxLostReplies,
    \* ClientOrders: two records of its constants
    ValuesCase, RetriesCase,
    \* Actions
    ActionLimit, ActionTime, EngineRestarts,
    \* Listing
    ListLimit, ListTime, ListTies, MaxSkew,
    \* TransferMutex
    Sender, MutexKey, NoMutexKey, MaxMutexes

VARIABLES
    part,
    \* Snapshots
    log, property, checkpoint, page, polling, seen, orderState, cancelled, publicKey,
    refundRow, handled, first, restarts, failures, lost,
    \* ClientOrders
    trace, waiting, requests, sent, network, success, done,
    \* Actions
    type, state, actions, clock, attached, batch, createIndex, cancelIndex, resting, crashes,
    \* Listing
    listState, createdAt, listClock, reading, order, start, offset, given, steady, early,
    \* TransferMutex
    stored, made, holder, pc, key, mutex, raced,
    \* Settlement
    placed, brokerOf, excess, orderRow, age, orderTrades, transfers, transferBatch, unsent,
    payments, wallet, stops, lostReplies

snapshotVars ==
    <<log, property, checkpoint, page, polling, seen, orderState, cancelled, publicKey,
      refundRow, handled, first, restarts, failures, lost>>
clientVars == <<trace, waiting, requests, sent, network, success, done>>
actionVars ==
    <<type, state, actions, clock, attached, batch, createIndex, cancelIndex, resting, crashes>>
listVars ==
    <<listState, createdAt, listClock, reading, order, start, offset, given, steady, early>>
mutexVars == <<stored, made, holder, pc, key, mutex, raced>>

moneyVars ==
    <<placed, brokerOf, excess, orderRow, age, orderTrades, transfers, transferBatch, unsent,
      payments, wallet, stops, lostReplies>>

-----------------------------------------------------------------------------
Network == INSTANCE Snapshots WITH
    Key <- PublicKey, Asset <- AssetId, Content <- FewContent,
    Limit <- PageLimit, MaxTies <- SnapshotTies, MaxRestarts <- PollerRestarts

-----------------------------------------------------------------------------
Client(c) == INSTANCE ClientOrders WITH
    Key <- PublicKey, Asset <- c.asset, OOO <- c.ooo,
    AmountStep <- c.amountStep, PriceStep <- c.priceStep, FundsStep <- c.fundsStep,
    QuoteMin <- c.quoteMin, MaxPrice <- c.maxPrice, MaxAmount <- c.maxAmount, Scale <- c.scale,
    ClientPriceStep <- c.priceStep, ClientAmountStep <- c.amountStep,
    ClientFundsStep <- c.clientFundsStep, FormMinFunds <- c.formMinFunds,
    FormMaxPrice <- c.formMaxPrice, FormMaxAmount <- c.formMaxAmount,
    PageMarket <- c.pageMarket, Entry <- c.entry, ApiOrder <- c.apiOrder,
    MaxSubmits <- c.maxSubmits

-----------------------------------------------------------------------------
\* Orders whose snapshots share a created_at, and pages that cut through them.
Poller == INSTANCE Actions WITH
    Limit <- ActionLimit, MaxTime <- ActionTime, MaxRestarts <- EngineRestarts,
    checkpoint <- attached, restarts <- crashes

Reader == INSTANCE Listing WITH
    Limit <- ListLimit, MaxTime <- ListTime, MaxTies <- ListTies,
    state <- listState, clock <- listClock, seen <- given

Mutexes == INSTANCE TransferMutex WITH
    Broker <- Sender, Key <- MutexKey, NoKey <- NoMutexKey

\* Three orders, so that a taker may meet two makers, and two brokers; with its theorems.
Money == INSTANCE SettlementProofs WITH
    Order <- 1..3, Broker <- 1..2,
    QuoteMinimum <- 1, MaxPrice <- 2, Price <- {2}, AskAmount <- {3}, BidFunds <- {5},
    AmountGrain <- 3, FundsGrain <- 1, FeeScale <- 4, TakerFee <- 1, MakerFee <- 0, RefundFee <- 1,
    TransferLimit <- 2, EmptyRefused <- FALSE, MaxRestarts <- 0, MaxLostReplies <- 0,
    order <- placed, state <- orderRow, trades <- orderTrades, batch <- transferBatch,
    restarts <- stops, lost <- lostReplies

\* The third order takes what the first two offer, one at its own broker and one at the
\* other; the other parts leave all this alone.
TwoMakers ==
    /\ placed[1].type = "LIMIT" /\ placed[2].type = "LIMIT"
    /\ placed[1].side = placed[2].side /\ placed[2].side # placed[3].side
    /\ brokerOf[1] = 1 /\ brokerOf[2] = 2 /\ brokerOf[3] = 2
    /\ part # "money" => placed[3].type = "LIMIT" /\ placed[3].side = "ASK"

ASSUME SnapshotsAssumption == Network!IngestAssumption /\ Network!SnapshotsAssumption
ASSUME ContentAssumption == AnyContent \cup FewContent \subseteq Network!SnapshotRecord
ASSUME ActionsAssumption == Poller!ActionsAssumption
ASSUME ListingAssumption == Reader!ListingAssumption
ASSUME MutexAssumption == Mutexes!MutexAssumption
ASSUME MoneyAssumption ==
    /\ Money!PriceAssumption /\ Money!SizeAssumption
    /\ Money!FeeAssumption /\ Money!SettlementAssumption
ASSUME ClientAssumption ==
    \A c \in {ValuesCase, RetriesCase} : Client(c)!IngestAssumption /\ Client(c)!ClientAssumption

-----------------------------------------------------------------------------
PathInit ==
    /\ part \in {"snapshots", "contents", "values", "retries", "actions", "listing", "mutexes", "money"}
    /\ Network!Init
    /\ Client(RetriesCase)!Init
    /\ Poller!Init /\ (part # "actions" => type = [o \in Order |-> "LIMIT"])
    /\ Reader!Init
    /\ Mutexes!Init
    /\ Money!Init
    /\ TwoMakers

SnapshotStep ==
    /\ \/ part = "snapshots" /\ Network!Next
       \/ part = "contents" /\ log = <<>> /\ \E c \in AnyContent : Network!Arrive(c)
    /\ UNCHANGED <<part, clientVars, actionVars, listVars, mutexVars, moneyVars>>

ClientStep ==
    /\ \/ part = "values" /\ Client(ValuesCase)!Next
       \/ part = "retries" /\ Client(RetriesCase)!Next
    /\ UNCHANGED <<part, snapshotVars, actionVars, listVars, mutexVars, moneyVars>>

ActionStep ==
    /\ part = "actions" /\ Poller!Next
    /\ UNCHANGED <<part, snapshotVars, clientVars, listVars, mutexVars, moneyVars>>

ListStep ==
    /\ part = "listing" /\ Reader!Next
    /\ UNCHANGED <<part, snapshotVars, clientVars, actionVars, mutexVars, moneyVars>>

MutexStep ==
    /\ part = "mutexes" /\ Mutexes!Next
    /\ UNCHANGED <<part, snapshotVars, clientVars, actionVars, listVars, moneyVars>>

MoneyStep ==
    /\ part = "money" /\ Money!Next
    /\ UNCHANGED <<part, snapshotVars, clientVars, actionVars, listVars, mutexVars>>

PathNext == SnapshotStep \/ ClientStep \/ ActionStep \/ ListStep \/ MutexStep \/ MoneyStep

pathVars == <<part, snapshotVars, clientVars, actionVars, listVars, mutexVars, moneyVars>>

PathSpec == PathInit /\ [][PathNext]_pathVars

-----------------------------------------------------------------------------
\* What processSnapshot lets through is what the engine assumes of an order, and two
\* assets have at most one market (Snapshots).
OrdersFitTheEngine ==
    part = "contents" =>
        /\ Network!TypeOK
        /\ Network!AcceptedOrdersAreBookOrders
        /\ Network!OnePairOneMarket

\* Through a crash, a failed write and a lost reply no snapshot is passed over, a
\* cancellation reaches its order, a new key replaces the old one for good, and a
\* snapshot that is processed again reopens no order (Snapshots).
SnapshotsAreKept ==
    /\ [](part = "snapshots" =>
            /\ Network!TypeOK
            /\ Network!NothingSkipped
            /\ Network!CancelsReachOrders
            /\ Network!LastKeyWins
            /\ Network!StallNeedsFailedWrite)
    /\ Network!OrdersStayDone

\* The exchange reads in a snapshot what was asked for, and refunds an order of the
\* example only for its size; a form that is sent again after an error places no second
\* order, and one that shows a success has placed one (ClientOrders).
Placed(c) ==
    /\ Client(c)!TypeOK
    /\ Client(c)!PlacedAsEntered
    /\ Client(c)!RefundedOnlyForSize
    /\ Client(c)!NearlyEnough
    /\ Client(c)!BidBuysAUnit
    /\ Client(c)!OneOrderPerSuccess
    /\ Client(c)!SuccessMeansPlaced
EntriesArePlaced ==
    /\ part = "values" => Placed(ValuesCase)
    /\ part = "retries" => Placed(RetriesCase)

\* The book holds what the tables call PENDING, by age, and the checkpoint passes over
\* no order and no cancellation (Actions).
ActionsReachTheBook ==
    part = "actions" =>
        /\ Poller!TypeOK
        /\ Poller!BookMatchesTable
        /\ Poller!BookIsByAge
        /\ Poller!CancelsLandUnlessTied
        /\ Poller!NothingLeftBehind

\* Whoever reads to the end is given every order, though it changes from one list to
\* the other meanwhile (Listing).
ListsAreComplete ==
    part = "listing" =>
        /\ Reader!TypeOK
        /\ Reader!SteadyOrdersAreListed
        /\ Reader!NothingFallsBetween

\* Transfers of one recipient and asset overlap only while the first mutex is made
\* (TransferMutex).
TransfersOfOneKey ==
    part = "mutexes" =>
        /\ Mutexes!TypeOK
        /\ Mutexes!OnlyFirstFetchesOverlap
        /\ Mutexes!OneMutexPerRacer

\* With a taker of two makers no broker owes more than it holds or keeps more than fees,
\* and every transfer finds its trade (Settlement); and transfers of one key are apart.
TransfersAreRight ==
    /\ part = "money" =>
         /\ Money!TypeOK
         /\ Money!BrokersSolvent
         /\ Money!OnlyFeesAreKept
         /\ Money!TradeTransfersExplained
    /\ TransfersOfOneKey
=============================================================================
