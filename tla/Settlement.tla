----------------------------- MODULE Settlement -----------------------------
(***************************************************************************)
(* The money of one market: persistence/trade.go and transfer.go, and the  *)
(* goroutines PollTransfers of exchange.go, one for every broker.          *)
(*                                                                         *)
(* A broker is a wallet at the network.  An order brings its asset to the  *)
(* wallet of the broker it is sent to; trades, cancellations and refunds   *)
(* write rows of table transfers, which the goroutine of the paying broker *)
(* sends to the network and then deletes.  The network executes a trace id *)
(* once.  The process may crash at any point; tables and wallets stay.     *)
(*                                                                         *)
(* Wallets, rows and trades are counted in ledger units, the last digit    *)
(* that Persist keeps; an order in its own coarser units.  processSnapshot *)
(* truncates what came to these, and the broker keeps the rest.            *)
(*                                                                         *)
(* Which orders meet is the business of Book; here any younger order may   *)
(* be the taker of any older one whose price it accepts.  getSettlementId  *)
(* hashes its two arguments, so an id is a record of both.                 *)
(***************************************************************************)
EXTENDS Orders, FiniteSets, Sequences, SequencesExt, Functions

CONSTANTS
    Order,            \* order ids, the trace ids of their snapshots
    Broker,
    AmountGrain,      \* ledger units in a unit of an amount (AmountPrecision)
    FundsGrain,       \* ledger units in a unit of funds (fundsPrecision)
    FeeScale,         \* fees are parts of this, 1000 in the code
    TakerFee,         \* 1 in the code
    MakerFee,         \* 0 in the code
    RefundFee,        \* what refundSnapshot keeps, 1 in the code
    TransferLimit,    \* rows that ListPendingTransfers reads at most
    EmptyRefused,     \* the network refuses a transfer of nothing
    MaxRestarts,      \* bound on crashes
    MaxLostReplies    \* bound on calls that take effect and return an error

ASSUME FeeAssumption ==
    /\ FeeScale \in Nat \ {0}
    /\ {TakerFee, MakerFee, RefundFee} \subseteq 0..FeeScale
ASSUME SettlementAssumption ==
    /\ {AmountGrain, FundsGrain} \subseteq Nat \ {0}
    /\ TransferLimit \in Nat \ {0} /\ EmptyRefused \in BOOLEAN
    /\ MaxRestarts \in Nat /\ MaxLostReplies \in Nat

Asset == {"base", "quote"}
AssetOf(s) == IF s = "ASK" THEN "base" ELSE "quote"
Grain(a) == IF a = "base" THEN AmountGrain ELSE FundsGrain

VARIABLES
    order,        \* order[o]: the Order struct of o and its row
    brokerOf,     \* brokerOf[o]: the broker the snapshot of o is sent to
    excess,       \* excess[o]: what came with o beyond whole units of its precision
    state,        \* state[o]: "ABSENT", "PAID", "PENDING", "DONE", "CANCELLED", "REFUSED", "KEPT"
    age,          \* age[o]: position of o among the accepted orders, or 0
    trades,       \* table trades
    transfers,    \* table transfers, in order of created_at
    batch,        \* batch[b]: the rows PollTransfers of b has listed
    unsent,       \* unsent[b]: those it has not sent yet, in its order
    payments,     \* payments the network has executed
    wallet,       \* wallet[b][a]: balance of b at the network
    restarts,     \* number of crashes
    lost          \* number of lost replies

tables == <<order, excess, state, age, trades>>
poller == <<batch, unsent>>
network == <<payments, wallet>>
vars == <<tables, brokerOf, transfers, poller, network, restarts, lost>>

Init ==
    /\ order \in [Order -> Placement]
    /\ brokerOf \in [Order -> Broker]
    /\ excess = [o \in Order |-> 0]
    /\ state = [o \in Order |-> "ABSENT"]
    /\ age = [o \in Order |-> 0]
    /\ trades = {}
    /\ transfers = <<>>
    /\ batch = [b \in Broker |-> {}]
    /\ unsent = [b \in Broker |-> <<>>]
    /\ payments = {}
    /\ wallet = [b \in Broker |-> [a \in Asset |-> 0]]
    /\ restarts = 0
    /\ lost = 0

-----------------------------------------------------------------------------
(* Rows of table transfers.                                                *)

Row(id, user, asset, amount, b) ==
    [id |-> id, user |-> user, asset |-> asset, amount |-> amount, broker |-> b]

Rows == ToSet(transfers)
Ids(S) == {t.id : t \in S}

\* spanner.InsertStruct: one taken id makes the whole Apply fail.
Insert(s) ==
    /\ {s[i].id : i \in DOMAIN s} \cap Ids(Rows) = {}
    /\ transfers' = transfers \o s

\* The rows of s that are not in S, in the order of s.
Without(s, S) ==
    LET kept[i \in 0..Len(s)] ==
          IF i = 0 THEN <<>>
          ELSE IF s[i] \in S THEN kept[i - 1] ELSE Append(kept[i - 1], s[i])
    IN  kept[Len(s)]

\* What remains of an order, and the amount of the snapshot it came with.
Value(r) == Remaining(r) * Grain(AssetOf(r.side))
Received(o) == Value(order[o]) + excess[o]

\* A snapshot brings its whole amount to the wallet of the broker.
\* Mutant: only what the order will say of it.
DepositTruncated(o, e) == Value(order[o])
Deposited(o, e) == Value(order[o]) + e

Deposit(o) ==
    /\ state[o] = "ABSENT"
    /\ state' = [state EXCEPT ![o] = "PAID"]
    /\ \E e \in 0..(Grain(AssetOf(order[o].side)) - 1) :
         /\ excess' = [excess EXCEPT ![o] = e]
         /\ wallet' = [wallet EXCEPT ![brokerOf[o]][AssetOf(order[o].side)] = @ + Deposited(o, e)]
    /\ UNCHANGED <<order, brokerOf, age, trades, transfers, poller, payments, restarts, lost>>

\* processSnapshot: the order is stored in whole units.
CreateOrderAction(o) ==
    /\ state[o] = "PAID"
    /\ state' = [state EXCEPT ![o] = "PENDING"]
    /\ age' = [age EXCEPT ![o] = 1 + Cardinality({n \in Order : age[n] # 0})]
    /\ UNCHANGED <<order, excess, brokerOf, trades, transfers, poller, network, restarts, lost>>

\* A payment that carries a key or a cancellation instead is not given back.
KeepPayment(o) ==
    /\ state[o] = "PAID"
    /\ state' = [state EXCEPT ![o] = "KEPT"]
    /\ UNCHANGED <<order, excess, brokerOf, age, trades, transfers, poller, network, restarts,
                   lost>>

\* refundSnapshot and CreateRefundTransfer: what came less the fee, if anything.
\* Mutant: what the order would have said of it.
RefundedStored(o) == Value(order[o])
Refunded(o) == Received(o)

RefundRow(o) ==
    Row([kind |-> "REFUND", of |-> {o}], o, AssetOf(order[o].side),
        (Refunded(o) * (FeeScale - RefundFee)) \div FeeScale, brokerOf[o])

RefundSnapshot(o) ==
    /\ state[o] = "PAID"
    /\ state' = [state EXCEPT ![o] = "REFUSED"]
    /\ Insert(IF RefundRow(o).amount = 0 THEN <<>> ELSE <<RefundRow(o)>>)
    /\ UNCHANGED <<order, excess, brokerOf, age, trades, poller, network, restarts, lost>>

-----------------------------------------------------------------------------
(* The callbacks of the engine.                                            *)

Matches(t, m) ==
    /\ state[t] = "PENDING" /\ state[m] = "PENDING"
    /\ age[m] < age[t]
    /\ order[m].type = "LIMIT" /\ order[t].side = Opposite(order[m].side)
    /\ order[t].type = "LIMIT" => ~ Better(order[t].side, order[m].price, order[t].price)
    /\ ~ \E x \in trades : x.taker = t /\ x.maker = m

\* handleFees: the fee is a part of what the side receives, truncated when it is
\* stored.  The ask is paid in quote, the bid in base.
Fee(liquidity, total) == total * (IF liquidity = "TAKER" THEN TakerFee ELSE MakerFee)
\* Mutant: the maker's fee is stored for both.
StoredMakerFee(liquidity, total) == Fee("MAKER", total) \div FeeScale
StoredFee(liquidity, total) == Fee(liquidity, total) \div FeeScale
Payout(liquidity, total) == (total * FeeScale - Fee(liquidity, total)) \div FeeScale

\* The broker that pays a side is the one of the other order.
\* Mutant: the broker of the side itself.
PayerSwapped(o, other) == brokerOf[o]
Payer(o, other) == brokerOf[other]

\* makeTrades, for the ask and the bid of a match of x.amount at the maker's price.
\* The two rows differ by liquidity, and the id of a transfer is derived from it.
TransferId(t, m, liquidity) == [kind |-> liquidity, of |-> {t, m}]

TradeOf(o, t, m, amount) ==
    LET liquidity == IF o = t THEN "TAKER" ELSE "MAKER"
        total == IF order[o].side = "ASK" THEN amount * order[m].price * FundsGrain
                 ELSE amount * AmountGrain
    IN  [taker |-> t, maker |-> m, liquidity |-> liquidity,
         feeAsset |-> AssetOf(Opposite(order[o].side)), total |-> total,
         fee |-> StoredFee(liquidity, total)]

TransferOf(o, other, x) ==
    Row(TransferId(x.taker, x.maker, x.liquidity), o, x.feeAsset,
        Payout(x.liquidity, x.total), Payer(o, other))

\* Transact: one Apply for both orders, both trades and both transfers.
Transact(t, m) ==
    LET x == Matched(order[t], order[m])
        ofTaker == TradeOf(t, t, m, x.amount)
        ofMaker == TradeOf(m, t, m, x.amount)
    IN  /\ Matches(t, m)
        /\ order' = [order EXCEPT ![t] = Fill(@, x), ![m] = Fill(@, x)]
        /\ state' = [o \in Order |->
                       IF o \in {t, m} /\ Filled(order'[o]) THEN "DONE" ELSE state[o]]
        /\ trades' = trades \cup {ofTaker, ofMaker}
        /\ Insert(<<TransferOf(t, m, ofTaker), TransferOf(m, t, ofMaker)>>)
        /\ UNCHANGED <<excess, brokerOf, age, poller, network, restarts, lost>>

\* CancelOrder: what remains goes back.  An Apply that committed and returned an
\* error is tried again, and succeeds when the first row has been deleted.
CancelRow(o) ==
    Row([kind |-> "CANCEL", of |-> {o}], o, AssetOf(order[o].side), Value(order[o]), brokerOf[o])

CancelOrder(o) ==
    /\ state[o] = "PENDING"
    /\ state' = [state EXCEPT ![o] = "CANCELLED"]
    /\ Insert(<<CancelRow(o)>>)
    /\ UNCHANGED <<order, excess, brokerOf, age, trades, poller, network, restarts, lost>>

CancelOrderAgain(o) ==
    /\ state[o] = "CANCELLED" /\ lost < MaxLostReplies
    /\ lost' = lost + 1
    /\ Insert(<<CancelRow(o)>>)
    /\ UNCHANGED <<tables, brokerOf, poller, network, restarts>>

-----------------------------------------------------------------------------
(* PollTransfers of broker b.                                              *)

\* The ids come in order of created_at, the rows of these ids in any order.
ListPendingTransfers(b) ==
    LET mine == Without(transfers, {t \in Rows : t.broker # b})
        listed == {mine[i] : i \in 1..(IF Len(mine) < TransferLimit THEN Len(mine) ELSE TransferLimit)}
    IN  /\ batch[b] = {} /\ mine # <<>>
        /\ batch' = [batch EXCEPT ![b] = listed]
        /\ \E s \in SetToSeqs(listed) : unsent' = [unsent EXCEPT ![b] = s]
        /\ UNCHANGED <<tables, brokerOf, transfers, network, restarts, lost>>

\* bot.CreateTransfer at the network: a trace id it knows is not paid again.
\* Mutants: it does not look at trace ids; one that it knows is an error.
KnownNever(t) == FALSE
Known(t) == \E p \in payments : p.id = t.id

PayNew(t) ==
    /\ ~ Known(t) /\ wallet[t.broker][t.asset] >= t.amount
    /\ wallet' = [wallet EXCEPT ![t.broker][t.asset] = @ - t.amount]
    /\ payments' = payments \cup {t}
Pay(t) ==
    IF Known(t) \/ t.amount = 0
    THEN UNCHANGED network
    ELSE /\ wallet[t.broker][t.asset] >= t.amount
         /\ wallet' = [wallet EXCEPT ![t.broker][t.asset] = @ - t.amount]
         /\ payments' = payments \cup {t}

\* The row of a trade is found by the trade id and the asset its fee is taken in.
ReadTransferTrade(t) == {x \in trades : {x.taker, x.maker} = t.id.of /\ x.feeAsset = t.asset}

\* ensureProcessTransfer goes on when processTransfer succeeds; until then it tries
\* the same transfer.  What fails without effect is no step, and the panic of a
\* transfer without its trade ends the process.
ProcessTransfer(b) ==
    /\ unsent[b] # <<>>
    /\ LET t == Head(unsent[b])
       IN  /\ t.amount = 0 => ~ EmptyRefused
           /\ t.id.kind \in {"TAKER", "MAKER"} => ReadTransferTrade(t) # {}
           /\ Pay(t)
    /\ \/ unsent' = [unsent EXCEPT ![b] = Tail(@)] /\ UNCHANGED lost
       \/ lost < MaxLostReplies /\ lost' = lost + 1 /\ UNCHANGED unsent
    /\ UNCHANGED <<tables, brokerOf, transfers, batch, restarts>>

\* What ExpireTransfers deletes.  Mutant: every row of the broker.
ExpiredAll(b, t) == t.broker = b
Expired(b, t) == t.id \in Ids(batch[b])

ExpireTransfers(b) ==
    /\ batch[b] # {} /\ unsent[b] = <<>>
    /\ transfers' = Without(transfers, {t \in Rows : Expired(b, t)})
    /\ \/ batch' = [batch EXCEPT ![b] = {}] /\ UNCHANGED lost
       \/ lost < MaxLostReplies /\ lost' = lost + 1 /\ UNCHANGED batch
    /\ UNCHANGED <<tables, brokerOf, unsent, network, restarts>>

PollTransfers(b) == ListPendingTransfers(b) \/ ProcessTransfer(b) \/ ExpireTransfers(b)

Restart ==
    /\ restarts < MaxRestarts
    /\ restarts' = restarts + 1
    /\ batch' = [b \in Broker |-> {}]
    /\ unsent' = [b \in Broker |-> <<>>]
    /\ UNCHANGED <<tables, brokerOf, transfers, network, lost>>

Next ==
    \/ \E o \in Order : Deposit(o) \/ CreateOrderAction(o) \/ RefundSnapshot(o) \/ KeepPayment(o)
    \/ \E t, m \in Order : Transact(t, m)
    \/ \E o \in Order : CancelOrder(o) \/ CancelOrderAgain(o)
    \/ \E b \in Broker : PollTransfers(b)
    \/ Restart

Spec == Init /\ [][Next]_vars
FairSpec == Spec /\ \A b \in Broker : WF_vars(PollTransfers(b))

-----------------------------------------------------------------------------
Transfer ==
    [id : [kind : {"TAKER", "MAKER", "CANCEL", "REFUND"}, of : SUBSET Order],
     user : Order, asset : Asset, amount : Nat, broker : Broker]
Trade ==
    [taker : Order, maker : Order, liquidity : {"TAKER", "MAKER"}, feeAsset : Asset,
     total : Nat, fee : Nat]

TypeOK ==
    /\ order \in [Order -> OrderRecord]
    /\ brokerOf \in [Order -> Broker]
    /\ excess \in [Order -> Nat]
    /\ state \in
         [Order -> {"ABSENT", "PAID", "PENDING", "DONE", "CANCELLED", "REFUSED", "KEPT"}]
    /\ age \in [Order -> Nat]
    /\ trades \subseteq Trade /\ transfers \in Seq(Transfer) /\ payments \subseteq Transfer
    /\ batch \in [Broker -> SUBSET Transfer] /\ unsent \in [Broker -> Seq(Transfer)]
    /\ \A b \in Broker : ToSet(unsent[b]) \subseteq batch[b]
    /\ wallet \in [Broker -> [Asset -> Nat]]
    /\ restarts \in 0..MaxRestarts /\ lost \in 0..MaxLostReplies

\* What broker b still owes in asset a: rows the network has not paid, snapshots it
\* has not dealt with, and what remains of the orders it was sent.
Placed == {o \in Order : state[o] # "ABSENT"}
Unpaid(t, b, a) == IF t.broker = b /\ t.asset = a /\ ~ Known(t) THEN t.amount ELSE 0
SentTo(o, b, a) == brokerOf[o] = b /\ AssetOf(order[o].side) = a
Due(o, b, a) ==
    IF ~ SentTo(o, b, a) THEN 0
    ELSE IF state[o] = "PAID" THEN Received(o)
    ELSE IF state[o] = "PENDING" THEN Value(order[o]) ELSE 0

OwedRows(b, a) == SumFunctionOnSet([t \in Rows |-> Unpaid(t, b, a)], Rows)
OwedOrders(b, a) == SumFunctionOnSet([o \in Placed |-> Due(o, b, a)], Placed)
Owed(b, a) == OwedRows(b, a) + OwedOrders(b, a)

\* What b may keep of asset a: the fees of the trades it paid and what truncation
\* took from them, less than a price of funds or a ledger unit; the fees of refunds;
\* less than a unit of every order it stored; and payments that were no orders.
PayerOf(x) == brokerOf[IF x.liquidity = "TAKER" THEN x.maker ELSE x.taker]
Commission(x, b, a) ==
    IF x.feeAsset = a /\ PayerOf(x) = b
    THEN x.fee + (IF a = "quote" THEN order[x.maker].price * FundsGrain ELSE 1)
    ELSE 0
KeptOf(o, b, a) ==
    IF ~ SentTo(o, b, a) THEN 0
    ELSE IF state[o] = "REFUSED" THEN (Received(o) * RefundFee + FeeScale - 1) \div FeeScale
    ELSE IF state[o] \in {"PENDING", "DONE", "CANCELLED"} THEN excess[o]
    ELSE IF state[o] = "KEPT" THEN Received(o) ELSE 0

EarnedFees(b, a) == SumFunctionOnSet([x \in trades |-> Commission(x, b, a)], trades)
EarnedOrders(b, a) == SumFunctionOnSet([o \in Placed |-> KeptOf(o, b, a)], Placed)
Earned(b, a) == EarnedFees(b, a) + EarnedOrders(b, a)

\* No broker ever owes more of an asset than it holds, whichever brokers the two
\* sides of a trade were sent to, and however often a transfer is sent again after a
\* crash or a lost reply (handleFees, CancelOrder, PollTransfers).
BrokersSolvent == \A b \in Broker, a \in Asset : wallet[b][a] >= Owed(b, a)

\* A broker keeps fees, less than one unit per truncation, that of the snapshot into
\* the order included, and payments that carried a key or a cancellation, and nothing
\* else of what users sent.  A row that is deleted unpaid breaks it.
OnlyFeesAreKept ==
    \A b \in Broker, a \in Asset : wallet[b][a] - Owed(b, a) <= Earned(b, a)

\* processTransfer finds the trade a transfer was made for by its asset, so that it
\* never panics (exchange.go:158): both transfers of a trade are explained, and the
\* fee of the trade row and the payout make up the total but for a truncated unit.
TradeTransfersExplained ==
    \A t \in Rows : t.id.kind \in {"TAKER", "MAKER"} =>
        \E x \in ReadTransferTrade(t) :
            /\ x.liquidity = t.id.kind
            /\ t.amount + x.fee =
                 x.total - IF Fee(x.liquidity, x.total) % FeeScale = 0 THEN 0 ELSE 1

Debts == INSTANCE Payouts WITH
    owed <- {t \in Rows : t.amount > 0 /\ ~ Known(t)}, paid <- payments

\* Every transfer that is written is paid before its row is deleted and paid once,
\* though it may be listed, sent, inserted and deleted again after a crash or a lost
\* reply (PollTransfers, CancelOrder tried again).
EveryDebtIsPaidOnce == Debts!Spec

\* The goroutine of a broker sends and deletes whatever is written, through crashes
\* and lost replies, and runs dry again and again; only a transfer of nothing that
\* the network refuses can stop it (ensureProcessTransfer).
QueuesRunDry ==
    \A b \in Broker :
        \/ []<>(\A t \in Rows : t.broker # b)
        \/ EmptyRefused /\ <>(\E t \in Rows : t.broker = b /\ t.amount = 0)
=============================================================================
