------------------------------ MODULE Exchange ------------------------------
(***************************************************************************)
(* One market of the exchange with its database: exchange.go and           *)
(* persistence/action.go, persistence/trade.go around the engine of Book.  *)
(*                                                                         *)
(* The process holds only memory, and may crash between any two steps.     *)
(* The tables orders, actions, trades and transfers survive; after a       *)
(* restart PollOrderActions lists the actions of all pending orders from   *)
(* the beginning and so rebuilds the book.                                 *)
(*                                                                         *)
(* Every callback of the engine writes with one Apply, which is atomic.    *)
(* The callback tries again until Apply returns no error.  An Apply that   *)
(* failed without effect is no step here; one that took effect although    *)
(* it returned an error (a deadline, a lost connection) is.                *)
(*                                                                         *)
(* The order of Book is the struct an event carries: each listing reads a  *)
(* copy from the table orders, and createOrder uses the copy of the first  *)
(* event it accepts.  Book's trades doubles as the table trades.           *)
(***************************************************************************)
EXTENDS Book

CONSTANTS
    ListLimit,           \* rows that ListPendingActions reads at most
    MaxRestarts,         \* bound on crashes
    MaxUnackedTrades,    \* bound on trades committed without acknowledgement
    MaxUnackedCancels    \* bound on refunds committed without acknowledgement

ASSUME LimitAssumption == ListLimit \in Nat \ {0, 1}
ASSUME BoundAssumption ==
    MaxRestarts \in Nat /\ MaxUnackedTrades \in Nat /\ MaxUnackedCancels \in Nat

VARIABLES
    row,          \* row[o]: what table orders says of o, from its insertion on
    state,        \* state[o]: its column state, "ABSENT" before the insertion
    actions,      \* actions[<<o, a>>]: created_at in table actions, 0 without a row
    clock,        \* created_at of the last snapshot; no two snapshots share one
    refundRow,    \* orders with an ORDER_CANCELLED row in table transfers
    checkpoint,   \* PollOrderActions: created_at of the last attached action
    batch,        \* PollOrderActions: the listed actions that are not attached
    carried,      \* the Order structs of the events in the channel
    conflict,     \* Transact fails for ever, its trade id is taken
    recommit,     \* the order whose CancelOrder is tried again, or NoOrder
    restarts,     \* number of crashes
    unacked       \* unacked.trades, unacked.cancels: commits reported as errors

tables == <<row, state, actions, refundRow>>
faults == <<conflict, recommit, restarts, unacked>>
poller == <<checkpoint, batch>>
book == vars
exchangeVars ==
    <<vars, row, state, actions, clock, refundRow, poller, carried, faults>>

State == {"ABSENT", "PENDING", "DONE"}
Key == Order \X Action

ExchangeInit ==
    /\ Init
    /\ row = order
    /\ state = [o \in Order |-> "ABSENT"]
    /\ actions = [x \in Key |-> 0]
    /\ clock = 0
    /\ refundRow = {}
    /\ checkpoint = 0
    /\ batch = {}
    /\ carried = <<>>
    /\ conflict = FALSE
    /\ recommit = NoOrder
    /\ restarts = 0
    /\ unacked = [trades |-> 0, cancels |-> 0]

-----------------------------------------------------------------------------
(* Ingest: processSnapshot for a snapshot of this market.  Snapshots come in  *)
(* order of created_at; one that comes again finds its row and does nothing.  *)

CreateOrderAction(o) ==
    /\ state[o] = "ABSENT"
    /\ state' = [state EXCEPT ![o] = "PENDING"]
    /\ clock' = clock + 1
    /\ actions' = [actions EXCEPT ![<<o, "CREATE">>] = clock + 1]
    /\ UNCHANGED <<book, row, refundRow, poller, carried, faults>>

CancelOrderAction(o) ==
    /\ actions[<<o, "CANCEL">>] = 0
    /\ state[o] = "PENDING" /\ row[o].type = "LIMIT"
    /\ clock' = clock + 1
    /\ actions' = [actions EXCEPT ![<<o, "CANCEL">>] = clock + 1]
    /\ UNCHANGED <<book, row, state, refundRow, poller, carried, faults>>

-----------------------------------------------------------------------------
(* PollOrderActions.                                                       *)

\* One transaction reads the first actions since the checkpoint and their orders.
ListPendingActions ==
    LET pending == {x \in Key : actions[x] # 0 /\ actions[x] >= checkpoint}
        listed == {x \in pending : Cardinality({y \in pending : actions[y] < actions[x]}) < ListLimit}
    IN  /\ batch = {}
        /\ batch' = {[id |-> x[1], action |-> x[2], createdAt |-> actions[x],
                      order |-> row[x[1]]] : x \in listed}
        /\ UNCHANGED <<book, tables, clock, checkpoint, carried, faults>>

\* ensureProcessOrderAction, in the order of the listing.
\* Mutant: in any order.
FirstAnyhow(a) == TRUE
First(a) == \A b \in batch : a.createdAt <= b.createdAt

EnsureProcessOrderAction(a) ==
    /\ First(a)
    /\ AttachOrderEvent(a.id, a.action)
    /\ carried' = Append(carried, a.order)
    /\ batch' = batch \ {a}
    /\ checkpoint' = a.createdAt
    /\ UNCHANGED <<tables, clock, faults>>

PollOrderActions ==
    \/ ListPendingActions
    \/ \E a \in batch : EnsureProcessOrderAction(a)
-----------------------------------------------------------------------------
(* The goroutine of the book and its two callbacks.                        *)

\* It is stuck inside a callback as long as the callback tries again.
Working == ~ conflict /\ recommit = NoOrder

SkipEvent ==
    /\ Working
    /\ \E o \in Order : SkipCreate(o) \/ SkipCancel(o)
    /\ carried' = Tail(carried)
    /\ UNCHANGED <<tables, clock, poller, faults>>

AcceptOrder(o) ==
    /\ Working
    /\ BeginCreate(o, Head(carried))
    /\ carried' = Tail(carried)
    /\ UNCHANGED <<tables, clock, poller, faults>>

\* makeOrderMutations: both orders are updated; a filled one is DONE and loses its
\* actions.  Mutant: the maker is left out.
UpdateTakerOnly(S) ==
    LET done == Filled(order'[taker])
    IN  /\ row' = [row EXCEPT ![taker] = order'[taker]]
        /\ state' = [state EXCEPT ![taker] = IF done THEN "DONE" ELSE @]
        /\ actions' = [x \in Key |-> IF x[1] = taker /\ done THEN 0 ELSE actions[x]]
UpdateOrders(S) ==
    /\ row' = [o \in Order |-> IF o \in S THEN order'[o] ELSE row[o]]
    /\ state' = [o \in Order |-> IF o \in S /\ Filled(order'[o]) THEN "DONE" ELSE state[o]]
    /\ actions' = [x \in Key |->
                     IF x[1] \in S /\ Filled(order'[x[1]]) THEN 0 ELSE actions[x]]

\* The trade was committed but the callback does not know, so its next attempt
\* inserts a trade id that is taken, and so does every later one.
TradeReply ==
    \/ UNCHANGED faults
    \/ /\ unacked.trades < MaxUnackedTrades
       /\ unacked' = [unacked EXCEPT !.trades = @ + 1]
       /\ conflict' = TRUE
       /\ UNCHANGED <<recommit, restarts>>

\* Match with persistence.Transact.  The trade id is a hash of taker and maker.
Transact(m) ==
    /\ Working
    /\ taker # NoOrder
    /\ IF \E t \in trades : t.taker = taker /\ t.maker = m
       THEN /\ CanMatch(m)
            /\ conflict' = TRUE
            /\ UNCHANGED <<book, row, state, actions, recommit, restarts, unacked>>
       ELSE /\ Match(m)
            /\ UpdateOrders({taker, m})
            /\ TradeReply
    /\ UNCHANGED <<refundRow, clock, poller, carried>>

\* persistence.CancelOrder.  The transfer id is a hash of the order, so that the
\* Apply fails as long as a transfer with this id waits to be sent.
\* Mutant: the actions are not deleted.
CommitKeepsActions(o) ==
    /\ o \notin refundRow
    /\ row' = [row EXCEPT ![o] = order[o]]
    /\ state' = [state EXCEPT ![o] = "DONE"]
    /\ refundRow' = refundRow \cup {o}
    /\ UNCHANGED actions
CommitCancel(o) ==
    /\ o \notin refundRow
    /\ row' = [row EXCEPT ![o] = order[o]]
    /\ state' = [state EXCEPT ![o] = "DONE"]
    /\ refundRow' = refundRow \cup {o}
    /\ actions' = [actions EXCEPT ![<<o, "CREATE">>] = 0, ![<<o, "CANCEL">>] = 0]

\* Tried again, CancelOrder succeeds once the transfer has been sent and deleted.
CancelReply(o) ==
    \/ recommit' = NoOrder /\ UNCHANGED unacked
    \/ /\ unacked.cancels < MaxUnackedCancels
       /\ unacked' = [unacked EXCEPT !.cancels = @ + 1]
       /\ recommit' = o

SettleTaker ==
    /\ Working
    /\ Settle
    /\ IF Refundable(order[taker])
       THEN CommitCancel(taker) /\ CancelReply(taker)
       ELSE UNCHANGED <<tables, recommit, unacked>>
    /\ UNCHANGED <<clock, poller, carried, conflict, restarts>>

CancelResting(o) ==
    /\ Working
    /\ CancelOrder(o)
    /\ CommitCancel(o)
    /\ CancelReply(o)
    /\ carried' = Tail(carried)
    /\ UNCHANGED <<clock, poller, conflict, restarts>>

CommitAgain ==
    /\ recommit # NoOrder
    /\ CommitCancel(recommit)
    /\ CancelReply(recommit)
    /\ UNCHANGED <<book, clock, poller, carried, conflict, restarts>>

Engine ==
    \/ SkipEvent
    \/ \E o \in Order : AcceptOrder(o) \/ CancelResting(o)
    \/ \E m \in Order : Transact(m)
    \/ SettleTaker
    \/ CommitAgain

\* PollTransfers has sent the refund of o and deletes its row.
ExpireRefund(o) ==
    /\ o \in refundRow
    /\ refundRow' = refundRow \ {o}
    /\ UNCHANGED <<book, row, state, actions, clock, poller, carried, faults>>

\* The memory of the book is gone.  What the next process will know of the orders is
\* what their rows say.
Forget ==
    /\ order' = row
    /\ page' = [s \in Side |-> {}]
    /\ place' = [o \in Order |-> 0]
    /\ puts' = 0
    /\ level' = [s \in Side |-> [p \in Price |-> 0]]
    /\ createIndex' = [o \in Order |-> 0]
    /\ created' = 0
    /\ cancelIndex' = {}
    /\ events' = <<>>
    /\ taker' = NoOrder
    /\ opponents' = {}
    /\ UNCHANGED <<trades, refunds>>

\* A new poller starts at time zero.  Mutant: where the old one was.
CheckpointKept == checkpoint
CheckpointAtStart == 0

\* The process dies and is started again; the tables stay.
Restart ==
    /\ restarts < MaxRestarts
    /\ restarts' = restarts + 1
    /\ Forget
    /\ checkpoint' = CheckpointAtStart
    /\ batch' = {}
    /\ carried' = <<>>
    /\ conflict' = FALSE
    /\ recommit' = NoOrder
    /\ UNCHANGED <<tables, clock, unacked>>

ExchangeNext ==
    \/ \E o \in Order : CreateOrderAction(o) \/ CancelOrderAction(o)
    \/ PollOrderActions
    \/ Engine
    \/ \E o \in Order : ExpireRefund(o)
    \/ Restart

ExchangeSpec == ExchangeInit /\ [][ExchangeNext]_exchangeVars

\* The pollers and the goroutine of the book keep running.
ExchangeFairSpec ==
    /\ ExchangeSpec
    /\ WF_exchangeVars(PollOrderActions)
    /\ WF_exchangeVars(Engine)
    /\ WF_exchangeVars(\E o \in Order : ExpireRefund(o))

-----------------------------------------------------------------------------
ExchangeTypeOK ==
    /\ TypeOK
    /\ row \in [Order -> OrderRecord]
    /\ state \in [Order -> State]
    /\ actions \in [Key -> Nat]
    /\ clock \in Nat
    /\ refundRow \subseteq Order
    /\ checkpoint \in Nat
    /\ batch \subseteq [id : Order, action : Action, createdAt : Nat, order : OrderRecord]
    /\ carried \in Seq(OrderRecord) /\ Len(carried) = Len(events)
    /\ conflict \in BOOLEAN
    /\ recommit \in Order \cup {NoOrder}
    /\ restarts \in 0..MaxRestarts
    /\ unacked \in [trades : 0..MaxUnackedTrades, cancels : 0..MaxUnackedCancels]

\* Tables orders and actions agree, crash or not: exactly the PENDING orders have
\* a CREATE action, and a CANCEL action waits only for a PENDING LIMIT order and
\* is younger than its CREATE.
ActionsMatchState ==
    \A o \in Order :
        /\ actions[<<o, "CREATE">>] # 0 <=> state[o] = "PENDING"
        /\ actions[<<o, "CANCEL">>] # 0 =>
             /\ row[o].type = "LIMIT"
             /\ actions[<<o, "CREATE">>] \in 1..(actions[<<o, "CANCEL">>] - 1)

\* Nothing is matched twice or lost: what a row says is filled is the sum of the
\* trades of the order, whatever copies were read and whenever the process died.
TradesExplainRows ==
    \A o \in Order :
        LET mine == {t \in trades : o \in {t.taker, t.maker}}
        IN  /\ row[o].filledAmount = SumFunctionOnSet([t \in trades |-> t.amount], mine)
            /\ row[o].filledFunds = SumFunctionOnSet([t \in trades |-> t.funds], mine)

\* Transact is never stuck on a taken trade id unless a commit of it was reported
\* as an error; a rebuilt book never repeats a trade of the book before it.
StuckOnlyIfUnacked == conflict => unacked.trades > 0

\* The engine is given what Book assumes and does only what Book says: events come
\* in an order Book allows, and the copy createOrder gets is not stale.
EngineAsSpecified == [][Next \/ Forget]_vars

\* Price-time priority holds across crashes: in the tables, no trade passes over
\* a PENDING LIMIT order older than the taker with a better price, or with the
\* same price and an earlier created_at.
PriorityAcrossRestarts ==
    [][\A t \in trades' \ trades : \A n \in Order \ {t.maker} :
          LET m == t.maker
          IN  /\ state[n] = "PENDING" /\ row[n].type = "LIMIT" /\ ~ Filled(row[n])
              /\ row[n].side = row[m].side
              /\ actions[<<n, "CREATE">>] < actions[<<t.taker, "CREATE">>]
              => \/ Better(row[m].side, row[m].price, row[n].price)
                 \/ /\ row[m].price = row[n].price
                    /\ actions[<<m, "CREATE">>] < actions[<<n, "CREATE">>]]_exchangeVars

\* What a client reads of its order in table orders.
RowPhase(o) ==
    IF state[o] = "ABSENT" THEN "new"
    ELSE IF Filled(row[o]) THEN "filled"
    ELSE IF state[o] = "DONE" THEN "refunded" ELSE "open"

RowContract == INSTANCE OrderLifecycle WITH
    phase <- [o \in Order |-> RowPhase(o)],
    left <- [o \in Order |-> Remaining(row[o])]

\* The tables keep the contract with the client, crashes and repeated commits
\* included.
TablesKeepContract == RowContract!Spec

\* Every accepted order is matched, cancelled or on the book for good, even if the
\* process dies in between (as long as no trade is committed unacknowledged).
EveryOrderReachesTheBook ==
    \A o \in Order :
        state[o] = "PENDING" ~> (state[o] = "DONE" \/ o \in Resting \/ Filled(row[o]))

\* Every accepted cancellation ends its order.
EveryCancelIsHonoured ==
    \A o \in Order : actions[<<o, "CANCEL">>] # 0 ~> state[o] = "DONE"
=============================================================================
