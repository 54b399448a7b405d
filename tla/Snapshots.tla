------------------------------ MODULE Snapshots ------------------------------
(***************************************************************************)
(* How snapshots reach the tables: PollMixinNetwork of exchange.go with    *)
(* ensureProcessSnapshot, and what processSnapshot writes.                 *)
(*                                                                         *)
(* The network lists its snapshots in order of created_at, from an offset  *)
(* which it includes.  The poller keeps the snapshots it has processed in  *)
(* memory and the offset in table properties.  The write of the offset may *)
(* fail, which is only logged; a call may take effect and return an error, *)
(* and is then tried again; the process may crash at any point.            *)
(***************************************************************************)
EXTENDS Ingest, Sequences, FiniteSets

CONSTANTS
    Content,         \* what snapshots may say; their trace, if any, is their number
    Limit,           \* snapshots in one answer, 500 in the code
    MaxSnapshots,    \* bound on the snapshots at the network
    MaxTies,         \* bound on the snapshots of one created_at
    MaxRestarts,     \* bound on crashes
    MaxFailures,     \* bound on failed writes of the checkpoint
    MaxLostReplies   \* bound on calls that take effect and return an error

SnapshotsAssumption ==
    /\ Limit \in Nat \ {0} /\ MaxTies \in 1..(Limit - 1)
    /\ {MaxSnapshots, MaxRestarts, MaxFailures, MaxLostReplies} \subseteq Nat

VARIABLES
    log,         \* the network: its snapshots, numbered
    property,    \* checkpoint in table properties, 0 if there is none
    checkpoint,  \* the poller's copy
    page,        \* numbers of the listed snapshots that are not processed
    polling,     \* between a listing and the write of the checkpoint
    seen,        \* ex.snapshots
    orderState,  \* orderState[i]: state of the order with trace i
    cancelled,   \* orders with a CANCEL action
    publicKey,   \* publicKey[u]: table users
    refundRow,   \* snapshots whose refund is in table transfers
    handled,     \* history: snapshots whose processing took effect
    first,       \* history: the first checkpoint written, 0 if none was
    restarts, failures, lost

tables == <<orderState, cancelled, publicKey, refundRow>>
poller == <<checkpoint, page, polling, seen>>
history == <<handled, first>>
faults == <<restarts, failures, lost>>
vars == <<log, property, poller, tables, history, faults>>

Number == 1..MaxSnapshots
Now == IF log = <<>> THEN 1 ELSE log[Len(log)].createdAt

Init ==
    /\ log = <<>>
    /\ property = 0 /\ checkpoint = 0
    /\ page = <<>> /\ polling = FALSE /\ seen = {}
    /\ orderState = [i \in Number |-> "ABSENT"]
    /\ cancelled = {}
    /\ publicKey = [u \in User |-> NoKey]
    /\ refundRow = {}
    /\ handled = {} /\ first = 0
    /\ restarts = 0 /\ failures = 0 /\ lost = 0

\* Somebody makes a transfer.
Arrive(c) ==
    /\ Len(log) < MaxSnapshots
    /\ c.cancels <= Len(log)
    /\ \E t \in {Now, Now + 1} :
         /\ Cardinality({i \in DOMAIN log : log[i].createdAt = t}) < MaxTies
         /\ log' = Append(log, [s |-> [c EXCEPT !.trace = IF @ = NoSnapshot THEN @ ELSE Len(log) + 1],
                                createdAt |-> t])
    /\ UNCHANGED <<property, poller, tables, history, faults>>

-----------------------------------------------------------------------------
(* What processSnapshot writes, one transaction each.                      *)

\* CreateOrderAction looks for the order first.
\* Mutant: for an order that is still PENDING.
ExistsPending(i) == orderState[i] = "PENDING"
Exists(i) == orderState[i] # "ABSENT"

WriteOrder(i) ==
    /\ orderState' = IF Exists(i) THEN orderState ELSE [orderState EXCEPT ![i] = "PENDING"]
    /\ UNCHANGED <<cancelled, publicKey, refundRow>>

\* CancelOrderAction.
MayCancel(i, o) ==
    /\ orderState[o] = "PENDING" /\ log[o].s.type = "LIMIT"
    /\ log[o].s.opponent = log[i].s.opponent

WriteCancel(i, o) ==
    /\ cancelled' = IF MayCancel(i, o) THEN cancelled \cup {o} ELSE cancelled
    /\ UNCHANGED <<orderState, publicKey, refundRow>>

\* UpdateUserPublicKey: a key somebody holds is left alone.
\* Mutant: so is the key of a user who has one.
KeyTakenOrUser(u, k) == publicKey[u] # NoKey \/ \E v \in User : publicKey[v] = k
KeyTaken(u, k) == \E v \in User : publicKey[v] = k

WriteKey(u, k) ==
    /\ publicKey' = IF KeyTaken(u, k) THEN publicKey ELSE [publicKey EXCEPT ![u] = k]
    /\ UNCHANGED <<orderState, cancelled, refundRow>>

\* CreateRefundTransfer fails while the transfer of an earlier attempt is there.
WriteRefund(i) ==
    /\ i \notin refundRow
    /\ refundRow' = IF Exhausted(RefundAmount(log[i].s)) THEN refundRow ELSE refundRow \cup {i}
    /\ UNCHANGED <<orderState, cancelled, publicKey>>

Write(i) ==
    LET s == log[i].s
        out == Outcome(s)
    IN  \/ out = "IGNORED" /\ UNCHANGED tables
        \/ out = "KEY" /\ WriteKey(s.opponent, s.key)
        \/ out = "CANCEL" /\ WriteCancel(i, s.cancels)
        \/ out = "ORDER" /\ WriteOrder(i)
        \/ out = "REFUND" /\ WriteRefund(i)

-----------------------------------------------------------------------------
(* PollMixinNetwork.                                                       *)

\* The snapshots before an offset are the first of the log.
Before(offset) ==
    CHOOSE k \in 0..Len(log) : \A i \in DOMAIN log : log[i].createdAt < offset <=> i <= k

\* The answer of the network: the next ones, up to Limit.  Mutants: without the offset
\* itself; newest first.
Size(k) == IF Len(log) - k < Limit THEN Len(log) - k ELSE Limit
ListedAfter(offset) == LET k == Before(offset + 1) IN [x \in 1..Size(k) |-> k + x]
ListedDesc(offset) == [x \in 1..Size(Before(offset)) |-> Len(log) + 1 - x]
Listed(offset) == LET k == Before(offset) IN [x \in 1..Size(k) |-> k + x]

\* Without a checkpoint the poller starts at its own clock, somewhere around the
\* newest snapshot.
RequestMixinNetwork ==
    /\ ~ polling
    /\ \E t \in IF property = 0 THEN {Now, Now + 1} ELSE {property} :
         checkpoint' = t /\ page' = Listed(t)
    /\ polling' = TRUE
    /\ UNCHANGED <<log, property, seen, tables, history, faults>>

\* ensureProcessSnapshot for the next snapshot it has not seen.
SkipSeen ==
    /\ page # <<>> /\ Head(page) \in seen
    /\ page' = Tail(page)
    /\ UNCHANGED <<log, property, checkpoint, polling, seen, tables, history, faults>>

\* Mutant: the checkpoint does not move.
AdvanceNever(i) == checkpoint
Advance(i) == log[i].createdAt

ProcessSnapshot ==
    /\ page # <<>> /\ Head(page) \notin seen
    /\ Write(Head(page))
    /\ handled' = handled \cup {Head(page)}
    /\ \/ /\ checkpoint' = Advance(Head(page))
          /\ seen' = seen \cup {Head(page)}
          /\ page' = Tail(page)
          /\ UNCHANGED lost
       \/ /\ lost < MaxLostReplies /\ lost' = lost + 1
          /\ UNCHANGED <<checkpoint, seen, page>>
    /\ UNCHANGED <<log, property, polling, first, restarts, failures>>

WriteTimeProperty ==
    /\ polling /\ page = <<>>
    /\ polling' = FALSE
    /\ \/ /\ property' = checkpoint
          /\ first' = IF first = 0 THEN checkpoint ELSE first
          /\ UNCHANGED failures
       \/ /\ failures < MaxFailures /\ failures' = failures + 1
          /\ UNCHANGED <<property, first>>
    /\ UNCHANGED <<log, checkpoint, page, seen, tables, handled, restarts, lost>>

PollMixinNetwork == RequestMixinNetwork \/ SkipSeen \/ ProcessSnapshot \/ WriteTimeProperty

-----------------------------------------------------------------------------
\* The engine ends an order; its actions go with it.
FinishOrder(i) ==
    /\ orderState[i] = "PENDING"
    /\ orderState' = [orderState EXCEPT ![i] = "DONE"]
    /\ cancelled' = cancelled \ {i}
    /\ UNCHANGED <<log, property, poller, publicKey, refundRow, history, faults>>

\* PollTransfers sends the refund and deletes its row.
ExpireRefund(i) ==
    /\ i \in refundRow
    /\ refundRow' = refundRow \ {i}
    /\ UNCHANGED <<log, property, poller, orderState, cancelled, publicKey, history, faults>>

Restart ==
    /\ restarts < MaxRestarts
    /\ restarts' = restarts + 1
    /\ checkpoint' = 0 /\ page' = <<>> /\ polling' = FALSE /\ seen' = {}
    /\ UNCHANGED <<log, property, tables, history, failures, lost>>

Next ==
    \/ \E c \in Content : Arrive(c)
    \/ PollMixinNetwork
    \/ \E i \in Number : FinishOrder(i) \/ ExpireRefund(i)
    \/ Restart

Spec == Init /\ [][Next]_vars

\* The loop goes on, and so does the goroutine that sends the refunds.
FairSpec ==
    /\ Spec
    /\ WF_vars(PollMixinNetwork)
    /\ \A i \in Number : WF_vars(ExpireRefund(i))

-----------------------------------------------------------------------------
\* The tables agree with one another and with what was processed.
TypeOK ==
    /\ Len(log) <= MaxSnapshots
    /\ \A i, j \in DOMAIN log : i < j => log[i].createdAt <= log[j].createdAt
    /\ {property, checkpoint, first} \subseteq 0..(MaxSnapshots + 2)
    /\ polling \in BOOLEAN /\ (page # <<>> => polling)
    /\ \A x \in DOMAIN page : page[x] \in DOMAIN log
    /\ seen \subseteq handled /\ refundRow \subseteq handled /\ handled \subseteq DOMAIN log
    /\ orderState \in [Number -> {"ABSENT", "PENDING", "DONE"}]
    /\ \A o \in cancelled : orderState[o] = "PENDING"
    /\ publicKey \in [User -> Key \cup {NoKey}]

OrdersReceived == {i \in DOMAIN log : Outcome(log[i].s) = "ORDER"}
PairOf(i) == GetQuoteBasePair(log[i].s)

Market(q) == INSTANCE Orders WITH
    Price <- 1..MaxPrice, QuoteMinimum <- QuoteMin[q],
    AskAmount <- 0..MaxAmount, BidFunds <- 0..MaxFunds

\* What processSnapshot lets through is what the engine assumes of an order: its
\* assertions, the minimum, and integers whose products stay below MaxFunds, for any
\* amount, price, side, type and pair a snapshot may carry, truncation included.
AcceptedOrdersAreBookOrders ==
    \A i \in OrdersReceived : NewOrder(log[i].s) \in Market(PairOf(i).quote)!Placement

\* Two assets have at most one market: whatever else may be sent, no snapshot opens
\* the reverse of a market that was used (getQuoteBasePair).
OnePairOneMarket ==
    \A i \in OrdersReceived : \A side \in {"ASK", "BID"} :
        LET p == PairOf(i)
            back == [log[i].s EXCEPT
                       !.side = side,
                       !.asset = IF side = "ASK" THEN p.quote ELSE p.base,
                       !.other = IF side = "ASK" THEN p.base ELSE p.quote]
        IN  GetQuoteBasePair(back) = NoPair

\* A snapshot that is processed again after a crash or a lost reply never reopens an
\* order that was matched or cancelled meanwhile (CreateOrderAction).
OrdersStayDone ==
    [][\A i \in Number : orderState[i] = "DONE" => orderState'[i] = "DONE"]_vars

\* A cancellation that was processed has reached its order: snapshots are processed
\* in such an order that the order is there first, crash or not.
CancelsReachOrders ==
    \A i \in handled :
        LET s == log[i].s
        IN  /\ Outcome(s) = "CANCEL"
            /\ Outcome(log[s.cancels].s) = "ORDER" /\ log[s.cancels].s.type = "LIMIT"
            /\ log[s.cancels].s.opponent = s.opponent
            /\ first # 0 /\ log[s.cancels].createdAt >= first
            => s.cancels \in cancelled \/ orderState[s.cancels] = "DONE"

\* From the first checkpoint that was written on, the checkpoint never passes a
\* snapshot that was not processed: none is skipped by a restart, by a failed write
\* or because it has the created_at of another one (PollMixinNetwork).
NothingSkipped ==
    first # 0 =>
        \A i \in DOMAIN log : log[i].createdAt \in first..(property - 1) => i \in handled

\* The poller lists a full answer of which it has seen everything: it will not move
\* on before it is restarted.
Stalled ==
    LET p == Listed(property)
    IN  property # 0 /\ ~ polling /\ Len(p) = Limit /\ \A x \in DOMAIN p : p[x] \in seen

\* That happens only after a write of the checkpoint failed (exchange.go:263 logs the
\* error, and :252 does not move the checkpoint over what was seen).
StallNeedsFailedWrite == Stalled => failures > 0

\* A new key of a user replaces the old one for good, whatever is processed again;
\* only a key that another user sent as well may stay with that user.
LastKeyWins ==
    seen = DOMAIN log /\ ~ polling =>
        \A i \in DOMAIN log :
            LET mine(j) == Outcome(log[j].s) = "KEY" /\ log[j].s.opponent = log[i].s.opponent
            IN  /\ mine(i) /\ \A j \in DOMAIN log : mine(j) => j <= i
                /\ \A j \in DOMAIN log : log[j].s.key = log[i].s.key => mine(j)
                => publicKey[log[i].s.opponent] = log[i].s.key

\* Every snapshot since the first checkpoint is processed in the end, through crashes
\* and lost replies, and though a refund that is tried again waits for the goroutine
\* that sends it; unless the poller stalls.
EverySnapshotIsHandled ==
    \A i \in Number :
        (i \in DOMAIN log /\ first # 0 /\ log[i].createdAt >= first)
            ~> (i \in handled \/ Stalled)
=============================================================================
