------------------------- MODULE SettlementInvariant -------------------------
(***************************************************************************)
(* The inductive invariant of Settlement, in named parts.  TLC checks it   *)
(* on small instances; SettlementProofs proves it for every value of the   *)
(* constants.                                                              *)
(***************************************************************************)
EXTENDS Settlement

OrdersOK ==
    /\ IsFiniteSet(Placed)
    /\ \A o \in Order :
         /\ WellFormed(order[o])
         /\ state[o] \in {"ABSENT", "PAID"} => age[o] = 0

\* A trade is made of two orders the engine had, the maker the older one, and by
\* every pair of orders at most once.
Receiver(x) == IF x.liquidity = "TAKER" THEN x.taker ELSE x.maker
Other(x) == IF x.liquidity = "TAKER" THEN x.maker ELSE x.taker

TradesOK ==
    /\ IsFiniteSet(trades)
    /\ \A x \in trades :
         /\ state[x.taker] \notin {"ABSENT", "PAID", "REFUSED", "KEPT"}
         /\ state[x.maker] \notin {"ABSENT", "PAID", "REFUSED", "KEPT"}
         /\ age[x.maker] < age[x.taker]
         /\ order[x.maker].type = "LIMIT"
         /\ order[x.taker].side = Opposite(order[x.maker].side)
         /\ x.feeAsset = AssetOf(Opposite(order[Receiver(x)].side))
         /\ x.fee = StoredFee(x.liquidity, x.total)
    /\ \A x, y \in trades :
         x.taker = y.taker /\ x.maker = y.maker /\ x.liquidity = y.liquidity => x = y

\* Whatever was written, is listed or was paid follows from what it was written for,
\* so that an id stands for one transfer for ever.
Explained(t) ==
    \/ \E o \in Order : state[o] = "CANCELLED" /\ t = CancelRow(o)
    \/ \E o \in Order : state[o] = "REFUSED" /\ t = RefundRow(o)
    \/ \E x \in trades : t = TransferOf(Receiver(x), Other(x), x)

Settled(t) == Known(t) \/ t.amount = 0

RowsOK ==
    /\ \A t \in Rows \cup payments : Explained(t)
    /\ \A o \in Order :
         state[o] = "CANCELLED" => CancelRow(o) \in Rows \/ Settled(CancelRow(o))

\* What is listed is a row or settled; what was taken from the queue is settled.
QueuesOK ==
    \A b \in Broker : \A t \in batch[b] :
        /\ t.broker = b /\ Explained(t)
        /\ t \in Rows \/ Settled(t)
        /\ t \in ToSet(unsent[b]) \/ Settled(t)

SettlementIInv ==
    /\ TypeOK /\ OrdersOK /\ TradesOK /\ RowsOK /\ QueuesOK
    /\ BrokersSolvent /\ OnlyFeesAreKept
=============================================================================
