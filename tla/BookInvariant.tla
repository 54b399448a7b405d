--------------------------- MODULE BookInvariant ---------------------------
(***************************************************************************)
(* The inductive invariant of Book, in named parts.  TLC checks it on the  *)
(* small instances; EngineProofs proves it for all constants.              *)
(***************************************************************************)
EXTENDS Book

\* Orders keep the shape that Order.assert demands of them.
OrdersOK == \A o \in Order : WellFormed(order[o])

\* Creations are numbered without repetition, and so are Puts.
IndexOK ==
    /\ \A o \in Order : createIndex[o] <= created /\ place[o] <= puts
    /\ \A o, n \in Order : createIndex[o] = createIndex[n] /\ createIndex[o] # 0 => o = n

\* A resting order is a LIMIT order of its side that was created, was not
\* refunded, is not the taker, and has something left unless the taker has
\* just used it up.
PageOK ==
    \A s \in Side : \A o \in page[s] :
        /\ order[o].side = s /\ order[o].type = "LIMIT"
        /\ createIndex[o] # 0 /\ refunds[o] = 0
        /\ o # taker
        /\ Filled(order[o]) => o \in opponents

\* Lists are in the order of creation.
PlaceOK ==
    \A s \in Side : \A m, n \in page[s] :
        createIndex[m] < createIndex[n] => place[m] < place[n]

\* The taker is the newest order.  Its opponents are resting, and all of them
\* are used up as long as the taker is not.
TakerOK ==
    /\ taker = NoOrder => opponents = {}
    /\ taker # NoOrder =>
         /\ createIndex[taker] = created /\ created # 0
         /\ refunds[taker] = 0
         /\ opponents \subseteq page[Opposite(order[taker].side)]
         /\ \A m \in opponents : Filled(order[m]) \/ Filled(order[taker])

\* A refund is final.
RefundOK ==
    \A o \in Order : refunds[o] # 0 =>
        /\ refunds[o] = 1
        /\ ~ Filled(order[o])
        /\ o # taker
        /\ o \notin page[order[o].side]

\* A created order other than the taker rests, is filled or is refunded.
WhereOK ==
    \A o \in Order : createIndex[o] # 0 /\ o # taker =>
        o \in page[order[o].side] \/ Filled(order[o]) \/ refunds[o] # 0

\* Trades are between orders of the two sides at a LIMIT maker's price, and among
\* created orders the trades of the current taker are those with its opponents.
TradesOK ==
    \A t \in trades :
        /\ order[t.maker].side = Opposite(order[t.taker].side)
        /\ order[t.maker].type = "LIMIT"
        /\ createIndex[t.taker] # 0 /\ createIndex[t.maker] # 0 =>
             t.maker # taker /\ (t.taker = taker => t.maker \in opponents)

\* A CANCEL waits behind the CREATE of its order, and a cancelled order was
\* created before.
EventsOK ==
    \A i \in DOMAIN events : \A o \in Order : events[i] = <<o, "CANCEL">> =>
        createIndex[o] # 0 \/ \E j \in 1..(i - 1) : events[j] = <<o, "CREATE">>

CancelOK ==
    \A o \in cancelIndex :
        createIndex[o] # 0 /\ o # taker /\ o \notin page[order[o].side]

\* What is true of the memory of a process, whatever processes before it have done:
\* the part of the invariant that Exchange keeps across restarts.
BookInv ==
    /\ TypeOK /\ OrdersOK /\ IndexOK /\ PageOK /\ PlaceOK /\ TakerOK
    /\ RefundOK /\ WhereOK /\ TradesOK /\ EventsOK /\ CancelOK
    /\ NotCrossed /\ LimitHonoured /\ DustOnlyAtTheEnd

\* The history is that of this process alone.
HistoryIsOwn ==
    /\ \A o \in Order : refunds[o] # 0 => createIndex[o] # 0
    /\ \A t \in trades : createIndex[t.taker] # 0 /\ createIndex[t.maker] # 0

IInv == BookInv /\ HistoryIsOwn
=============================================================================
