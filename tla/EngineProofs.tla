---------------------------- MODULE EngineProofs ----------------------------
(***************************************************************************)
(* Theorems about Book and Exchange for every value of their constants:    *)
(* what holds of the engine at work, and what the tables say stays true    *)
(* however often the process dies.                                         *)
(***************************************************************************)
EXTENDS ExchangeInvariant, OrderProofs

USE DEF Side, Action, Opposite

-----------------------------------------------------------------------------
(* The events channel.                                                     *)

LEMMA AppendFacts ==
    ASSUME NEW S, NEW q \in Seq(S), NEW e \in S
    PROVE  /\ Append(q, e) \in Seq(S)
           /\ Len(Append(q, e)) = Len(q) + 1
           /\ DOMAIN Append(q, e) = 1..(Len(q) + 1)
           /\ \A i \in 1..Len(q) : Append(q, e)[i] = q[i]
           /\ Append(q, e)[Len(q) + 1] = e
  OBVIOUS

LEMMA TailFacts ==
    ASSUME NEW S, NEW q \in Seq(S), q # <<>>
    PROVE  /\ Tail(q) \in Seq(S)
           /\ Len(q) \in Nat \ {0}
           /\ Len(Tail(q)) = Len(q) - 1
           /\ DOMAIN Tail(q) = 1..(Len(q) - 1)
           /\ \A i \in 1..(Len(q) - 1) : Tail(q)[i] = q[i + 1]
           /\ Head(q) = q[1]
  OBVIOUS

-----------------------------------------------------------------------------
(* The inductive invariant, action by action.                              *)

LEMMA InitInvariant == Init => IInv
  <1> SUFFICES ASSUME Init PROVE IInv
    OBVIOUS
  <1> USE DEF Init
  <1>1. \A o \in Order : /\ order[o] \in OrderRecord /\ WellFormed(order[o])
                         /\ order[o].filledAmount = 0 /\ order[o].filledFunds = 0
    BY PlacementFacts
  <1>2. order \in [Order -> OrderRecord]
    BY <1>1
  <1>3. events \in Seq(Order \X Action) /\ Len(events) <= EventQueueSize
    BY QueueAssumption
  <1>4. TypeOK
    BY <1>2, <1>3 DEF TypeOK
  <1>5. OrdersOK /\ IndexOK /\ PageOK /\ PlaceOK /\ TakerOK /\ RefundOK /\ WhereOK
        /\ TradesOK /\ CancelOK /\ NotCrossed /\ DustOnlyAtTheEnd
    BY <1>1 DEF OrdersOK, IndexOK, PageOK, PlaceOK, TakerOK, RefundOK, WhereOK,
                TradesOK, CancelOK, NotCrossed, DustOnlyAtTheEnd
  <1>6. EventsOK
    BY DEF EventsOK
  <1>7. LimitHonoured
    <2> SUFFICES ASSUME NEW o \in Order, order[o].type = "LIMIT"
                 PROVE  /\ order[o].side = "ASK" =>
                             order[o].filledFunds >= order[o].filledAmount * order[o].price
                        /\ order[o].side = "BID" =>
                             IF Filled(order[o])
                             THEN order[o].filledFunds < (order[o].filledAmount + 1) * order[o].price
                             ELSE order[o].filledFunds <= order[o].filledAmount * order[o].price
      BY DEF LimitHonoured
    <2>1. order[o].price \in Nat \ {0}
      BY <1>1, PriceAssumption DEF WellFormed
    <2> QED
      BY <1>1, <2>1, SMT
  <1>8. HistoryIsOwn
    BY DEF HistoryIsOwn
  <1> QED
    BY <1>4, <1>5, <1>6, <1>7, <1>8 DEF BookInv, IInv

\* Everything that does not mention the events channel.
StateInv ==
    /\ OrdersOK /\ IndexOK /\ PageOK /\ PlaceOK /\ TakerOK
    /\ RefundOK /\ WhereOK /\ TradesOK /\ CancelOK
    /\ NotCrossed /\ LimitHonoured /\ DustOnlyAtTheEnd

LEMMA StateInvUnchanged ==
    ASSUME StateInv,
           UNCHANGED <<order, page, place, puts, level, createIndex, created,
                       cancelIndex, taker, opponents, trades, refunds>>
    PROVE  StateInv'
  BY DEF StateInv, OrdersOK, IndexOK, PageOK, PlaceOK, TakerOK, RefundOK, WhereOK,
         TradesOK, CancelOK, NotCrossed, LimitHonoured, DustOnlyAtTheEnd

LEMMA AttachStep ==
    ASSUME BookInv, NEW o \in Order, NEW action \in Action,
           Listed(o, action), AttachOrderEvent(o, action)
    PROVE  BookInv'
  <1>1. StateInv'
    BY StateInvUnchanged DEF BookInv, StateInv, AttachOrderEvent
  <1>2. events \in Seq(Order \X Action) /\ Len(events) \in Nat /\ DOMAIN events = 1..Len(events)
    BY DEF BookInv, TypeOK
  <1>3. /\ events' \in Seq(Order \X Action) /\ Len(events') = Len(events) + 1
        /\ DOMAIN events' = 1..(Len(events) + 1)
        /\ \A i \in 1..Len(events) : events'[i] = events[i]
        /\ events'[Len(events) + 1] = <<o, action>>
    BY <1>2, AppendFacts DEF AttachOrderEvent
  <1>4. Len(events') <= EventQueueSize
    BY <1>2, <1>3, QueueAssumption DEF AttachOrderEvent
  <1>5. createIndex' = createIndex /\ order' = order
    BY DEF AttachOrderEvent
  <1>6. TypeOK'
    BY <1>3, <1>4 DEF BookInv, TypeOK, AttachOrderEvent
  <1>7. action = "CANCEL" =>
          createIndex[o] # 0 \/ \E j \in 1..Len(events) : events[j] = <<o, "CREATE">>
    BY <1>2 DEF Listed, Attached
  <1>8. EventsOK'
    <2> SUFFICES ASSUME NEW i \in 1..(Len(events) + 1), NEW n \in Order,
                        events'[i] = <<n, "CANCEL">>, createIndex[n] = 0
                 PROVE  \E j \in 1..(i - 1) : events'[j] = <<n, "CREATE">>
      BY <1>3, <1>5 DEF EventsOK
    <2>1. CASE i \in 1..Len(events)
      <3>1. PICK j \in 1..(i - 1) : events[j] = <<n, "CREATE">>
        BY <1>2, <1>3, <2>1 DEF BookInv, EventsOK
      <3>2. j \in 1..Len(events)
        BY <1>2, <2>1
      <3> QED
        BY <1>3, <3>1, <3>2
    <2>2. CASE i = Len(events) + 1
      <3>1. n = o /\ action = "CANCEL"
        BY <1>3, <2>2
      <3>2. PICK j \in 1..Len(events) : events[j] = <<n, "CREATE">>
        BY <1>7, <3>1
      <3>3. j \in 1..(i - 1)
        BY <1>2, <2>2
      <3> QED
        BY <1>3, <3>2, <3>3
    <2> QED
      BY <1>2, <2>1, <2>2
  <1> QED
    BY <1>1, <1>6, <1>8 DEF BookInv, StateInv

\* Receiving the head of the channel: what is left of it, and what EventsOK says
\* of it once the createIndex is at least what it was.
LEMMA ReceiveFacts ==
    ASSUME TypeOK, EventsOK, NEW o \in Order, NEW action \in Action, Receive(o, action)
    PROVE  /\ taker = NoOrder
           /\ events' \in Seq(Order \X Action)
           /\ Len(events') <= EventQueueSize
           /\ action = "CANCEL" => createIndex[o] # 0
           /\ \A i \in DOMAIN events' : \A n \in Order : events'[i] = <<n, "CANCEL">> =>
                \/ createIndex[n] # 0
                \/ action = "CREATE" /\ n = o
                \/ \E j \in 1..(i - 1) : events'[j] = <<n, "CREATE">>
  <1>1. /\ taker = NoOrder /\ events # <<>> /\ Head(events) = <<o, action>>
        /\ events' = Tail(events) /\ events \in Seq(Order \X Action)
        /\ Len(events) <= EventQueueSize
        /\ DOMAIN events = 1..Len(events)
    BY DEF Receive, TypeOK
  <1>2. /\ events' \in Seq(Order \X Action)
        /\ Len(events) \in Nat \ {0}
        /\ Len(events') = Len(events) - 1
        /\ DOMAIN events' = 1..(Len(events) - 1)
        /\ \A i \in 1..(Len(events) - 1) : events'[i] = events[i + 1]
        /\ events[1] = <<o, action>>
    BY <1>1, TailFacts
  <1>3. Len(events') <= EventQueueSize
    BY <1>1, <1>2, QueueAssumption
  <1>4. action = "CANCEL" => createIndex[o] # 0
    <2> SUFFICES ASSUME action = "CANCEL", createIndex[o] = 0 PROVE FALSE
      OBVIOUS
    <2>1. PICK j \in 1..(1 - 1) : events[j] = <<o, "CREATE">>
      BY <1>1, <1>2 DEF EventsOK
    <2> QED
      BY <2>1
  <1>5. ASSUME NEW i \in 1..(Len(events) - 1), NEW n \in Order, events'[i] = <<n, "CANCEL">>,
               createIndex[n] = 0, ~ (action = "CREATE" /\ n = o)
        PROVE  \E j \in 1..(i - 1) : events'[j] = <<n, "CREATE">>
    <2>1. events[i + 1] = <<n, "CANCEL">> /\ i + 1 \in DOMAIN events
      BY <1>1, <1>2, <1>5
    <2>2. PICK j \in 1..i : events[j] = <<n, "CREATE">>
      <3>1. \E j \in 1..((i + 1) - 1) : events[j] = <<n, "CREATE">>
        BY <1>5, <2>1 DEF EventsOK
      <3>2. (i + 1) - 1 = i
        BY <1>2
      <3> QED
        BY <3>1, <3>2
    <2>3. j # 1
      BY <1>2, <1>5, <2>2
    <2>4. j - 1 \in 1..(i - 1) /\ j - 1 \in 1..(Len(events) - 1) /\ (j - 1) + 1 = j
      BY <1>2, <2>2, <2>3
    <2>5. events'[j - 1] = <<n, "CREATE">>
      BY <1>2, <2>2, <2>4
    <2> QED
      BY <2>4, <2>5
  <1> QED
    BY <1>1, <1>2, <1>3, <1>4, <1>5

LEMMA SkipCreateStep ==
    ASSUME BookInv, NEW o \in Order, SkipCreate(o)
    PROVE  BookInv'
  <1>1. Receive(o, "CREATE") /\ createIndex[o] # 0 /\ createIndex' = createIndex
    BY DEF SkipCreate, Known
  <1>2. StateInv'
    BY StateInvUnchanged DEF BookInv, StateInv, SkipCreate
  <1>3. TypeOK'
    BY <1>1, ReceiveFacts DEF BookInv, TypeOK, SkipCreate
  <1>4. EventsOK'
    BY <1>1, ReceiveFacts DEF BookInv, EventsOK
  <1> QED
    BY <1>2, <1>3, <1>4 DEF BookInv, StateInv

LEMMA SkipCancelStep ==
    ASSUME BookInv, NEW o \in Order, SkipCancel(o)
    PROVE  BookInv'
  <1>1. Receive(o, "CANCEL") /\ cancelIndex' = cancelIndex \cup {o}
        /\ UNCHANGED <<order, page, place, puts, level, createIndex, created, taker,
                       opponents, trades, refunds>>
    BY DEF SkipCancel
  <1>2. createIndex[o] # 0 /\ taker = NoOrder
    BY <1>1, ReceiveFacts DEF BookInv
  <1>3. o \notin page[order[o].side]
    BY <1>2 DEF SkipCancel, OnPage, BookInv, CancelOK
  <1>4. CancelOK'
    BY <1>1, <1>2, <1>3, NoOrderAssumption DEF BookInv, CancelOK
  <1>5. OrdersOK' /\ IndexOK' /\ PageOK' /\ PlaceOK' /\ TakerOK' /\ RefundOK' /\ WhereOK'
        /\ TradesOK' /\ NotCrossed' /\ LimitHonoured' /\ DustOnlyAtTheEnd'
    BY <1>1 DEF BookInv, OrdersOK, IndexOK, PageOK, PlaceOK, TakerOK, RefundOK, WhereOK,
                TradesOK, NotCrossed, LimitHonoured, DustOnlyAtTheEnd
  <1>6. TypeOK'
    BY <1>1, ReceiveFacts DEF BookInv, TypeOK
  <1>7. EventsOK'
    BY <1>1, ReceiveFacts DEF BookInv, EventsOK
  <1> QED
    BY <1>4, <1>5, <1>6, <1>7 DEF BookInv

\* The struct of the event says what the book knows of the order.
LEMMA SameStruct ==
    ASSUME BookInv, NEW o \in Order, NEW r, BeginCreate(o, r), r = order[o]
    PROVE  order' = order
  <1>1. order' = [order EXCEPT ![o] = order[o]] /\ order \in [Order -> OrderRecord]
    BY DEF BeginCreate, BookInv, TypeOK
  <1> QED
    BY <1>1

\* No earlier process has refunded the new order, or matched it with one that was
\* created in this.
LEMMA BeginCreateStep ==
    ASSUME BookInv, NEW o \in Order, NEW r, BeginCreate(o, r), r = order[o],
           refunds[o] = 0,
           \A t \in trades : o \in {t.taker, t.maker} =>
               createIndex[t.taker] = 0 /\ createIndex[t.maker] = 0
    PROVE  BookInv'
  <1>1. /\ Receive(o, "CREATE")
        /\ createIndex[o] = 0
        /\ created' = created + 1
        /\ createIndex' = [createIndex EXCEPT ![o] = created + 1]
        /\ taker' = o
        /\ opponents' = {}
        /\ UNCHANGED <<order, page, place, puts, level, cancelIndex, trades, refunds>>
    BY SameStruct DEF BeginCreate, Known
  <1>2. taker = NoOrder /\ taker # o
    BY <1>1, ReceiveFacts, NoOrderAssumption DEF BookInv
  <1>3. /\ createIndex' \in [Order -> Nat] /\ createIndex'[o] = created + 1
        /\ \A n \in Order \ {o} : createIndex'[n] = createIndex[n]
        /\ created \in Nat /\ createIndex \in [Order -> Nat]
    BY <1>1 DEF BookInv, TypeOK
  <1>4. TypeOK'
    BY <1>1, <1>3, ReceiveFacts DEF BookInv, TypeOK
  <1>5. EventsOK'
    <2> SUFFICES ASSUME NEW i \in DOMAIN events', NEW n \in Order,
                        events'[i] = <<n, "CANCEL">>, createIndex'[n] = 0
                 PROVE  \E j \in 1..(i - 1) : events'[j] = <<n, "CREATE">>
      BY DEF EventsOK
    <2>1. n # o /\ createIndex[n] = 0
      BY <1>3
    <2> QED
      BY <1>1, <2>1, ReceiveFacts DEF BookInv
  <1>6. IndexOK'
    BY <1>1, <1>3 DEF BookInv, IndexOK
  <1>7. \A s \in Side : \A n \in page[s] : n \in Order /\ n # o
    BY <1>1 DEF BookInv, TypeOK, PageOK
  <1>8. opponents = {}
    BY <1>2 DEF BookInv, TakerOK
  <1>9. PageOK'
    BY <1>1, <1>3, <1>7, <1>8 DEF BookInv, PageOK
  <1>10. PlaceOK'
    BY <1>1, <1>3, <1>7 DEF BookInv, PlaceOK
  <1>11. TakerOK'
    BY <1>1, <1>3, NoOrderAssumption DEF BookInv, TakerOK, RefundOK
  <1>12. RefundOK'
    BY <1>1, <1>3 DEF BookInv, RefundOK
  <1>13. WhereOK'
    BY <1>1, <1>2, <1>3, NoOrderAssumption DEF BookInv, WhereOK
  <1>14. TradesOK'
    <2> SUFFICES ASSUME NEW t \in trades, createIndex'[t.taker] # 0, createIndex'[t.maker] # 0
                 PROVE  t.maker # o /\ t.taker # o
      BY <1>1 DEF BookInv, TradesOK
    <2>1. t.taker \in Order /\ t.maker \in Order /\ t.taker # t.maker
      BY DEF BookInv, TypeOK, TradesOK, OrderRecord
    <2> QED
      BY <1>3, <2>1
  <1>15. CancelOK'
    BY <1>1, <1>3 DEF BookInv, TypeOK, CancelOK
  <1>16. OrdersOK' /\ NotCrossed' /\ LimitHonoured' /\ DustOnlyAtTheEnd'
    BY <1>1 DEF BookInv, OrdersOK, NotCrossed, LimitHonoured, DustOnlyAtTheEnd
  <1> QED
    BY <1>4, <1>5, <1>6, <1>9, <1>10, <1>11, <1>12, <1>13, <1>14, <1>15, <1>16 DEF BookInv

LEMMA CancelOrderStep ==
    ASSUME BookInv, NEW o \in Order, CancelOrder(o)
    PROVE  BookInv'
  <1> DEFINE s == order[o].side
  <1>1. /\ Receive(o, "CANCEL")
        /\ o \in page[s]
        /\ cancelIndex' = cancelIndex \cup {o}
        /\ page' = [page EXCEPT ![s] = @ \ {o}]
        /\ level' = [level EXCEPT ![s][order[o].price] = @ - Remaining(order[o])]
        /\ refunds' = [refunds EXCEPT ![o] = @ + 1]
        /\ UNCHANGED <<order, place, puts, createIndex, created, taker, opponents, trades>>
    BY DEF CancelOrder, OnPage
  <1>2. /\ taker = NoOrder /\ opponents = {} /\ createIndex[o] # 0
        /\ order[o] \in OrderRecord /\ s \in Side
        /\ order[o].type = "LIMIT" /\ refunds[o] = 0 /\ ~ Filled(order[o])
    <2>1. taker = NoOrder /\ opponents = {}
      BY <1>1 DEF Receive, BookInv, TakerOK
    <2>2. order[o] \in OrderRecord /\ s \in Side
      BY DEF BookInv, TypeOK, OrderRecord
    <2>3. /\ createIndex[o] # 0 /\ order[o].type = "LIMIT" /\ refunds[o] = 0
          /\ Filled(order[o]) => o \in opponents
      BY <1>1, <2>2 DEF BookInv, PageOK
    <2> QED
      BY <2>1, <2>2, <2>3
  <1>3. /\ page' \in [Side -> SUBSET Order]
        /\ page'[s] = page[s] \ {o}
        /\ \A r \in Side : page'[r] \subseteq page[r]
        /\ \A r \in Side : o \notin page'[r]
        /\ \A n \in Order, r \in Side : n # o /\ n \in page[r] => n \in page'[r]
    <2>1. page \in [Side -> SUBSET Order]
      BY DEF BookInv, TypeOK
    <2>2. /\ page' \in [Side -> SUBSET Order]
          /\ \A r \in Side : page'[r] = IF r = s THEN page[r] \ {o} ELSE page[r]
      BY <1>1, <1>2, <2>1
    <2>3. \A r \in Side \ {s} : o \notin page[r]
      BY <1>1 DEF BookInv, PageOK
    <2> QED
      BY <1>2, <2>2, <2>3
  <1>4. /\ refunds' \in [Order -> Nat] /\ refunds'[o] = 1
        /\ \A n \in Order \ {o} : refunds'[n] = refunds[n]
    BY <1>1, <1>2 DEF BookInv, TypeOK
  <1>5. level' \in [Side -> [Price -> Int]]
    <2>1. order[o].price \in Price /\ Remaining(order[o]) \in Int
      BY <1>2 DEF BookInv, OrdersOK, WellFormed, OrderRecord, Remaining
    <2> QED
      BY <1>1, <1>2, <2>1 DEF BookInv, TypeOK
  <1>6. TypeOK'
    BY <1>1, <1>3, <1>4, <1>5, ReceiveFacts DEF BookInv, TypeOK
  <1>7. EventsOK'
    BY <1>1, ReceiveFacts DEF BookInv, EventsOK
  <1>8. OrdersOK' /\ IndexOK' /\ LimitHonoured' /\ DustOnlyAtTheEnd' /\ TradesOK'
    BY <1>1 DEF BookInv, OrdersOK, IndexOK, LimitHonoured, DustOnlyAtTheEnd, TradesOK
  <1>9. PageOK'
    BY <1>1, <1>2, <1>3, <1>4 DEF BookInv, TypeOK, PageOK
  <1>10. PlaceOK'
    BY <1>1, <1>3 DEF BookInv, PlaceOK
  <1>11. NotCrossed'
    BY <1>1, <1>3 DEF BookInv, NotCrossed
  <1>12. TakerOK'
    BY <1>1, <1>2 DEF BookInv, TakerOK
  <1>13. RefundOK'
    <2> SUFFICES ASSUME NEW n \in Order, refunds'[n] # 0
                 PROVE  /\ refunds'[n] = 1 /\ ~ Filled(order[n])
                        /\ n # taker /\ n \notin page'[order[n].side]
      BY <1>1 DEF RefundOK, Filled, Remaining
    <2>1. order[n].side \in Side
      BY DEF BookInv, TypeOK, OrderRecord
    <2>2. CASE n = o
      BY <1>2, <1>3, <1>4, <2>1, <2>2, NoOrderAssumption
    <2>3. CASE n # o
      <3>1. refunds[n] # 0
        BY <1>4, <2>3
      <3> QED
        BY <1>3, <1>4, <2>1, <2>3, <3>1 DEF BookInv, RefundOK
    <2> QED
      BY <2>2, <2>3
  <1>14. WhereOK'
    BY <1>1, <1>2, <1>3, <1>4 DEF BookInv, TypeOK, OrderRecord, WhereOK
  <1>15. CancelOK'
    BY <1>1, <1>2, <1>3, NoOrderAssumption DEF BookInv, TypeOK, OrderRecord, CancelOK
  <1> QED
    BY <1>6, <1>7, <1>8, <1>9, <1>10, <1>11, <1>12, <1>13, <1>14, <1>15 DEF BookInv

-----------------------------------------------------------------------------
(* Iterate always has a next opponent while there is one left to visit.    *)

LEMMA LeastNatural ==
    ASSUME NEW T, T \subseteq Nat, T # {}
    PROVE  \E x \in T : \A y \in T : x <= y
  <1>1. \E R : IsWellFoundedOn(R, Nat) /\ \A x, y \in Nat : y < x => <<y, x>> \in R
    <2>1. \A x, y \in Nat : y < x => <<y, x>> \in OpToRel(<, Nat)
      BY DEF OpToRel
    <2> WITNESS OpToRel(<, Nat)
    <2> QED
      BY <2>1, NatLessThanWellFounded
  <1>2. PICK R : IsWellFoundedOn(R, Nat) /\ \A x, y \in Nat : y < x => <<y, x>> \in R
    BY <1>1
  <1>3. PICK x \in T : \A y \in T : ~ (<<y, x>> \in R)
    BY <1>2, WFMin
  <1>4. ASSUME NEW y \in T PROVE x <= y
    <2>1. x \in Nat /\ y \in Nat
      OBVIOUS
    <2>2. ~ (y < x)
      BY <1>2, <1>3, <2>1
    <2> QED
      BY <2>1, <2>2
  <1> QED
    BY <1>4

\* On every page some order comes before all others.
LEMMA FirstExists ==
    ASSUME TypeOK, OrdersOK, IndexOK, PageOK, PlaceOK,
           NEW s \in Side, NEW U \in SUBSET page[s], U # {}
    PROVE  \E m \in U : \A n \in U \ {m} : Ahead(m, n)
  <1>1. \A n \in U : /\ n \in Order /\ order[n].side = s /\ order[n].price \in 1..MaxPrice
                     /\ createIndex[n] \in Nat \ {0}
    BY PriceAssumption DEF TypeOK, OrdersOK, PageOK, WellFormed, OrderRecord
  <1>2. MaxPrice \in Nat
    BY PriceAssumption
  <1> DEFINE Rank(n) == IF s = "ASK" THEN order[n].price ELSE MaxPrice - order[n].price
             Ranks == {Rank(n) : n \in U}
  <1>3. \A n \in U : Rank(n) \in Nat
    BY <1>1, <1>2
  <1>4. PICK k \in Ranks : \A l \in Ranks : k <= l
    <2>1. Ranks \subseteq Nat /\ Ranks # {}
      BY <1>3
    <2> QED
      BY <2>1, LeastNatural
  <1> DEFINE V == {n \in U : Rank(n) = k}
             Births == {createIndex[n] : n \in V}
  <1>5. PICK b \in Births : \A c \in Births : b <= c
    <2>1. Births \subseteq Nat /\ Births # {}
      BY <1>1, <1>4
    <2> QED
      BY <2>1, LeastNatural
  <1>6. PICK m \in V : createIndex[m] = b
    BY <1>5
  <1>7. ASSUME NEW n \in U \ {m} PROVE Ahead(m, n)
    <2>1. Rank(m) <= Rank(n)
      BY <1>4, <1>6
    <2>2. CASE Rank(m) < Rank(n)
      <3>1. Better(s, order[m].price, order[n].price)
        BY <1>1, <1>2, <1>6, <2>2 DEF Better
      <3> QED
        BY <1>1, <1>6, <3>1 DEF Ahead
    <2>3. CASE Rank(m) = Rank(n)
      <3>1. order[m].price = order[n].price
        BY <1>1, <1>2, <1>6, <2>3
      <3>2. n \in V
        BY <1>6, <2>3
      <3>3. createIndex[m] <= createIndex[n]
        BY <1>5, <1>6, <3>2
      <3>4. createIndex[m] # createIndex[n]
        BY <1>1, <1>6 DEF IndexOK
      <3>5. place[m] < place[n]
        BY <1>1, <1>6, <3>3, <3>4 DEF PlaceOK
      <3> QED
        BY <3>1, <3>5 DEF Ahead
    <2> QED
      BY <1>3, <1>6, <2>1, <2>2, <2>3
  <1> QED
    BY <1>6, <1>7

\* When a LIMIT taker with something left can match no more, every order of the
\* other page that is not used up is out of its reach.
LEMMA OutOfReach ==
    ASSUME BookInv, taker # NoOrder, order[taker].type = "LIMIT", ~ Filled(order[taker]),
           ~ \E m \in Order : CanMatch(m),
           NEW n \in page[Opposite(order[taker].side)] \ Spent
    PROVE  Better(order[taker].side, order[n].price, order[taker].price)
  <1> DEFINE s == order[taker].side
             U == page[Opposite(s)] \ opponents
  <1>1. taker \in Order /\ s \in Side /\ Opposite(s) \in Side /\ n \in Order
    BY DEF BookInv, TypeOK, OrderRecord
  <1>2. n \in U
    BY DEF BookInv, TakerOK, Spent
  <1>3. PICK m \in U : \A l \in U \ {m} : Ahead(m, l)
    <2> DEFINE os == Opposite(s)
    <2>1. os \in Side /\ U \in SUBSET page[os] /\ U # {}
      BY <1>1, <1>2
    <2> HIDE DEF os, U
    <2> QED
      BY <2>1, FirstExists DEF BookInv
  <1>4. m \in Order /\ IsNext(m)
    BY <1>1, <1>3 DEF IsNext, BookInv, TypeOK
  <1>5. Better(s, order[m].price, order[taker].price)
    BY <1>4 DEF CanMatch, Iterating, WithinLimit
  <1>6. n = m \/ Ahead(m, n)
    BY <1>2, <1>3
  <1>7. order[m].side = Opposite(s)
    BY <1>1, <1>3 DEF BookInv, PageOK
  <1>8. order[m].price \in Nat /\ order[n].price \in Nat /\ order[taker].price \in Nat
    BY <1>1, <1>4 DEF BookInv, TypeOK, OrderRecord
  <1> QED
    BY <1>1, <1>5, <1>6, <1>7, <1>8 DEF Ahead, Better

LEMMA SettleStep ==
    ASSUME BookInv, Settle
    PROVE  BookInv'
  <1> DEFINE r == order[taker]
             s == order[taker].side
             os == Opposite(s)
  <1>1. /\ taker # NoOrder
        /\ ~ \E m \in Order : CanMatch(m)
        /\ page' = [page EXCEPT ![os] = @ \ Spent,
                                ![s] = IF Rests(r) THEN @ \cup {taker} ELSE @]
        /\ puts' = IF Rests(r) THEN puts + 1 ELSE puts
        /\ place' = IF Rests(r) THEN [place EXCEPT ![taker] = puts + 1] ELSE place
        /\ level' = IF Rests(r) THEN [level EXCEPT ![s][r.price] = @ + Remaining(r)] ELSE level
        /\ refunds' = IF Refundable(r) THEN [refunds EXCEPT ![taker] = @ + 1] ELSE refunds
        /\ taker' = NoOrder
        /\ opponents' = {}
        /\ UNCHANGED <<order, createIndex, created, cancelIndex, events, trades>>
    BY DEF Settle
  <1>2. /\ taker \in Order /\ r \in OrderRecord /\ s \in Side /\ os \in Side /\ os # s
        /\ \A x \in Side : x = s \/ x = os
        /\ createIndex[taker] = created /\ created # 0 /\ refunds[taker] = 0
        /\ opponents \subseteq page[os]
        /\ r.type \in {"LIMIT", "MARKET"}
    BY <1>1 DEF BookInv, TypeOK, OrderRecord, TakerOK
  <1>3. taker \notin page[s] /\ taker \notin page[os]
    BY <1>2 DEF BookInv, PageOK
  <1>4. /\ page' \in [Side -> SUBSET Order]
        /\ page'[os] = page[os] \ Spent
        /\ page'[s] = IF Rests(r) THEN page[s] \cup {taker} ELSE page[s]
    <2> DEFINE pg == [page EXCEPT ![os] = @ \ Spent]
    <2>1. pg \in [Side -> SUBSET Order] /\ pg[os] = page[os] \ Spent /\ pg[s] = page[s]
      BY <1>2 DEF BookInv, TypeOK
    <2>2. page' = [pg EXCEPT ![s] = IF Rests(r) THEN @ \cup {taker} ELSE @]
      BY <1>1
    <2> HIDE DEF pg
    <2> QED
      BY <1>2, <2>1, <2>2
  <1>5. /\ puts' \in Nat /\ puts' >= puts /\ place' \in [Order -> Nat]
        /\ \A n \in Order \ {taker} : place'[n] = place[n]
        /\ Rests(r) => place'[taker] = puts + 1 /\ puts' = puts + 1
        /\ ~ Rests(r) => place' = place /\ puts' = puts
    BY <1>1, <1>2 DEF BookInv, TypeOK
  <1>6. /\ refunds' \in [Order -> Nat]
        /\ \A n \in Order \ {taker} : refunds'[n] = refunds[n]
        /\ refunds'[taker] = IF Refundable(r) THEN 1 ELSE 0
    BY <1>1, <1>2 DEF BookInv, TypeOK
  <1>7. level' \in [Side -> [Price -> Int]]
    <2>1. CASE Rests(r)
      <3>1. r.price \in Price /\ Remaining(r) \in Int
        BY <1>2, <2>1 DEF BookInv, OrdersOK, WellFormed, OrderRecord, Remaining, Rests
      <3> QED
        BY <1>1, <1>2, <2>1, <3>1 DEF BookInv, TypeOK
    <2>2. CASE ~ Rests(r)
      BY <1>1, <2>2 DEF BookInv, TypeOK
    <2> QED
      BY <2>1, <2>2
  <1>8. TypeOK'
    BY <1>1, <1>4, <1>5, <1>6, <1>7 DEF BookInv, TypeOK
  <1>9. OrdersOK' /\ EventsOK' /\ LimitHonoured' /\ DustOnlyAtTheEnd'
    BY <1>1 DEF BookInv, OrdersOK, EventsOK, LimitHonoured, DustOnlyAtTheEnd
  <1>10. IndexOK'
    BY <1>1, <1>2, <1>5 DEF BookInv, TypeOK, IndexOK
  <1>11. \A n \in page[s] : ~ Filled(order[n])
    BY <1>2 DEF BookInv, TypeOK, PageOK
  <1>12. \A n \in page[os] \ Spent : ~ Filled(order[n])
    BY <1>2 DEF BookInv, PageOK, Spent
  <1>13. PageOK'
    <2> SUFFICES ASSUME NEW x \in Side, NEW n \in page'[x]
                 PROVE  /\ order[n].side = x /\ order[n].type = "LIMIT"
                        /\ createIndex[n] # 0 /\ refunds'[n] = 0
                        /\ n # NoOrder
                        /\ ~ Filled(order[n])
      BY <1>1 DEF PageOK
    <2>1. n \in Order /\ n # NoOrder
      BY <1>4, NoOrderAssumption
    <2>2. CASE n = taker
      <3>1. x = s /\ Rests(r)
        BY <1>2, <1>3, <1>4, <2>2
      <3> QED
        BY <1>2, <1>6, <2>1, <2>2, <3>1 DEF Rests, Refundable
    <2>3. CASE n # taker
      <3>1. n \in page[x] /\ (x = os => n \notin Spent)
        BY <1>2, <1>4, <2>3
      <3>2. ~ Filled(order[n])
        BY <1>2, <1>11, <1>12, <3>1
      <3> QED
        BY <1>2, <1>6, <2>1, <2>3, <3>1, <3>2 DEF BookInv, PageOK
    <2> QED
      BY <2>2, <2>3
  <1>14. PlaceOK'
    <2> SUFFICES ASSUME NEW x \in Side, NEW m \in page'[x], NEW n \in page'[x],
                        createIndex[m] < createIndex[n]
                 PROVE  place'[m] < place'[n]
      BY <1>1 DEF PlaceOK
    <2>1. /\ m \in Order /\ n \in Order /\ m # n
          /\ createIndex[m] \in Nat /\ createIndex[n] \in Nat /\ created \in Nat
          /\ createIndex[n] <= created /\ place[m] <= puts /\ puts \in Nat /\ place[m] \in Nat
      BY <1>4 DEF BookInv, TypeOK, IndexOK
    <2>2. m # taker
      BY <1>2, <2>1
    <2>3. m \in page[x]
      BY <1>2, <1>4, <2>2
    <2>4. CASE n = taker
      <3>1. Rests(r)
        BY <1>2, <1>3, <1>4, <2>4
      <3> QED
        BY <1>5, <2>1, <2>2, <2>4, <3>1
    <2>5. CASE n # taker
      <3>1. n \in page[x]
        BY <1>2, <1>4, <2>5
      <3> QED
        BY <1>5, <2>1, <2>2, <2>3, <2>5, <3>1 DEF BookInv, PlaceOK
    <2> QED
      BY <2>4, <2>5
  <1>15. TakerOK'
    BY <1>1 DEF TakerOK
  <1>16. RefundOK'
    <2> SUFFICES ASSUME NEW o \in Order, refunds'[o] # 0
                 PROVE  /\ refunds'[o] = 1 /\ ~ Filled(order[o])
                        /\ o # NoOrder /\ o \notin page'[order[o].side]
      BY <1>1 DEF RefundOK
    <2>1. CASE o = taker
      BY <1>2, <1>3, <1>4, <1>6, <2>1, NoOrderAssumption DEF Refundable, Rests
    <2>2. CASE o # taker
      <3>1. refunds[o] # 0 /\ order[o].side \in Side
        BY <1>6, <2>2 DEF BookInv, TypeOK, OrderRecord
      <3>2. o \notin page[order[o].side]
        BY <3>1 DEF BookInv, RefundOK
      <3>3. o \notin page'[order[o].side]
        BY <1>2, <1>4, <2>2, <3>1, <3>2
      <3> QED
        BY <1>6, <2>2, <3>1, <3>3, NoOrderAssumption DEF BookInv, RefundOK
    <2> QED
      BY <2>1, <2>2
  <1>17. WhereOK'
    <2> SUFFICES ASSUME NEW o \in Order, createIndex[o] # 0
                 PROVE  o \in page'[order[o].side] \/ Filled(order[o]) \/ refunds'[o] # 0
      BY <1>1 DEF WhereOK
    <2>1. CASE o = taker
      BY <1>2, <1>4, <1>6, <2>1 DEF Rests, Refundable
    <2>2. CASE o # taker
      <3>1. o \in page[order[o].side] \/ Filled(order[o]) \/ refunds[o] # 0
        BY <2>2 DEF BookInv, WhereOK
      <3>2. order[o].side \in Side
        BY DEF BookInv, TypeOK, OrderRecord
      <3> QED
        BY <1>2, <1>4, <1>6, <2>2, <3>1, <3>2 DEF Spent
    <2> QED
      BY <2>1, <2>2
  <1>18. TradesOK'
    <2> SUFFICES ASSUME NEW t \in trades
                 PROVE  /\ t.maker # NoOrder /\ t.taker # NoOrder
                        /\ order[t.maker].side = Opposite(order[t.taker].side)
                        /\ order[t.maker].type = "LIMIT"
      BY <1>1 DEF TradesOK
    <2> QED
      BY NoOrderAssumption DEF BookInv, TypeOK, TradesOK
  <1>19. CancelOK'
    <2> SUFFICES ASSUME NEW o \in cancelIndex
                 PROVE  createIndex[o] # 0 /\ o # NoOrder /\ o \notin page'[order[o].side]
      BY <1>1 DEF CancelOK
    <2>1. /\ o \in Order /\ o # taker /\ createIndex[o] # 0
          /\ order[o].side \in Side /\ o \notin page[order[o].side]
      BY DEF BookInv, TypeOK, OrderRecord, CancelOK
    <2>2. o \notin page'[order[o].side]
      BY <1>2, <1>4, <2>1
    <2> QED
      BY <2>1, <2>2, NoOrderAssumption
  <1>20. NotCrossed'
    <2> SUFFICES ASSUME NEW a \in page'["ASK"], NEW b \in page'["BID"]
                 PROVE  order[a].price > order[b].price
      BY <1>1 DEF NotCrossed
    <2>1. order[a].price \in Nat /\ order[b].price \in Nat
      BY <1>4 DEF BookInv, TypeOK, OrderRecord
    <2>2. CASE a # taker /\ b # taker
      BY <1>2, <1>4, <2>2 DEF BookInv, NotCrossed
    <2>3. CASE a = taker
      <3>1. s = "ASK" /\ Rests(r) /\ b \in page["BID"] \ Spent
        BY <1>2, <1>3, <1>4, <2>3
      <3>2. Better("ASK", order[b].price, order[taker].price)
        BY <1>1, <3>1, OutOfReach DEF Rests
      <3> QED
        BY <2>1, <2>3, <3>2 DEF Better
    <2>4. CASE b = taker
      <3>1. s = "BID" /\ Rests(r) /\ a \in page["ASK"] \ Spent
        BY <1>2, <1>3, <1>4, <2>4
      <3>2. Better("BID", order[a].price, order[taker].price)
        BY <1>1, <3>1, OutOfReach DEF Rests
      <3> QED
        BY <2>1, <2>4, <3>2 DEF Better
    <2> QED
      BY <2>2, <2>3, <2>4
  <1> QED
    BY <1>8, <1>9, <1>10, <1>13, <1>14, <1>15, <1>16, <1>17, <1>18, <1>19, <1>20 DEF BookInv

-----------------------------------------------------------------------------
(* Match.                                                                  *)

\* LimitHonoured, of one order.
Honoured(r) ==
    r.type = "LIMIT" =>
        /\ r.side = "ASK" => r.filledFunds >= r.filledAmount * r.price
        /\ r.side = "BID" =>
             IF Filled(r) THEN r.filledFunds < (r.filledAmount + 1) * r.price
                          ELSE r.filledFunds <= r.filledAmount * r.price

\* An ask that gets at least its price again has had at least its price.
LEMMA AskStaysHonoured ==
    ASSUME NEW fa \in Nat, NEW ff \in Nat, NEW xa \in Nat, NEW xf \in Nat,
           NEW p \in Nat, NEW limit \in Nat,
           ff >= fa * limit, xf >= xa * p, p >= limit
    PROVE  ff + xf >= (fa + xa) * limit
  <1>1. limit * xa <= p * xa
    BY ProductMonotone
  <1>2. /\ (fa + xa) * limit = fa * limit + xa * limit
        /\ limit * xa = xa * limit /\ p * xa = xa * p
        /\ fa * limit \in Nat /\ xa * limit \in Nat /\ xa * p \in Nat
    BY SMT
  <1> QED
    BY <1>1, <1>2, SMT

\* A bid that pays at most its price again has paid at most its price, but for
\* less than one unit.
LEMMA BidStaysHonoured ==
    ASSUME NEW fa \in Nat, NEW ff \in Nat, NEW xa \in Nat, NEW xf \in Nat,
           NEW p \in Nat, NEW limit \in Nat \ {0},
           ff <= fa * limit, xf < (xa + 1) * p, p <= limit
    PROVE  /\ ff + xf < (fa + xa + 1) * limit
           /\ xf = xa * p => ff + xf <= (fa + xa) * limit
  <1>1. p * xa <= limit * xa /\ p * (xa + 1) <= limit * (xa + 1)
    <2>1. p * xa <= limit * xa
      BY ProductMonotone
    <2>2. xa + 1 \in Nat
      OBVIOUS
    <2>3. p * (xa + 1) <= limit * (xa + 1)
      BY <2>2, ProductMonotone
    <2> QED
      BY <2>1, <2>3
  <1>2. /\ (fa + xa) * limit = fa * limit + xa * limit
        /\ (fa + xa + 1) * limit = fa * limit + (xa + 1) * limit
        /\ limit * xa = xa * limit /\ p * xa = xa * p
        /\ limit * (xa + 1) = (xa + 1) * limit /\ p * (xa + 1) = (xa + 1) * p
        /\ fa * limit \in Nat /\ xa * limit \in Nat /\ xa * p \in Nat
        /\ (xa + 1) * limit \in Nat /\ (xa + 1) * p \in Nat
    BY SMT
  <1> QED
    BY <1>1, <1>2, SMT

\* One order of a match at price p, x being what process computed.
LEMMA FillHonoured ==
    ASSUME NEW r \in OrderRecord, NEW x, NEW p \in Nat \ {0}, r.price \in Nat \ {0},
           NEW a \in Nat, NEW f \in Nat, SoundMatch(x, a, f, p),
           r.side = "ASK" => a = r.remainingAmount /\ p >= r.price,
           r.side = "BID" => f = r.remainingFunds /\ p <= r.price,
           r.type = "LIMIT", Honoured(r)
    PROVE  Honoured(Fill(r, x))
  <1> DEFINE q == Fill(r, x)
  <1>1. /\ x.amount \in Nat /\ x.funds \in Nat /\ x.amount <= a /\ x.funds <= f
        /\ x.amount * p <= x.funds /\ x.funds < (x.amount + 1) * p
        /\ x.funds # x.amount * p => x.funds = f
    BY DEF SoundMatch
  <1>2. /\ q.side = r.side /\ q.type = r.type /\ q.price = r.price
        /\ q.filledAmount = r.filledAmount + x.amount
        /\ q.filledFunds = r.filledFunds + x.funds
        /\ q.remainingFunds =
             IF r.side = "BID" THEN r.remainingFunds - x.funds ELSE r.remainingFunds
    BY <1>1, FillFacts
  <1> SUFFICES Honoured(q)
    OBVIOUS
  <1> HIDE DEF q
  <1>3. /\ r.filledAmount \in Nat /\ r.filledFunds \in Nat /\ r.remainingFunds \in Nat
        /\ r.price \in Nat /\ r.side \in {"ASK", "BID"}
    BY DEF OrderRecord
  <1>4. CASE r.side = "ASK"
    <2>1. r.filledFunds >= r.filledAmount * r.price
      BY <1>4 DEF Honoured
    <2>2. q.filledFunds >= q.filledAmount * q.price
      BY <1>1, <1>2, <1>3, <1>4, <2>1, AskStaysHonoured
    <2> QED
      BY <1>2, <1>4, <2>2 DEF Honoured
  <1>5. CASE r.side = "BID"
    <2>1. CASE Filled(r)
      <3>1. r.remainingFunds = 0 /\ x.funds = 0
        BY <1>1, <1>3, <1>5, <2>1 DEF Filled, Remaining
      <3>2. x.amount = 0
        <4>1. SUFFICES ASSUME 1 <= x.amount PROVE FALSE
          BY <1>1
        <4>2. 1 * p <= x.amount * p
          BY <1>1, <4>1, ProductMonotone
        <4> QED
          BY <1>1, <3>1, <4>2
      <3>3. q.filledAmount = r.filledAmount /\ q.filledFunds = r.filledFunds /\ q.remainingFunds = 0
        BY <1>2, <1>3, <1>5, <3>1, <3>2
      <3>4. Filled(q) /\ r.filledFunds < (r.filledAmount + 1) * r.price
        BY <1>2, <1>5, <2>1, <3>3 DEF Filled, Remaining, Honoured
      <3> QED
        BY <1>2, <1>5, <3>3, <3>4 DEF Honoured
    <2>2. CASE ~ Filled(r)
      <3>1. r.filledFunds <= r.filledAmount * r.price
        BY <1>5, <2>2 DEF Honoured
      <3>2. /\ q.filledFunds < (q.filledAmount + 1) * q.price
            /\ x.funds = x.amount * p => q.filledFunds <= q.filledAmount * q.price
        BY <1>1, <1>2, <1>3, <1>5, <3>1, BidStaysHonoured
      <3>3. x.funds # x.amount * p => Filled(q)
        BY <1>1, <1>2, <1>3, <1>5 DEF Filled, Remaining
      <3> QED
        BY <1>2, <1>5, <3>2, <3>3 DEF Honoured
    <2> QED
      BY <2>1, <2>2
  <1> QED
    BY <1>3, <1>4, <1>5

\* Who takes part in a match.
LEMMA MatchParties ==
    ASSUME BookInv, NEW m \in Order, Match(m)
    PROVE  /\ taker \in Order /\ m # taker
           /\ m \in page[order[m].side] /\ m \notin opponents
           /\ order[m].side = Opposite(order[taker].side)
           /\ order[m].type = "LIMIT" /\ order[m].price \in Nat \ {0}
           /\ ~ Filled(order[m])
           /\ opponents # {} => ~ Filled(order[taker])
           /\ createIndex[m] # 0 /\ createIndex[taker] # 0
           /\ refunds[m] = 0 /\ refunds[taker] = 0
           /\ order[m] \in OrderRecord /\ order[taker] \in OrderRecord
  <1>1. taker \in Order /\ order[m] \in OrderRecord /\ order[taker] \in OrderRecord
    BY DEF Match, BookInv, TypeOK
  <1> DEFINE os == Opposite(order[taker].side)
  <1>2. os \in Side
    BY <1>1 DEF OrderRecord
  <1>3. m \in page[os] /\ m \notin opponents /\ (opponents # {} => ~ Filled(order[taker]))
    BY DEF Match, CanMatch, IsNext, Iterating
  <1> HIDE DEF os
  <1>4. /\ order[m].side = os /\ order[m].type = "LIMIT" /\ createIndex[m] # 0
        /\ refunds[m] = 0 /\ m # taker /\ ~ Filled(order[m])
    BY <1>2, <1>3 DEF BookInv, PageOK
  <1>5. order[m].price \in Nat \ {0}
    <2>1. WellFormed(order[m])
      BY DEF BookInv, OrdersOK
    <2>2. order[m].price \in Price
      BY <1>4, <2>1 DEF WellFormed
    <2> QED
      BY <2>2, PricePositive
  <1>6. createIndex[taker] # 0 /\ refunds[taker] = 0
    BY <1>1, NoOrderAssumption DEF BookInv, TakerOK
  <1> QED
    BY <1>1, <1>3, <1>4, <1>5, <1>6 DEF os

\* What a match does to the orders: only its two parties change, they keep
\* their terms, nothing grows, and one of them is used up.
LEMMA MatchEffect ==
    ASSUME BookInv, NEW m \in Order, Match(m)
    PROVE  /\ order' \in [Order -> OrderRecord]
           /\ \A o \in Order :
                /\ order'[o].side = order[o].side
                /\ order'[o].type = order[o].type
                /\ order'[o].price = order[o].price
                /\ WellFormed(order'[o])
                /\ Filled(order[o]) => Filled(order'[o])
                /\ Remaining(order'[o]) \in 0..Remaining(order[o])
                /\ Honoured(order'[o])
                /\ o # taker /\ o # m => order'[o] = order[o]
           /\ Filled(order'[m]) \/ Filled(order'[taker])
           /\ Filled(order[taker]) => Remaining(order'[m]) = Remaining(order[m])
           /\ \E amount, funds \in Nat :
                /\ trades' = trades \cup
                     {[taker |-> taker, maker |-> m, amount |-> amount, funds |-> funds]}
                /\ funds - amount * order[m].price \in 0..(order[m].price - 1)
                /\ funds # amount * order[m].price =>
                     Filled(order'[IF order[taker].side = "BID" THEN taker ELSE m])
  <1> DEFINE x == Matched(order[taker], order[m])
             p == order[m].price
             a == IF order[taker].side = "ASK" THEN order[taker].remainingAmount
                                               ELSE order[m].remainingAmount
             f == IF order[taker].side = "ASK" THEN order[m].remainingFunds
                                               ELSE order[taker].remainingFunds
  <1>1. /\ taker \in Order /\ m # taker
        /\ order[m].side = Opposite(order[taker].side)
        /\ order[m].type = "LIMIT" /\ p \in Nat \ {0}
        /\ order[m] \in OrderRecord /\ order[taker] \in OrderRecord
    BY MatchParties
  <1>2. SoundMatch(x, a, f, p)
    BY <1>1, MatchedSound
  <1>3. a \in Nat /\ f \in Nat /\ order[taker].side \in {"ASK", "BID"}
    BY <1>1 DEF OrderRecord
  <1>4. /\ order' = [order EXCEPT ![taker] = Fill(@, x), ![m] = Fill(@, x)]
        /\ trades' = trades \cup
             {[taker |-> taker, maker |-> m, amount |-> x.amount, funds |-> x.funds]}
    BY DEF Match
  <1> HIDE DEF x, p
  <1>5. /\ x.amount \in Nat /\ x.funds \in Nat /\ x.amount <= a /\ x.funds <= f
        /\ x.amount = a \/ x.funds = f
        /\ x.amount * p <= x.funds /\ x.funds < (x.amount + 1) * p
        /\ x.funds # x.amount * p => x.funds = f
    BY <1>2 DEF SoundMatch
  <1> DEFINE ft == Fill(order[taker], x)
             fm == Fill(order[m], x)
  <1>6. /\ order \in [Order -> OrderRecord]
        /\ order[taker].side = "ASK" => x.amount <= order[taker].remainingAmount
        /\ order[taker].side = "BID" => x.funds <= order[taker].remainingFunds
        /\ order[m].side = "ASK" => x.amount <= order[m].remainingAmount
        /\ order[m].side = "BID" => x.funds <= order[m].remainingFunds
    BY <1>1, <1>3, <1>5 DEF BookInv, TypeOK
  <1>7. /\ ft \in OrderRecord
        /\ ft.side = order[taker].side /\ ft.type = order[taker].type
        /\ ft.price = order[taker].price
        /\ ft.remainingAmount = IF ft.side = "ASK" THEN order[taker].remainingAmount - x.amount
                                                   ELSE order[taker].remainingAmount
        /\ ft.remainingFunds = IF ft.side = "BID" THEN order[taker].remainingFunds - x.funds
                                                  ELSE order[taker].remainingFunds
        /\ WellFormed(order[taker]) => WellFormed(ft)
        /\ Remaining(ft) \in Nat /\ Remaining(ft) <= Remaining(order[taker])
        /\ Filled(order[taker]) => Filled(ft)
    BY <1>1, <1>5, <1>6, FillFacts
  <1>8. /\ fm \in OrderRecord
        /\ fm.side = order[m].side /\ fm.type = order[m].type
        /\ fm.price = order[m].price
        /\ fm.remainingAmount = IF fm.side = "ASK" THEN order[m].remainingAmount - x.amount
                                                   ELSE order[m].remainingAmount
        /\ fm.remainingFunds = IF fm.side = "BID" THEN order[m].remainingFunds - x.funds
                                                  ELSE order[m].remainingFunds
        /\ WellFormed(order[m]) => WellFormed(fm)
        /\ Remaining(fm) \in Nat /\ Remaining(fm) <= Remaining(order[m])
        /\ Filled(order[m]) => Filled(fm)
    BY <1>1, <1>5, <1>6, FillFacts
  <1>9. \A o \in Order : /\ WellFormed(order[o]) /\ Honoured(order[o])
                         /\ Remaining(order[o]) \in Nat
    BY DEF BookInv, TypeOK, OrdersOK, LimitHonoured, Honoured, Remaining, OrderRecord
  <1>10. Honoured(fm)
    BY <1>1, <1>2, <1>3, <1>9, FillHonoured, SMT DEF p
  <1>11. Honoured(ft)
    <2>1. CASE order[taker].type = "LIMIT"
      <3>1. ~ Better(order[taker].side, p, order[taker].price)
        BY <2>1 DEF Match, CanMatch, WithinLimit, p
      <3>2. order[taker].price \in Nat \ {0}
        BY <1>1, <1>9, <2>1, PricePositive DEF WellFormed
      <3>3. /\ order[taker].side = "ASK" => p >= order[taker].price
            /\ order[taker].side = "BID" => p <= order[taker].price
        BY <1>1, <1>3, <3>1, <3>2 DEF Better
      <3> QED
        BY <1>1, <1>2, <1>3, <1>9, <2>1, <3>2, <3>3, FillHonoured
    <2>2. CASE order[taker].type # "LIMIT"
      BY <1>7, <2>2 DEF Honoured
    <2> QED
      BY <2>1, <2>2
  <1>12. Filled(fm) \/ Filled(ft)
    BY <1>1, <1>3, <1>5, <1>7, <1>8 DEF Filled, Remaining
  <1>18. Filled(order[taker]) => Remaining(fm) = Remaining(order[m])
    <2> SUFFICES ASSUME Filled(order[taker]) PROVE Remaining(fm) = Remaining(order[m])
      OBVIOUS
    <2>1. x.funds = 0
      <3>1. x.funds <= f /\ x.funds <= a * p
        BY <1>2 DEF SoundMatch
      <3>2. a = 0 \/ f = 0
        BY <1>1, <1>3 DEF Filled, Remaining
      <3>3. a = 0 => a * p = 0
        BY <1>1, SMT DEF p
      <3> QED
        BY <1>3, <1>5, <3>1, <3>2, <3>3
    <2>2. x.amount = 0
      <3>1. SUFFICES ASSUME 1 <= x.amount PROVE FALSE
        BY <1>5
      <3>2. 1 * p <= x.amount * p /\ 1 * p = p
        BY <1>1, <1>5, <3>1, ProductMonotone DEF p
      <3> QED
        BY <1>1, <1>5, <2>1, <3>2 DEF p
    <2> QED
      BY <1>1, <1>3, <1>8, <2>1, <2>2 DEF Remaining, OrderRecord
  <1>13. x.funds - x.amount * p \in 0..(p - 1)
    <2>1. (x.amount + 1) * p = x.amount * p + p /\ x.amount * p \in Nat
      BY <1>1, <1>5, SMT DEF p
    <2> QED
      BY <1>1, <1>5, <2>1 DEF p
  <1>14. x.funds # x.amount * p => Filled(IF order[taker].side = "BID" THEN ft ELSE fm)
    BY <1>1, <1>3, <1>5, <1>7, <1>8 DEF Filled, Remaining
  <1> HIDE DEF ft, fm
  <1>15. /\ order' \in [Order -> OrderRecord]
         /\ order'[taker] = ft /\ order'[m] = fm
         /\ \A o \in Order : o # taker /\ o # m => order'[o] = order[o]
    <2>1. order' = [order EXCEPT ![taker] = ft, ![m] = fm]
      BY <1>1, <1>4 DEF ft, fm
    <2> QED
      BY <1>1, <1>6, <1>7, <1>8, <2>1
  <1>16. ASSUME NEW o \in Order
         PROVE  /\ order'[o].side = order[o].side
                /\ order'[o].type = order[o].type
                /\ order'[o].price = order[o].price
                /\ WellFormed(order'[o])
                /\ Filled(order[o]) => Filled(order'[o])
                /\ Remaining(order'[o]) \in 0..Remaining(order[o])
                /\ Honoured(order'[o])
    <2>1. CASE o = taker
      BY <1>7, <1>9, <1>11, <1>15, <2>1
    <2>2. CASE o = m
      BY <1>8, <1>9, <1>10, <1>15, <2>2
    <2>3. CASE o # taker /\ o # m
      BY <1>9, <1>15, <2>3
    <2> QED
      BY <2>1, <2>2, <2>3
  <1>17. x.funds # x.amount * p => Filled(order'[IF order[taker].side = "BID" THEN taker ELSE m])
    BY <1>14, <1>15
  <1> QED
    BY <1>4, <1>5, <1>12, <1>13, <1>15, <1>16, <1>17, <1>18 DEF p

LEMMA MatchStep ==
    ASSUME BookInv, NEW m \in Order, Match(m)
    PROVE  BookInv'
  <1>1. /\ opponents' = opponents \cup {m}
        /\ UNCHANGED <<page, place, puts, createIndex, created, cancelIndex, events,
                       taker, refunds>>
        /\ level' = [level EXCEPT ![order[m].side][order[m].price] =
                       @ - LevelPart(order[m].side, Matched(order[taker], order[m]))]
    BY DEF Match
  <1>2. /\ taker \in Order /\ m # taker /\ taker # NoOrder
        /\ m \in page[order[m].side] /\ m \notin opponents
        /\ order[m].side = Opposite(order[taker].side)
        /\ order[m].type = "LIMIT" /\ order[m].price \in Nat \ {0}
        /\ opponents # {} => ~ Filled(order[taker])
        /\ createIndex[m] # 0 /\ createIndex[taker] # 0
        /\ refunds[m] = 0 /\ refunds[taker] = 0
        /\ order[m] \in OrderRecord /\ order[taker] \in OrderRecord
    BY MatchParties, NoOrderAssumption
  <1>3. /\ order' \in [Order -> OrderRecord]
        /\ \A o \in Order :
             /\ order'[o].side = order[o].side
             /\ order'[o].type = order[o].type
             /\ order'[o].price = order[o].price
             /\ WellFormed(order'[o])
             /\ Filled(order[o]) => Filled(order'[o])
             /\ Honoured(order'[o])
             /\ o # taker /\ o # m => order'[o] = order[o]
        /\ Filled(order'[m]) \/ Filled(order'[taker])
    BY MatchEffect
  <1>4. PICK amount \in Nat, funds \in Nat :
          /\ trades' = trades \cup
               {[taker |-> taker, maker |-> m, amount |-> amount, funds |-> funds]}
          /\ funds - amount * order[m].price \in 0..(order[m].price - 1)
          /\ funds # amount * order[m].price =>
               Filled(order'[IF order[taker].side = "BID" THEN taker ELSE m])
    BY MatchEffect
  <1> DEFINE new == [taker |-> taker, maker |-> m, amount |-> amount, funds |-> funds]
  <1>5. level' \in [Side -> [Price -> Int]]
    <2> DEFINE x == Matched(order[taker], order[m])
               lp == LevelPart(order[m].side, x)
    <2>1. x.amount \in Nat /\ x.funds \in Nat
      BY <1>2, MatchedSound DEF SoundMatch
    <2>2. lp \in Int
      BY <2>1 DEF LevelPart
    <2>3. order[m].side \in Side /\ order[m].price \in Price
      BY <1>2 DEF OrderRecord, BookInv, OrdersOK, WellFormed
    <2> HIDE DEF x, lp
    <2>4. level' = [level EXCEPT ![order[m].side][order[m].price] = @ - lp]
      BY <1>1 DEF x, lp
    <2>5. level \in [Side -> [Price -> Int]]
      BY DEF BookInv, TypeOK
    <2> QED
      BY <2>2, <2>3, <2>4, <2>5
  <1>6. TypeOK'
    <2>1. trades' \subseteq [taker : Order, maker : Order, amount : Nat, funds : Nat]
      BY <1>2, <1>4, SMTT(30) DEF BookInv, TypeOK
    <2>2. opponents' \subseteq Order /\ order' \in [Order -> OrderRecord]
      BY <1>1, <1>3 DEF BookInv, TypeOK
    <2> QED
      BY <1>1, <1>5, <2>1, <2>2 DEF BookInv, TypeOK
  <1>7. OrdersOK'
    BY <1>3 DEF OrdersOK
  <1>8. IndexOK' /\ PlaceOK' /\ EventsOK'
    BY <1>1 DEF BookInv, IndexOK, PlaceOK, EventsOK
  <1>9. PageOK'
    <2> SUFFICES ASSUME NEW s \in Side, NEW o \in page[s]
                 PROVE  /\ order'[o].side = s /\ order'[o].type = "LIMIT"
                        /\ createIndex[o] # 0 /\ refunds[o] = 0 /\ o # taker
                        /\ Filled(order'[o]) => o \in opponents \cup {m}
      BY <1>1 DEF PageOK
    <2>1. o \in Order
      BY DEF BookInv, TypeOK
    <2> QED
      BY <1>3, <2>1 DEF BookInv, PageOK
  <1>10. TakerOK'
    <2>1. order'[taker].side = order[taker].side
      BY <1>2, <1>3
    <2>2. opponents \cup {m} \subseteq page[Opposite(order[taker].side)]
      BY <1>2 DEF BookInv, TakerOK
    <2>3. ASSUME NEW n \in opponents
          PROVE  Filled(order'[n]) \/ Filled(order'[taker])
      <3>1. n \in Order /\ Filled(order[n])
        BY <1>2 DEF BookInv, TypeOK, TakerOK
      <3> QED
        BY <1>3, <3>1
    <2>4. createIndex[taker] = created /\ created # 0
      BY <1>2 DEF BookInv, TakerOK
    <2> QED
      BY <1>1, <1>2, <1>3, <2>1, <2>2, <2>3, <2>4 DEF TakerOK
  <1>11. RefundOK'
    <2> SUFFICES ASSUME NEW o \in Order, refunds[o] # 0
                 PROVE  /\ refunds[o] = 1 /\ ~ Filled(order'[o])
                        /\ o # taker /\ o \notin page[order'[o].side]
      BY <1>1 DEF RefundOK
    <2>1. o # taker /\ o # m
      BY <1>2
    <2> QED
      BY <1>3, <2>1 DEF BookInv, RefundOK
  <1>12. WhereOK'
    BY <1>1, <1>3 DEF BookInv, WhereOK
  <1>13. TradesOK'
    <2> SUFFICES ASSUME NEW t \in trades'
                 PROVE  /\ order'[t.maker].side = Opposite(order'[t.taker].side)
                        /\ order'[t.maker].type = "LIMIT"
                        /\ createIndex[t.taker] # 0 /\ createIndex[t.maker] # 0 =>
                             /\ t.maker # taker
                             /\ t.taker = taker => t.maker \in opponents \cup {m}
      BY <1>1 DEF TradesOK
    <2>1. CASE t = new
      BY <1>2, <1>3, <2>1
    <2>2. CASE t \in trades
      <3>1. t.taker \in Order /\ t.maker \in Order
        BY <2>2 DEF BookInv, TypeOK
      <3> QED
        BY <1>3, <2>2, <3>1 DEF BookInv, TradesOK
    <2> QED
      BY <1>4, <2>1, <2>2
  <1>14. CancelOK'
    BY <1>1, <1>3 DEF BookInv, TypeOK, CancelOK
  <1>15. NotCrossed'
    BY <1>1, <1>3 DEF BookInv, TypeOK, NotCrossed
  <1>16. LimitHonoured'
    BY <1>3 DEF LimitHonoured, Honoured
  <1>17. DustOnlyAtTheEnd'
    <2> SUFFICES ASSUME NEW t \in trades'
                 PROVE  /\ t.funds - t.amount * order'[t.maker].price
                             \in 0..(order'[t.maker].price - 1)
                        /\ t.funds - t.amount * order'[t.maker].price # 0 =>
                             Filled(order'[IF order'[t.taker].side = "BID"
                                           THEN t.taker ELSE t.maker])
      BY DEF DustOnlyAtTheEnd
    <2>1. CASE t = new
      <3>1. /\ t.taker = taker /\ t.maker = m /\ t.amount = amount /\ t.funds = funds
            /\ order'[m].price = order[m].price /\ order'[taker].side = order[taker].side
        BY <1>2, <1>3, <2>1
      <3>2. amount * order[m].price \in Nat
        BY <1>2, SMT
      <3>3. funds - amount * order[m].price # 0 => funds # amount * order[m].price
        BY <3>2
      <3> QED
        BY <1>4, <3>1, <3>3
    <2>2. CASE t \in trades
      <3>1. t.taker \in Order /\ t.maker \in Order
        BY <2>2 DEF BookInv, TypeOK
      <3>2. /\ order'[t.maker].price = order[t.maker].price
            /\ order'[t.taker].side = order[t.taker].side
        BY <1>3, <3>1
      <3>3. /\ t.funds - t.amount * order[t.maker].price \in 0..(order[t.maker].price - 1)
            /\ t.funds - t.amount * order[t.maker].price # 0 =>
                 Filled(order[IF order[t.taker].side = "BID" THEN t.taker ELSE t.maker])
        BY <2>2 DEF BookInv, DustOnlyAtTheEnd
      <3> QED
        BY <1>3, <3>1, <3>2, <3>3
    <2> QED
      BY <1>4, <2>1, <2>2
  <1> QED
    BY <1>6, <1>7, <1>8, <1>9, <1>10, <1>11, <1>12, <1>13, <1>14, <1>15, <1>16, <1>17 DEF BookInv

-----------------------------------------------------------------------------
(* The theorems.                                                           *)

LEMMA HistoryStep ==
    ASSUME IInv, [Next]_vars
    PROVE  HistoryIsOwn'
  <1>1. ASSUME UNCHANGED <<trades, refunds>>, createIndex' \in [Order -> Nat],
               \A o \in Order : createIndex[o] # 0 => createIndex'[o] # 0
        PROVE  HistoryIsOwn'
    BY <1>1 DEF IInv, BookInv, TypeOK, HistoryIsOwn
  <1>2. CASE \E o \in Order, action \in Action : Listed(o, action) /\ AttachOrderEvent(o, action)
    BY <1>1, <1>2 DEF AttachOrderEvent, IInv, BookInv, TypeOK
  <1>3. CASE \E o \in Order : SkipCreate(o) \/ SkipCancel(o)
    BY <1>1, <1>3 DEF SkipCreate, SkipCancel, IInv, BookInv, TypeOK
  <1>4. CASE \E o \in Order : BeginCreate(o, order[o])
    BY <1>1, <1>4 DEF BeginCreate, IInv, BookInv, TypeOK
  <1>5. ASSUME NEW o \in Order, CancelOrder(o) PROVE HistoryIsOwn'
    <2>1. /\ createIndex[o] # 0 /\ refunds' = [refunds EXCEPT ![o] = @ + 1]
          /\ UNCHANGED <<trades, createIndex>>
      BY <1>5, ReceiveFacts DEF CancelOrder, IInv, BookInv
    <2> QED
      BY <2>1 DEF IInv, BookInv, TypeOK, HistoryIsOwn
  <1>6. ASSUME NEW m \in Order, Match(m) PROVE HistoryIsOwn'
    <2>1. createIndex[m] # 0 /\ createIndex[taker] # 0
      BY <1>6, MatchParties DEF IInv
    <2> QED
      BY <1>6, <2>1 DEF Match, IInv, HistoryIsOwn
  <1>7. CASE Settle
    <2>1. /\ taker \in Order /\ createIndex[taker] # 0
          /\ refunds' = refunds \/ refunds' = [refunds EXCEPT ![taker] = @ + 1]
          /\ UNCHANGED <<trades, createIndex>>
      BY <1>7 DEF Settle, IInv, BookInv, TypeOK, TakerOK
    <2> QED
      BY <2>1 DEF IInv, BookInv, TypeOK, HistoryIsOwn
  <1>8. CASE UNCHANGED vars
    BY <1>8 DEF vars, IInv, HistoryIsOwn
  <1> QED
    BY <1>2, <1>3, <1>4, <1>5, <1>6, <1>7, <1>8 DEF Next, Run

LEMMA Step == IInv /\ [Next]_vars => IInv'
  <1> SUFFICES ASSUME IInv, [Next]_vars PROVE BookInv'
    BY HistoryStep DEF IInv
  <1> USE DEF IInv
  <1>1. CASE \E o \in Order, action \in Action : Listed(o, action) /\ AttachOrderEvent(o, action)
    BY <1>1, AttachStep
  <1>2. CASE \E o \in Order : SkipCreate(o)
    BY <1>2, SkipCreateStep
  <1>3. ASSUME NEW o \in Order, BeginCreate(o, order[o]) PROVE BookInv'
    <2>1. createIndex[o] = 0
      BY <1>3 DEF BeginCreate, Known
    <2>2. refunds[o] = 0 /\ \A t \in trades : o \notin {t.taker, t.maker}
      BY <2>1 DEF HistoryIsOwn
    <2> QED
      BY <1>3, <2>2, BeginCreateStep
  <1>4. CASE \E o \in Order : CancelOrder(o)
    BY <1>4, CancelOrderStep
  <1>5. CASE \E o \in Order : SkipCancel(o)
    BY <1>5, SkipCancelStep
  <1>6. CASE \E m \in Order : Match(m)
    BY <1>6, MatchStep
  <1>7. CASE Settle
    BY <1>7, SettleStep
  <1>8. CASE UNCHANGED vars
    <2>1. StateInv' /\ events' = events
      BY <1>8, StateInvUnchanged DEF vars, BookInv, StateInv
    <2>2. TypeOK' /\ EventsOK'
      BY <1>8 DEF vars, BookInv, TypeOK, EventsOK
    <2> QED
      BY <2>1, <2>2 DEF BookInv, StateInv
  <1> QED
    BY <1>1, <1>2, <1>3, <1>4, <1>5, <1>6, <1>7, <1>8 DEF Next, Run

\* The inductive invariant holds in every behaviour of the book.
THEOREM Invariance == Spec => []IInv
  <1>1. Init => IInv
    BY InitInvariant
  <1>2. IInv /\ [Next]_vars => IInv'
    BY Step
  <1> QED
    BY <1>1, <1>2, PTL DEF Spec

\* Every variable of the engine keeps its type: in particular no amount and no
\* funds of an order ever go below zero.
THEOREM TypeCorrect == Spec => []TypeOK
  BY Invariance, PTL DEF IInv, BookInv

\* The book is never crossed.
THEOREM BookNeverCrossed == Spec => []NotCrossed
  BY Invariance, PTL DEF IInv, BookInv

\* No LIMIT order ever does worse than its price, however it is matched.
THEOREM LimitsAreHonoured == Spec => []LimitHonoured
  BY Invariance, PTL DEF IInv, BookInv

\* Truncation only ever costs the order that a trade uses up, and less than the
\* price of one unit.
THEOREM DustIsBounded == Spec => []DustOnlyAtTheEnd
  BY Invariance, PTL DEF IInv, BookInv

\* Every order that createOrder accepted is in exactly one place between events.
THEOREM NoOrderIsLost == Spec => []Accounted
  <1>1. IInv => Accounted
    <2> SUFFICES ASSUME IInv, taker = NoOrder, NEW o \in Order, createIndex[o] # 0
                 PROVE  /\ o \in page[order[o].side] \/ refunds[o] # 0 \/ Filled(order[o])
                        /\ ~ (o \in page[order[o].side] /\ refunds[o] # 0)
                        /\ Filled(order[o]) => o \notin page[order[o].side] /\ ~ refunds[o] # 0
      BY DEF Accounted
    <2>1. o # taker /\ order[o].side \in Side /\ opponents = {}
      BY NoOrderAssumption DEF IInv, BookInv, TypeOK, OrderRecord, TakerOK
    <2> QED
      BY <2>1 DEF IInv, BookInv, WhereOK, RefundOK, PageOK
  <1> QED
    BY <1>1, Invariance, PTL

\* The cancel callback runs at most once for an order.
THEOREM RefundsAreSingle == Spec => []RefundOnce
  <1>1. IInv => RefundOnce
    BY DEF IInv, BookInv, RefundOK, RefundOnce
  <1> QED
    BY <1>1, Invariance, PTL

\* An order that cancelOrder has seen is off the book for ever.
THEOREM CancelsAreFinal == Spec => []CancelIsFinal
  <1>1. IInv => CancelIsFinal
    BY DEF IInv, BookInv, TypeOK, PageOK, CancelOK, CancelIsFinal, Resting
  <1> QED
    BY <1>1, Invariance, PTL

\* The three together: no order is lost, refunded twice or back after its cancellation.
THEOREM OrdersAreAccounted == Spec => []OrdersAccounted
  BY NoOrderIsLost, RefundsAreSingle, CancelsAreFinal, PTL DEF OrdersAccounted

\* The three together: the book is not crossed, no LIMIT order does worse than its
\* price, and truncation takes less than the price of one unit.
THEOREM PricesAreHonoured == Spec => []PricesHonoured
  BY BookNeverCrossed, LimitsAreHonoured, DustIsBounded, PTL DEF PricesHonoured

LEMMA OpponentsGrowInMatch ==
    ASSUME BookInv, [Next]_vars, NEW m \in opponents' \ opponents
    PROVE  m \in Order /\ Match(m)
  <1>1. CASE UNCHANGED vars
    BY <1>1 DEF vars
  <1>2. CASE \E o \in Order, action \in Action : Listed(o, action) /\ AttachOrderEvent(o, action)
    BY <1>2 DEF AttachOrderEvent
  <1>3. CASE \E o \in Order : SkipCreate(o) \/ BeginCreate(o, order[o]) \/ CancelOrder(o) \/ SkipCancel(o)
    BY <1>3 DEF SkipCreate, BeginCreate, CancelOrder, SkipCancel
  <1>4. CASE \E n \in Order : Match(n)
    <2>1. PICK n \in Order : Match(n)
      BY <1>4
    <2>2. m = n
      BY <2>1 DEF Match
    <2> QED
      BY <2>1, <2>2
  <1>5. CASE Settle
    BY <1>5 DEF Settle
  <1> QED
    BY <1>1, <1>2, <1>3, <1>4, <1>5 DEF Next, Run

\* Price-time priority.
THEOREM PriorityHolds == Spec => PriorityRespected
  <1> DEFINE A == \A m \in opponents' \ opponents :
                    \A n \in page[order[m].side] \ {m} :
                       \/ Filled(order[n])
                       \/ Better(order[m].side, order[m].price, order[n].price)
                       \/ order[m].price = order[n].price /\ createIndex[m] < createIndex[n]
  <1>1. IInv /\ [Next]_vars => A
    <2> SUFFICES ASSUME IInv, [Next]_vars, NEW m \in opponents' \ opponents,
                        NEW n \in page[order[m].side] \ {m}, ~ Filled(order[n])
                 PROVE  \/ Better(order[m].side, order[m].price, order[n].price)
                        \/ order[m].price = order[n].price /\ createIndex[m] < createIndex[n]
      OBVIOUS
    <2>1. m \in Order /\ Match(m)
      BY OpponentsGrowInMatch DEF IInv
    <2>2. /\ order[m].side = Opposite(order[taker].side) /\ order[m].side \in Side
          /\ m \in page[order[m].side] /\ taker # NoOrder
          /\ opponents # {} => ~ Filled(order[taker])
      BY <2>1, MatchParties, NoOrderAssumption DEF IInv, OrderRecord
    <2>3. n \in Order
      BY <2>2 DEF IInv, BookInv, TypeOK
    <2>4. n \notin opponents
      BY <2>2 DEF IInv, BookInv, TakerOK
    <2>5. Ahead(m, n)
      BY <2>1, <2>2, <2>4 DEF Match, CanMatch, IsNext
    <2>6. CASE order[m].price = order[n].price /\ place[m] < place[n]
      <3>1. /\ createIndex[m] \in Nat /\ createIndex[n] \in Nat
            /\ place[m] \in Nat /\ place[n] \in Nat
        BY <2>1, <2>3 DEF IInv, BookInv, TypeOK
      <3>2. ~ createIndex[n] < createIndex[m]
        BY <2>2, <2>6, <3>1 DEF IInv, BookInv, PlaceOK
      <3>3. createIndex[n] # createIndex[m]
        BY <2>1, <2>2, <2>3 DEF IInv, BookInv, PageOK, IndexOK
      <3> QED
        BY <2>6, <3>1, <3>2, <3>3
    <2> QED
      BY <2>5, <2>6 DEF Ahead
  <1>2. IInv /\ [Next]_vars => [A]_vars
    BY <1>1
  <1> QED
    BY <1>2, Invariance, PTL DEF Spec, PriorityRespected

\* No pair of orders is ever matched twice, so Transact never inserts the same
\* trade id again.
THEOREM TradeIdsAreFresh == Spec => TradeIdIsFresh
  <1> DEFINE A == \A m \in opponents' \ opponents :
                    ~ \E t \in trades : {t.taker, t.maker} = {taker, m}
  <1>1. IInv /\ [Next]_vars => A
    <2> SUFFICES ASSUME IInv, [Next]_vars, NEW m \in opponents' \ opponents,
                        NEW t \in trades, {t.taker, t.maker} = {taker, m}
                 PROVE  FALSE
      OBVIOUS
    <2>1. m # taker
      BY OpponentsGrowInMatch, MatchParties DEF IInv
    <2>2. t.maker # taker /\ (t.taker = taker => t.maker \in opponents)
      BY DEF IInv, BookInv, HistoryIsOwn, TradesOK
    <2>3. t.taker = taker /\ t.maker = m
      BY <2>1, <2>2
    <2> QED
      BY <2>2, <2>3
  <1>2. IInv /\ [Next]_vars => [A]_vars
    BY <1>1
  <1> QED
    BY <1>2, Invariance, PTL DEF Spec, TradeIdIsFresh

\* The two together: every match is due, and it is the first of its two orders.
THEOREM MatchesAreInTurn == Spec => MatchesInTurn
  BY PriorityHolds, TradeIdsAreFresh DEF MatchesInTurn


-----------------------------------------------------------------------------
(* The engine implements OrderLifecycle.                                   *)

LEMMA NothingVisible ==
    ASSUME \A o \in Order : Phase(o)' = Phase(o) /\ Remaining(order'[o]) = Remaining(order[o])
    PROVE  /\ [o \in Order |-> Phase(o)]' = [o \in Order |-> Phase(o)]
           /\ [o \in Order |-> Remaining(order[o])]' = [o \in Order |-> Remaining(order[o])]
  OBVIOUS

LEMMA ContractInit == Init => Contract!Init
  <1> SUFFICES ASSUME Init PROVE Contract!Init
    OBVIOUS
  <1>1. \A o \in Order : Phase(o) = "new"
    BY DEF Init, Phase
  <1>2. \A o \in Order : Remaining(order[o]) \in Nat
    BY InitInvariant DEF IInv, BookInv, TypeOK, OrderRecord, Remaining
  <1> QED
    BY <1>1, <1>2 DEF Contract!Init

\* A refund of one open order, seen by the contract.
LEMMA ContractRefund ==
    ASSUME BookInv, NEW o \in Order,
           UNCHANGED <<order, createIndex>>,
           createIndex[o] # 0, refunds[o] = 0, ~ Filled(order[o]),
           refunds' = [refunds EXCEPT ![o] = @ + 1]
    PROVE  Contract!Refund(o)
  <1>1. /\ refunds'[o] # 0
        /\ \A n \in Order \ {o} : refunds'[n] = refunds[n]
    BY DEF IInv, BookInv, TypeOK
  <1>2. Phase(o) = "open" /\ Phase(o)' = "refunded"
    BY <1>1 DEF Phase
  <1>3. \A n \in Order \ {o} : Phase(n)' = Phase(n)
    BY <1>1 DEF Phase, Filled
  <1> QED
    BY <1>2, <1>3 DEF Contract!Refund

LEMMA ContractStep ==
    ASSUME IInv, [Next]_vars
    PROVE  [Contract!Next]_<<[o \in Order |-> Phase(o)], [o \in Order |-> Remaining(order[o])]>>
  <1> DEFINE Same == \A o \in Order :
                       Phase(o)' = Phase(o) /\ Remaining(order'[o]) = Remaining(order[o])
  <1>1. ASSUME UNCHANGED <<order, createIndex, refunds>> PROVE Same
    BY <1>1 DEF Phase, Filled, Remaining
  <1>2. CASE UNCHANGED vars
    BY <1>1, <1>2, NothingVisible DEF vars
  <1>3. CASE \E o \in Order, action \in Action : Listed(o, action) /\ AttachOrderEvent(o, action)
    <2>1. Same
      BY <1>1, <1>3 DEF AttachOrderEvent
    <2> QED
      BY <2>1, NothingVisible
  <1>4. CASE \E o \in Order : SkipCreate(o) \/ SkipCancel(o)
    <2>1. Same
      BY <1>1, <1>4 DEF SkipCreate, SkipCancel
    <2> QED
      BY <2>1, NothingVisible
  <1>5. ASSUME NEW o \in Order, BeginCreate(o, order[o]) PROVE Contract!Next
    <2>1. /\ createIndex[o] = 0 /\ UNCHANGED <<order, refunds>>
          /\ createIndex' = [createIndex EXCEPT ![o] = created + 1]
      BY <1>5, SameStruct DEF IInv, BeginCreate, Known
    <2>2. /\ createIndex'[o] # 0 /\ refunds[o] = 0
          /\ \A n \in Order \ {o} : createIndex'[n] = createIndex[n]
      BY <2>1 DEF IInv, BookInv, HistoryIsOwn, TypeOK
    <2>3. /\ Phase(o) = "new"
          /\ Phase(o)' = IF Remaining(order[o]) = 0 THEN "filled" ELSE "open"
      BY <2>1, <2>2 DEF Phase, Filled, Remaining
    <2>4. \A n \in Order \ {o} : Phase(n)' = Phase(n)
      BY <2>1, <2>2 DEF Phase, Filled, Remaining
    <2>5. Contract!Accept(o)
      BY <2>1, <2>3, <2>4 DEF Contract!Accept, Contract!After
    <2> QED
      BY <2>5 DEF Contract!Next
  <1>6. ASSUME NEW o \in Order, CancelOrder(o) PROVE Contract!Next
    <2>1. /\ UNCHANGED <<order, createIndex>>
          /\ refunds' = [refunds EXCEPT ![o] = @ + 1]
          /\ o \in page[order[o].side] /\ Receive(o, "CANCEL")
      BY <1>6 DEF CancelOrder, OnPage
    <2>2. order[o].side \in Side /\ opponents = {}
      BY <2>1, ReceiveFacts DEF IInv, BookInv, TypeOK, OrderRecord, TakerOK
    <2>3. createIndex[o] # 0 /\ refunds[o] = 0 /\ ~ Filled(order[o])
      BY <2>1, <2>2 DEF IInv, BookInv, PageOK
    <2>4. Contract!Refund(o)
      BY <2>1, <2>3, ContractRefund DEF IInv
    <2> QED
      BY <2>4 DEF Contract!Next
  <1>7. ASSUME Settle
        PROVE  [Contract!Next]_<<[o \in Order |-> Phase(o)], [o \in Order |-> Remaining(order[o])]>>
    <2>1. /\ UNCHANGED <<order, createIndex>> /\ taker \in Order
          /\ refunds' = IF Refundable(order[taker]) THEN [refunds EXCEPT ![taker] = @ + 1]
                                                    ELSE refunds
          /\ createIndex[taker] # 0 /\ refunds[taker] = 0
      BY <1>7 DEF Settle, IInv, BookInv, TypeOK, TakerOK
    <2>2. CASE Refundable(order[taker])
      <3>1. Contract!Refund(taker)
        BY <2>1, <2>2, ContractRefund DEF IInv, Refundable
      <3> QED
        BY <2>1, <3>1 DEF Contract!Next
    <2>3. CASE ~ Refundable(order[taker])
      <3>1. Same
        BY <1>1, <2>1, <2>3
      <3> QED
        BY <3>1, NothingVisible
    <2> QED
      BY <2>2, <2>3
  <1>8. ASSUME NEW m \in Order, Match(m)
        PROVE  [Contract!Next]_<<[o \in Order |-> Phase(o)], [o \in Order |-> Remaining(order[o])]>>
    <2>1. /\ taker \in Order /\ m # taker /\ ~ Filled(order[m])
          /\ createIndex[m] # 0 /\ createIndex[taker] # 0
          /\ refunds[m] = 0 /\ refunds[taker] = 0
          /\ UNCHANGED <<createIndex, refunds, taker>>
      BY <1>8, MatchParties DEF IInv, Match
    <2>2. /\ \A o \in Order :
               /\ Filled(order[o]) => Filled(order'[o])
               /\ Remaining(order'[o]) \in 0..Remaining(order[o])
               /\ o # taker /\ o # m => order'[o] = order[o]
          /\ Filled(order'[m]) \/ Filled(order'[taker])
          /\ Filled(order[taker]) => Remaining(order'[m]) = Remaining(order[m])
      BY <1>8, MatchEffect DEF IInv
    <2>3. \A n \in Order \ {taker, m} :
            Phase(n)' = Phase(n) /\ Remaining(order'[n]) = Remaining(order[n])
      BY <2>1, <2>2 DEF Phase, Filled, Remaining
    <2>4. Phase(m) = "open" /\ Phase(taker) = IF Filled(order[taker]) THEN "filled" ELSE "open"
      BY <2>1 DEF Phase
    <2>5. createIndex'[m] = createIndex[m] /\ createIndex'[taker] = createIndex[taker]
          /\ refunds'[m] = refunds[m] /\ refunds'[taker] = refunds[taker]
      BY <2>1
    <2>6. Phase(m)' = IF Remaining(order'[m]) = 0 THEN "filled" ELSE "open"
      BY <2>1, <2>5 DEF Phase, Filled
    <2>7. Phase(taker)' = IF Remaining(order'[taker]) = 0 THEN "filled" ELSE "open"
      BY <2>1, <2>5 DEF Phase, Filled
    <2>8. CASE Filled(order[taker])
      <3>1. Remaining(order[taker]) = 0 /\ Remaining(order'[taker]) = 0
        BY <2>2, <2>1, <2>8 DEF Filled
      <3>2. Phase(taker)' = Phase(taker) /\ Remaining(order'[taker]) = Remaining(order[taker])
        BY <2>1, <2>4, <2>7, <2>8, <3>1
      <3>3. Remaining(order'[m]) = Remaining(order[m]) /\ Remaining(order[m]) # 0
        BY <2>1, <2>2, <2>8 DEF Filled
      <3>4. Phase(m)' = Phase(m)
        BY <2>4, <2>6, <3>3
      <3>5. Same
        <4> SUFFICES ASSUME NEW o \in Order
                     PROVE  Phase(o)' = Phase(o) /\ Remaining(order'[o]) = Remaining(order[o])
          OBVIOUS
        <4>1. CASE o = taker
          BY <2>1, <3>2, <4>1
        <4>2. CASE o = m
          BY <3>3, <3>4, <4>2
        <4>3. CASE o # taker /\ o # m
          BY <2>3, <4>3
        <4> QED
          BY <4>1, <4>2, <4>3
      <3> QED
        BY <3>5, NothingVisible
    <2>9. CASE ~ Filled(order[taker])
      <3> DEFINE nt == Remaining(order'[taker])
                 nm == Remaining(order'[m])
      <3>1. nt = 0 \/ nm = 0
        BY <2>2 DEF Filled
      <3>2. nt \in 0..Remaining(order[taker]) /\ nm \in 0..Remaining(order[m])
        BY <2>1, <2>2
      <3>3. Phase(taker) = "open"
        BY <2>4, <2>9
      <3>4. /\ Phase(taker)' = Contract!After(nt)
            /\ Phase(m)' = Contract!After(nm)
        BY <2>6, <2>7 DEF Contract!After
      <3>5. [o \in Order |-> Remaining(order[o])]'
              = [[o \in Order |-> Remaining(order[o])] EXCEPT ![taker] = nt, ![m] = nm]
        BY <2>1, <2>3
      <3>6. [o \in Order |-> Phase(o)]'
              = [[o \in Order |-> Phase(o)]
                    EXCEPT ![taker] = Contract!After(nt), ![m] = Contract!After(nm)]
        BY <2>1, <2>3, <3>4
      <3> HIDE DEF nt, nm
      <3>7. Contract!Trade(taker, m)
        BY <2>1, <2>4, <3>1, <3>2, <3>3, <3>5, <3>6 DEF Contract!Trade
      <3> QED
        BY <2>1, <3>7 DEF Contract!Next
    <2> QED
      BY <2>8, <2>9
  <1> QED
    BY <1>2, <1>3, <1>4, <1>5, <1>6, <1>7, <1>8 DEF Next, Run

\* The engine keeps the contract of OrderLifecycle.
THEOREM ContractIsKept == Spec => KeepsContract
  <1>1. IInv /\ [Next]_vars =>
          [Contract!Next]_<<[o \in Order |-> Phase(o)], [o \in Order |-> Remaining(order[o])]>>
    BY ContractStep
  <1> QED
    BY <1>1, ContractInit, Invariance, PTL DEF Spec, KeepsContract, Contract!Spec
-----------------------------------------------------------------------------
(* The totals of the price levels.                                         *)

Lefts == [o \in Order |-> Remaining(order[o])]
At(s, p) == {o \in page[s] : order[o].price = p}

PagesFinite == \A s \in Side : IsFiniteSet(page[s])

LevelInv == PagesFinite /\ LevelExact

LEMMA LeftsAreNat == ASSUME TypeOK PROVE \A o \in Order : Lefts[o] \in Nat
  BY DEF TypeOK, Lefts, Remaining, OrderRecord

LEMMA LevelAt ==
    ASSUME LevelExact, NEW s \in Side, NEW p \in Price
    PROVE  level[s][p] = SumFunctionOnSet(Lefts, At(s, p))
  BY DEF LevelExact, Lefts, At

LEMMA LevelInit == Init => LevelInv
  <1> SUFFICES ASSUME Init PROVE LevelInv
    OBVIOUS
  <1>1. PagesFinite
    BY FS_EmptySet DEF Init, PagesFinite
  <1>2. ASSUME NEW s \in Side, NEW p \in Price
        PROVE  level[s][p] = SumFunctionOnSet(Lefts, At(s, p))
    <2>1. At(s, p) = {} /\ level[s][p] = 0
      BY DEF Init, At
    <2> QED
      BY <2>1, SumEmpty
  <1> QED
    BY <1>1, <1>2 DEF LevelInv, LevelExact, Lefts, At

\* A level changes only with the orders on it.
LEMMA LevelKept ==
    ASSUME LevelInv, order' = order, page' = page, level' = level
    PROVE  LevelInv'
  BY DEF LevelInv, PagesFinite, LevelExact

\* An order leaves its level, which loses what remains of it.
LEMMA LevelCancel ==
    ASSUME BookInv, LevelInv, NEW o \in Order, CancelOrder(o)
    PROVE  LevelInv'
  <1> DEFINE c == order[o].side
             q == order[o].price
  <1>1. /\ o \in page[c] /\ order' = order
        /\ page' = [page EXCEPT ![c] = @ \ {o}]
        /\ level' = [level EXCEPT ![c][q] = @ - Remaining(order[o])]
    BY DEF CancelOrder, OnPage
  <1>2. c \in Side /\ q \in Price
    BY <1>1 DEF BookInv, TypeOK, OrdersOK, OrderRecord, WellFormed, PageOK
  <1>3. /\ page'[c] = page[c] \ {o}
        /\ \A s \in Side \ {c} : page'[s] = page[s]
        /\ level'[c][q] = level[c][q] - Remaining(order[o])
        /\ \A s \in Side, p \in Price : s # c \/ p # q => level'[s][p] = level[s][p]
    BY <1>1, <1>2 DEF BookInv, TypeOK
  <1>4. PagesFinite'
    BY <1>3, FS_Subset DEF LevelInv, PagesFinite
  <1>5. ASSUME NEW s \in Side, NEW p \in Price
        PROVE  level'[s][p] = SumFunctionOnSet(Lefts', At(s, p)')
    <2>1. Lefts' = Lefts
      BY <1>1 DEF Lefts
    <2>2. IsFiniteSet(At(s, p)) /\ At(s, p) \subseteq Order
      BY FS_Subset DEF LevelInv, PagesFinite, At, BookInv, TypeOK
    <2>3. CASE s = c /\ p = q
      <3>1. At(s, p)' = At(s, p) \ {o} /\ o \in At(s, p)
        BY <1>1, <1>2, <1>3, <2>3 DEF At
      <3>2. SumFunctionOnSet(Lefts, At(s, p)) = Lefts[o] + SumFunctionOnSet(Lefts, At(s, p) \ {o})
        BY <2>2, <3>1, SumRemove, LeftsAreNat DEF BookInv
      <3>3. SumFunctionOnSet(Lefts, At(s, p) \ {o}) \in Int
        BY <2>2, FS_Subset, SumType, LeftsAreNat DEF BookInv
      <3>4. Lefts[o] = Remaining(order[o]) /\ Lefts[o] \in Nat
        BY LeftsAreNat DEF Lefts, BookInv
      <3>5. level'[s][p] = level[s][p] - Lefts[o]
        BY <1>3, <2>3, <3>4
      <3>6. level[s][p] = Lefts[o] + SumFunctionOnSet(Lefts, At(s, p) \ {o})
        BY <3>2, LevelAt DEF LevelInv
      <3>7. level'[s][p] = SumFunctionOnSet(Lefts, At(s, p) \ {o})
        BY <3>3, <3>4, <3>5, <3>6
      <3> QED
        BY <2>1, <3>1, <3>7
    <2>4. CASE ~ (s = c /\ p = q)
      <3>1. At(s, p)' = At(s, p)
        BY <1>1, <1>2, <1>3, <2>4 DEF At
      <3> QED
        BY <1>3, <2>1, <2>4, <3>1, LevelAt DEF LevelInv
    <2> QED
      BY <2>3, <2>4
  <1> QED
    BY <1>4, <1>5 DEF LevelInv, LevelExact, Lefts, At

\* In a match the level of the maker loses what the maker loses; the taker is on
\* no level.
LEMMA LevelMatch ==
    ASSUME BookInv, LevelInv, NEW m \in Order, Match(m)
    PROVE  LevelInv'
  <1> DEFINE c == order[m].side
             q == order[m].price
             x == Matched(order[taker], order[m])
  <1>1. /\ taker \in Order /\ m # taker /\ m \in page[c]
        /\ c = Opposite(order[taker].side)
        /\ order[m].type = "LIMIT" /\ q \in Nat \ {0}
        /\ order[m] \in OrderRecord /\ order[taker] \in OrderRecord
    BY MatchParties
  <1>2. c \in Side /\ q \in Price
    BY <1>1 DEF BookInv, OrdersOK, OrderRecord, WellFormed
  <1>3. /\ page' = page
        /\ order' = [order EXCEPT ![taker] = Fill(@, x), ![m] = Fill(@, x)]
        /\ level' = [level EXCEPT ![c][q] = @ - LevelPart(c, x)]
    BY DEF Match
  <1>4. /\ order' \in [Order -> OrderRecord]
        /\ \A o \in Order : order'[o].price = order[o].price
                           /\ (o # taker /\ o # m => order'[o] = order[o])
    BY MatchEffect
  <1>5. /\ level'[c][q] = level[c][q] - LevelPart(c, x)
        /\ \A s \in Side, p \in Price : s # c \/ p # q => level'[s][p] = level[s][p]
    BY <1>2, <1>3 DEF BookInv, TypeOK
  <1>6. Remaining(order'[m]) = Remaining(order[m]) - LevelPart(c, x)
    <2>1. order'[m] = Fill(order[m], x)
      BY <1>1, <1>3 DEF BookInv, TypeOK
    <2>2. SoundMatch(x, IF order[taker].side = "ASK" THEN order[taker].remainingAmount
                                                     ELSE order[m].remainingAmount,
                        IF order[taker].side = "ASK" THEN order[m].remainingFunds
                                                     ELSE order[taker].remainingFunds, q)
      BY <1>1, MatchedSound
    <2> HIDE DEF x
    <2>3. /\ x.amount \in Nat /\ x.funds \in Nat
          /\ order[m].side = "ASK" => x.amount <= order[m].remainingAmount
          /\ order[m].side = "BID" => x.funds <= order[m].remainingFunds
      BY <1>1, <2>2 DEF SoundMatch, OrderRecord
    <2>4. /\ Fill(order[m], x).side = order[m].side
          /\ Fill(order[m], x).remainingAmount =
               IF order[m].side = "ASK" THEN order[m].remainingAmount - x.amount
                                        ELSE order[m].remainingAmount
          /\ Fill(order[m], x).remainingFunds =
               IF order[m].side = "BID" THEN order[m].remainingFunds - x.funds
                                        ELSE order[m].remainingFunds
      BY <1>1, <2>3, FillFacts
    <2> QED
      BY <1>1, <2>1, <2>4 DEF Remaining, LevelPart, OrderRecord
  <1> HIDE DEF x
  <1>7. /\ \A o \in Order : Lefts[o] \in Nat /\ Lefts'[o] \in Nat
        /\ \A o \in Order \ {taker, m} : Lefts'[o] = Lefts[o]
        /\ Lefts'[m] = Lefts[m] - LevelPart(c, x)
    BY <1>4, <1>6, LeftsAreNat DEF BookInv, Lefts, Remaining, OrderRecord
  <1>8. \A s \in Side : taker \notin page[s]
    BY <1>1 DEF BookInv, TypeOK, PageOK
  <1>9. PagesFinite'
    BY <1>3 DEF LevelInv, PagesFinite
  <1>10. ASSUME NEW s \in Side, NEW p \in Price
         PROVE  level'[s][p] = SumFunctionOnSet(Lefts', At(s, p)')
    <2>1. /\ IsFiniteSet(At(s, p)) /\ At(s, p) \subseteq Order /\ taker \notin At(s, p)
          /\ At(s, p)' = At(s, p)
      BY <1>3, <1>4, <1>8, FS_Subset, ZenonT(40) DEF LevelInv, PagesFinite, At, BookInv, TypeOK
    <2>2. CASE s = c /\ p = q
      <3>1. m \in At(s, p)
        BY <1>1, <2>2 DEF At
      <3> DEFINE g == Lefts'
      <3>2. /\ \A y \in At(s, p) : Lefts[y] \in Int /\ g[y] \in Int
            /\ \A y \in At(s, p) \ {m} : g[y] = Lefts[y]
        BY <1>7, <2>1
      <3> HIDE DEF g
      <3>3. SumFunctionOnSet(g, At(s, p)) = SumFunctionOnSet(Lefts, At(s, p)) - Lefts[m] + g[m]
        BY <2>1, <3>1, <3>2, SumChange
      <3>4. SumFunctionOnSet(Lefts, At(s, p)) \in Int
        BY <2>1, <3>2, SumType
      <3>5. level[s][p] = SumFunctionOnSet(Lefts, At(s, p))
        BY LevelAt DEF LevelInv
      <3>6. LevelPart(c, x) = Lefts[m] - g[m] /\ Lefts[m] \in Nat /\ g[m] \in Nat
        <4>1. Lefts[m] \in Nat /\ Lefts'[m] \in Nat /\ Lefts'[m] = Lefts[m] - LevelPart(c, x)
          BY <1>7
        <4>2. LevelPart(c, x) \in Int
          <5>1. Remaining(order[m]) \in Nat /\ Remaining(order'[m]) \in Nat
            BY <1>1, <1>4 DEF Remaining, OrderRecord
          <5>2. x.amount \in Nat /\ x.funds \in Nat
            <6>1. SoundMatch(x, IF order[taker].side = "ASK" THEN order[taker].remainingAmount
                                                     ELSE order[m].remainingAmount,
                        IF order[taker].side = "ASK" THEN order[m].remainingFunds
                                                     ELSE order[taker].remainingFunds, q)
              BY <1>1, MatchedSound DEF x
            <6> QED
              BY <6>1 DEF SoundMatch
          <5> QED
            BY <5>2 DEF LevelPart
        <4> QED
          BY <4>1, <4>2 DEF g
      <3>7. level'[s][p] = level[s][p] - LevelPart(c, x)
        BY <1>5, <2>2
      <3>8. level'[s][p] = SumFunctionOnSet(g, At(s, p))
        BY <3>3, <3>4, <3>5, <3>6, <3>7
      <3> QED
        BY <2>1, <3>8 DEF g
    <2>3. CASE ~ (s = c /\ p = q)
      <3>1. m \notin At(s, p)
        BY <1>1, <1>2, <2>3 DEF At, BookInv, PageOK
      <3> DEFINE g == Lefts'
      <3>2. \A y \in At(s, p) : Lefts[y] = g[y]
        BY <1>7, <2>1, <3>1
      <3> HIDE DEF g
      <3>3. SumFunctionOnSet(Lefts, At(s, p)) = SumFunctionOnSet(g, At(s, p))
        BY <2>1, <3>2, SumSame
      <3> QED
        BY <1>5, <2>1, <2>3, <3>3, LevelAt DEF g, LevelInv
    <2> QED
      BY <2>2, <2>3
  <1> QED
    BY <1>9, <1>10 DEF LevelInv, LevelExact, Lefts, At

\* Settle removes used up orders, which count for nothing, and puts the taker,
\* whose rest its level gains.
LEMMA LevelSettle ==
    ASSUME BookInv, LevelInv, Settle
    PROVE  LevelInv'
  <1> DEFINE r == order[taker]
  <1>0. PICK c \in Side, oc \in Side : c = r.side /\ oc = Opposite(c)
    BY DEF Settle, BookInv, TypeOK, OrderRecord
  <1>1. /\ taker # NoOrder /\ order' = order
        /\ page' = [page EXCEPT ![oc] = @ \ Spent,
                                ![c] = IF Rests(r) THEN @ \cup {taker} ELSE @]
        /\ level' = IF Rests(r) THEN [level EXCEPT ![c][r.price] = @ + Remaining(r)] ELSE level
    BY <1>0 DEF Settle
  <1>2. /\ taker \in Order /\ r \in OrderRecord /\ c \in Side /\ oc \in Side /\ oc # c
        /\ \A s \in Side : s = c \/ s = oc
        /\ Rests(r) => r.price \in Price
    BY <1>0, <1>1 DEF BookInv, TypeOK, OrdersOK, OrderRecord, WellFormed, Rests
  <1>3. /\ page'[oc] = page[oc] \ Spent
        /\ page'[c] = IF Rests(r) THEN page[c] \cup {taker} ELSE page[c]
    BY <1>1, <1>2 DEF BookInv, TypeOK
  <1>4. \A s \in Side : taker \notin page[s] /\ page[s] \subseteq Order
    BY <1>1, <1>2 DEF BookInv, TypeOK, PageOK
  <1>5. PagesFinite'
    <2>1. IsFiniteSet(page[oc] \ Spent) /\ IsFiniteSet(page[c] \cup {taker})
          /\ IsFiniteSet(page[c])
      BY <1>2, FS_Subset, FS_AddElement DEF LevelInv, PagesFinite
    <2> QED
      BY <1>2, <1>3, <2>1 DEF PagesFinite
  <1>6. Lefts' = Lefts /\ \A o \in Order : Lefts[o] \in Nat
    BY <1>1, LeftsAreNat DEF Lefts, BookInv
  <1>7. ASSUME NEW p \in Price
        PROVE  level'[oc][p] = SumFunctionOnSet(Lefts', At(oc, p)')
    <2>1. level'[oc][p] = level[oc][p]
      BY <1>1, <1>2 DEF BookInv, TypeOK
    <2>2. At(oc, p)' = At(oc, p) \ Spent
      BY <1>1, <1>3 DEF At
    <2>3. \A y \in At(oc, p) \cap Spent : Lefts[y] = 0
      BY <1>2, <1>4 DEF Spent, Filled, Lefts, At
    <2>4. IsFiniteSet(At(oc, p)) /\ At(oc, p) \subseteq Order
      BY <1>2, <1>4, FS_Subset DEF LevelInv, PagesFinite, At
    <2>5. SumFunctionOnSet(Lefts, At(oc, p)) = SumFunctionOnSet(Lefts, At(oc, p) \ Spent)
      BY <1>6, <2>3, <2>4, SumSubset
    <2> QED
      BY <1>2, <1>6, <2>1, <2>2, <2>5, LevelAt DEF LevelInv
  <1>8. ASSUME NEW p \in Price
        PROVE  level'[c][p] = SumFunctionOnSet(Lefts', At(c, p)')
    <2>1. IsFiniteSet(At(c, p)) /\ At(c, p) \subseteq Order /\ taker \notin At(c, p)
      BY <1>2, <1>4, FS_Subset DEF LevelInv, PagesFinite, At
    <2>2. CASE Rests(r) /\ p = r.price
      <3>1. At(c, p)' = At(c, p) \cup {taker}
        <4>1. page'[c] = page[c] \cup {taker} /\ order'[taker].price = p
          BY <1>1, <1>3, <2>2
        <4> QED
          BY <1>1, <4>1 DEF At
      <3>2. level'[c][p] = level[c][p] + Lefts[taker]
        BY <1>1, <1>2, <2>2 DEF BookInv, TypeOK, Lefts
      <3>3. SumFunctionOnSet(Lefts, At(c, p) \cup {taker}) =
              SumFunctionOnSet(Lefts, At(c, p)) + Lefts[taker]
        <4>1. \A y \in At(c, p) \cup {taker} : Lefts[y] \in Int
          BY <1>2, <1>6, <2>1
        <4> QED
          BY <2>1, <4>1, SumAdd
      <3> QED
        BY <1>2, <1>6, <3>1, <3>2, <3>3, LevelAt DEF LevelInv
    <2>3. CASE ~ (Rests(r) /\ p = r.price)
      <3>1. At(c, p)' = At(c, p)
        BY <1>1, <1>3, <2>3 DEF At
      <3>2. level'[c][p] = level[c][p]
        BY <1>1, <1>2, <2>3 DEF BookInv, TypeOK
      <3> QED
        BY <1>2, <1>6, <3>1, <3>2, LevelAt DEF LevelInv
    <2> QED
      BY <2>2, <2>3
  <1>9. \A s \in Side, p \in Price : level'[s][p] = SumFunctionOnSet(Lefts', At(s, p)')
    BY <1>2, <1>7, <1>8
  <1> QED
    BY <1>5, <1>9 DEF LevelInv, LevelExact, Lefts, At

LEMMA LevelStep == BookInv /\ LevelInv /\ [Next]_vars => LevelInv'
  <1> SUFFICES ASSUME BookInv, LevelInv, [Next]_vars PROVE LevelInv'
    OBVIOUS
  <1>1. CASE \E o \in Order, action \in Action : Listed(o, action) /\ AttachOrderEvent(o, action)
    BY <1>1, LevelKept DEF AttachOrderEvent
  <1>2. CASE \E o \in Order : SkipCreate(o) \/ SkipCancel(o)
    BY <1>2, LevelKept DEF SkipCreate, SkipCancel
  <1>3. CASE \E o \in Order : BeginCreate(o, order[o])
    BY <1>3, SameStruct, LevelKept DEF BeginCreate
  <1>4. CASE \E o \in Order : CancelOrder(o)
    BY <1>4, LevelCancel
  <1>5. CASE \E m \in Order : Match(m)
    BY <1>5, LevelMatch
  <1>6. CASE Settle
    BY <1>6, LevelSettle
  <1>7. CASE UNCHANGED vars
    BY <1>7, LevelKept DEF vars
  <1> QED
    BY <1>1, <1>2, <1>3, <1>4, <1>5, <1>6, <1>7 DEF Next, Run

\* The total of every price level, which Put, Remove and Iterate keep beside the
\* orders (page.go), is the sum of what remains of the orders that rest there.
THEOREM LevelsAreExact == Spec => []LevelExact
  <1>1. Init => LevelInv
    BY LevelInit
  <1>2. IInv /\ LevelInv /\ [Next]_vars => LevelInv'
    BY LevelStep DEF IInv
  <1>3. LevelInv => LevelExact
    BY DEF LevelInv
  <1> QED
    BY <1>1, <1>2, <1>3, Invariance, PTL DEF Spec

-----------------------------------------------------------------------------
(* Exchange.                                                               *)

USE DEF State

\* The keys of table actions.
LEMMA Keys ==
    /\ \A o \in Order : <<o, "CREATE">> \in Key /\ <<o, "CANCEL">> \in Key
    /\ \A x \in Key : /\ x = <<x[1], x[2]>> /\ x[1] \in Order
                      /\ x[2] = "CREATE" \/ x[2] = "CANCEL"
  BY DEF Key

-----------------------------------------------------------------------------
(* The inductive invariant, action by action.                              *)

LEMMA ExchangeInitInvariant == ExchangeInit => ExchangeIInv
  <1> SUFFICES ASSUME ExchangeInit PROVE ExchangeIInv
    OBVIOUS
  <1>1. Init /\ BookInv /\ TypeOK
    BY InitInvariant DEF ExchangeInit, IInv, BookInv
  <1>2. ExchangeTypeOK
    <2>1. row \in [Order -> OrderRecord] /\ events = <<>>
      BY <1>1 DEF ExchangeInit, Init, TypeOK
    <2>2. carried \in Seq(OrderRecord) /\ Len(carried) = Len(events)
      BY <2>1 DEF ExchangeInit
    <2>3. /\ restarts \in 0..MaxRestarts
          /\ unacked \in [trades : 0..MaxUnackedTrades, cancels : 0..MaxUnackedCancels]
      BY BoundAssumption DEF ExchangeInit
    <2> QED
      BY <1>1, <2>1, <2>2, <2>3 DEF ExchangeInit, ExchangeTypeOK
  <1>3. RowsOK /\ ClockOK /\ ActionsMatchState
    <2>1. {x \in Key : actions[x] # 0} = {}
      BY DEF ExchangeInit
    <2>2. \A x \in Key : actions[x] = 0
      BY DEF ExchangeInit
    <2>3. RowsOK /\ ClockOK
      <3>1. IsFiniteSet({x \in Key : actions[x] # 0})
        BY <2>1, FS_EmptySet
      <3>2. clock = 0 /\ row = order
        BY DEF ExchangeInit
      <3> QED
        BY <2>2, <3>1, <3>2 DEF RowsOK, ClockOK
    <2>4. \A o \in Order : /\ actions[<<o, "CREATE">>] = 0 /\ actions[<<o, "CANCEL">>] = 0
                          /\ state[o] # "PENDING"
      BY <2>2, Keys DEF ExchangeInit
    <2> QED
      BY <2>3, <2>4 DEF ActionsMatchState
  <1>4. BatchOK /\ NothingSkipped /\ FifoOK
    <2>1. /\ \A o \in Order : actions[<<o, "CREATE">>] = 0 /\ state[o] # "PENDING"
          /\ checkpoint = 0 /\ clock = 0 /\ batch = {}
      BY Keys DEF ExchangeInit
    <2> QED
      BY <2>1 DEF BatchOK, NothingSkipped, FifoOK, Older
  <1>5. CarriedOK
    BY <1>1 DEF Init, CarriedOK
  <1>6. trades = {} /\ refunds = [o \in Order |-> 0] /\ createIndex = [o \in Order |-> 0]
    BY <1>1 DEF Init
  <1>7. HistoryOK /\ StateOK /\ StuckOnlyIfUnacked
    BY <1>6, FS_EmptySet DEF ExchangeInit, HistoryOK, StateOK, StuckOnlyIfUnacked
  <1>8. TradesExplainRows
    <2>1. \A o \in Order : row[o].filledAmount = 0 /\ row[o].filledFunds = 0
      BY <1>1, PlacementFacts DEF ExchangeInit, Init
    <2>2. \A o \in Order : {t \in trades : o \in {t.taker, t.maker}} = {}
      BY <1>6
    <2> QED
      BY <2>1, <2>2, SumEmpty DEF TradesExplainRows
  <1> QED
    BY <1>1, <1>2, <1>3, <1>4, <1>5, <1>7, <1>8 DEF ExchangeIInv

\* The book alone.
LEMMA BookUnchanged ==
    ASSUME BookInv, UNCHANGED book
    PROVE  BookInv'
  <1>1. StateInv' /\ events' = events
    BY StateInvUnchanged DEF book, vars, BookInv, StateInv
  <1>2. TypeOK' /\ EventsOK'
    BY DEF book, vars, BookInv, TypeOK, EventsOK
  <1> QED
    BY <1>1, <1>2 DEF BookInv, StateInv

\* Ingest accepts an order: its row appears with the youngest action of all.
LEMMA CreateOrderActionStep ==
    ASSUME ExchangeIInv, NEW n \in Order, CreateOrderAction(n)
    PROVE  ExchangeIInv'
  <1>1. /\ state[n] = "ABSENT"
        /\ state' = [state EXCEPT ![n] = "PENDING"]
        /\ clock' = clock + 1
        /\ actions' = [actions EXCEPT ![<<n, "CREATE">>] = clock + 1]
        /\ UNCHANGED <<book, row, refundRow, poller, carried, faults>>
    BY DEF CreateOrderAction
  <1> DEFINE k == <<n, "CREATE">>
  <1>2. /\ clock \in Nat /\ actions \in [Key -> Nat] /\ k \in Key
        /\ state \in [Order -> State]
    BY Keys DEF ExchangeIInv, ExchangeTypeOK
  <1>3. /\ actions'[k] = clock + 1 /\ actions' \in [Key -> Nat]
        /\ \A x \in Key \ {k} : actions'[x] = actions[x]
        /\ \A x \in Key : actions[x] <= clock
    BY <1>1, <1>2 DEF ExchangeIInv, ClockOK
  <1>4. /\ state'[n] = "PENDING" /\ \A o \in Order \ {n} : state'[o] = state[o]
        /\ state' \in [Order -> State]
    BY <1>1, <1>2
  <1>5. /\ UNCHANGED <<order, createIndex, events, trades, refunds, row, refundRow,
                       checkpoint, batch, carried, conflict, recommit, restarts, unacked>>
        /\ BookInv' /\ TypeOK'
    BY <1>1, BookUnchanged DEF ExchangeIInv, BookInv, book, vars, poller, faults
  <1>6. createIndex[n] = 0
    BY <1>1 DEF ExchangeIInv, StateOK
  <1>7. ExchangeTypeOK'
    BY <1>1, <1>2, <1>3, <1>4, <1>5 DEF ExchangeIInv, ExchangeTypeOK
  <1>8. ClockOK'
    <2>1. {x \in Key : actions'[x] # 0} \subseteq {x \in Key : actions[x] # 0} \cup {k}
      BY <1>2, <1>3
    <2>2. IsFiniteSet({x \in Key : actions[x] # 0} \cup {k})
      BY FS_AddElement DEF ExchangeIInv, ClockOK
    <2>3. IsFiniteSet({x \in Key : actions'[x] # 0})
      BY <2>1, <2>2, FS_Subset
    <2>4. \A x \in Key : actions'[x] <= clock'
      BY <1>1, <1>2, <1>3
    <2>5. \A x, y \in Key : actions'[x] = actions'[y] /\ actions'[x] # 0 => x = y
      <3> SUFFICES ASSUME NEW x \in Key, NEW y \in Key, actions'[x] = actions'[y],
                          actions'[x] # 0, x # y
                   PROVE  FALSE
        OBVIOUS
      <3>1. actions[x] <= clock /\ actions[y] <= clock /\ actions[x] \in Nat /\ actions[y] \in Nat
        BY <1>2, <1>3
      <3>2. x # k /\ y # k
        BY <1>2, <1>3, <3>1
      <3> QED
        BY <1>3, <3>2 DEF ExchangeIInv, ClockOK
    <2> QED
      BY <2>3, <2>4, <2>5 DEF ClockOK
  <1>9. \A o \in Order \ {n} : /\ actions'[<<o, "CREATE">>] = actions[<<o, "CREATE">>]
                               /\ actions'[<<o, "CANCEL">>] = actions[<<o, "CANCEL">>]
    BY <1>3, Keys
  <1>10. ActionsMatchState'
    <2> SUFFICES ASSUME NEW o \in Order
                 PROVE  /\ actions'[<<o, "CREATE">>] # 0 <=> state'[o] = "PENDING"
                        /\ actions'[<<o, "CANCEL">>] # 0 =>
                             /\ row'[o].type = "LIMIT"
                             /\ actions'[<<o, "CREATE">>] \in 1..(actions'[<<o, "CANCEL">>] - 1)
      BY DEF ActionsMatchState
    <2>1. CASE o = n
      <3>1. actions[<<n, "CREATE">>] = 0
        BY <1>1 DEF ExchangeIInv, ActionsMatchState
      <3>2. actions[<<n, "CANCEL">>] = 0
        BY <3>1 DEF ExchangeIInv, ActionsMatchState
      <3>3. actions'[<<n, "CANCEL">>] = 0
        BY <1>3, <3>2, Keys
      <3>4. actions'[<<n, "CREATE">>] # 0
        BY <1>2, <1>3
      <3> QED
        BY <1>4, <2>1, <3>3, <3>4
    <2>2. CASE o # n
      BY <1>4, <1>5, <1>9, <2>2 DEF ExchangeIInv, ActionsMatchState
    <2> QED
      BY <2>1, <2>2
  <1>11. BatchOK'
    <2>1. checkpoint' <= clock'
      BY <1>1, <1>2, <1>5 DEF ExchangeIInv, ExchangeTypeOK, BatchOK
    <2>2. \A a \in batch : a.createdAt \in 1..clock'
      <3>1. \A a \in batch : a.createdAt \in 1..clock
        BY DEF ExchangeIInv, BatchOK
      <3>2. \A i \in 1..clock : i \in 1..(clock + 1)
        BY <1>2
      <3> QED
        BY <1>1, <3>1, <3>2
    <2>3. \A a \in batch : createIndex[a.id] = 0 =>
            /\ a.id # n
            /\ state'[a.id] = "PENDING" /\ a.order = row'[a.id]
            /\ actions'[<<a.id, a.action>>] = a.createdAt
      <3> SUFFICES ASSUME NEW a \in batch, createIndex[a.id] = 0
                   PROVE  /\ a.id # n
                          /\ state'[a.id] = "PENDING" /\ a.order = row'[a.id]
                          /\ actions'[<<a.id, a.action>>] = a.createdAt
        OBVIOUS
      <3>1. a.id \in Order /\ a.action \in Action
        BY DEF ExchangeIInv, ExchangeTypeOK
      <3>2. /\ state[a.id] = "PENDING" /\ a.order = row[a.id]
            /\ actions[<<a.id, a.action>>] = a.createdAt
        BY DEF ExchangeIInv, BatchOK
      <3>3. a.id # n
        BY <1>1, <3>2
      <3> QED
        BY <1>4, <1>5, <1>9, <3>1, <3>2, <3>3, ZenonT(40)
    <2> QED
      BY <1>5, <2>1, <2>2, <2>3 DEF ExchangeIInv, BatchOK, Attached, CreateListed
  <1>12. NothingSkipped'
    <2> SUFFICES ASSUME NEW o \in Order, actions'[<<o, "CREATE">>] # 0,
                        \/ actions'[<<o, "CREATE">>] < checkpoint
                        \/ \E a \in batch : actions'[<<o, "CREATE">>] < a.createdAt
                 PROVE  \/ Attached(o)
                        \/ \E b \in batch : /\ b.id = o /\ b.action = "CREATE"
                                            /\ b.createdAt = actions'[<<o, "CREATE">>]
      BY <1>5 DEF NothingSkipped, Attached
    <2>1. o # n
      <3>1. checkpoint \in Nat /\ checkpoint <= clock
            /\ \A a \in batch : a.createdAt \in 1..clock
        BY DEF ExchangeIInv, ExchangeTypeOK, BatchOK
      <3> QED
        BY <1>2, <1>3, <3>1
    <2> QED
      BY <1>9, <2>1 DEF ExchangeIInv, NothingSkipped
  <1>13. CarriedOK'
    <2>1. \A o \in Order : state[o] = "PENDING" => state'[o] = "PENDING"
      BY <1>1, <1>4
    <2> QED
      BY <1>5, <2>1 DEF ExchangeIInv, CarriedOK
  <1>14. FifoOK'
    <2> SUFFICES ASSUME NEW o \in Order, NEW p \in Order, Older(p, o)'
                 PROVE  /\ createIndex[o] # 0 => createIndex[p] # 0 /\ createIndex[p] < createIndex[o]
                        /\ \A i \in DOMAIN events :
                             events[i] = <<o, "CREATE">> /\ createIndex[o] = 0 =>
                               createIndex[p] # 0 \/ \E j \in 1..(i - 1) : events[j] = <<p, "CREATE">>
      BY <1>5 DEF FifoOK
    <2>1. p # n
      <3>1. actions'[<<o, "CREATE">>] <= clock + 1 /\ actions'[<<o, "CREATE">>] \in Nat
        BY <1>1, <1>3, <1>8, Keys DEF ClockOK
      <3> QED
        BY <1>2, <1>3, <3>1 DEF Older
    <2>2. CASE o # n
      <3>1. Older(p, o)
        BY <1>4, <1>9, <2>1, <2>2 DEF Older
      <3> QED
        BY <3>1 DEF ExchangeIInv, FifoOK
    <2>3. CASE o = n
      <3>1. \A i \in DOMAIN events : events[i] # <<n, "CREATE">>
        BY <1>1, <1>6 DEF ExchangeIInv, CarriedOK
      <3> QED
        BY <1>6, <2>3, <3>1
    <2> QED
      BY <2>2, <2>3
  <1>15. HistoryOK' /\ StuckOnlyIfUnacked' /\ TradesExplainRows' /\ RowsOK'
    <2>1. \A o \in Order : state[o] = "DONE" => state'[o] = "DONE"
      BY <1>1, <1>4
    <2>2. \A t \in trades : t.taker \in Order /\ t.maker \in Order
      BY DEF ExchangeIInv, BookInv, TypeOK
    <2>3. HistoryOK'
      BY <1>5, <2>1, <2>2 DEF ExchangeIInv, HistoryOK
    <2> QED
      BY <1>5, <2>3 DEF ExchangeIInv, StuckOnlyIfUnacked, TradesExplainRows, RowsOK
  <1>16. StateOK'
    BY <1>1, <1>4, <1>5 DEF ExchangeIInv, StateOK
  <1> QED
    BY <1>5, <1>7, <1>8, <1>10, <1>11, <1>12, <1>13, <1>14, <1>15, <1>16 DEF ExchangeIInv

\* Ingest accepts the cancellation of a pending LIMIT order.
LEMMA CancelOrderActionStep ==
    ASSUME ExchangeIInv, NEW n \in Order, CancelOrderAction(n)
    PROVE  ExchangeIInv'
  <1>1. /\ actions[<<n, "CANCEL">>] = 0
        /\ state[n] = "PENDING" /\ row[n].type = "LIMIT"
        /\ clock' = clock + 1
        /\ actions' = [actions EXCEPT ![<<n, "CANCEL">>] = clock + 1]
        /\ UNCHANGED <<book, row, state, refundRow, poller, carried, faults>>
    BY DEF CancelOrderAction
  <1> DEFINE k == <<n, "CANCEL">>
  <1>2. clock \in Nat /\ actions \in [Key -> Nat] /\ k \in Key
    BY Keys DEF ExchangeIInv, ExchangeTypeOK
  <1>3. /\ actions'[k] = clock + 1 /\ actions' \in [Key -> Nat]
        /\ \A x \in Key \ {k} : actions'[x] = actions[x]
        /\ \A x \in Key : actions[x] <= clock
    BY <1>1, <1>2 DEF ExchangeIInv, ClockOK
  <1>4. /\ UNCHANGED <<order, createIndex, events, trades, refunds, row, state, refundRow,
                       checkpoint, batch, carried, conflict, recommit, restarts, unacked>>
        /\ BookInv' /\ TypeOK'
    BY <1>1, BookUnchanged DEF ExchangeIInv, BookInv, book, vars, poller, faults
  <1>5. ExchangeTypeOK'
    BY <1>1, <1>2, <1>3, <1>4 DEF ExchangeIInv, ExchangeTypeOK
  <1>6. ClockOK'
    <2>1. {x \in Key : actions'[x] # 0} \subseteq {x \in Key : actions[x] # 0} \cup {k}
      BY <1>2, <1>3
    <2>2. IsFiniteSet({x \in Key : actions[x] # 0} \cup {k})
      BY FS_AddElement DEF ExchangeIInv, ClockOK
    <2>3. IsFiniteSet({x \in Key : actions'[x] # 0})
      BY <2>1, <2>2, FS_Subset
    <2>4. \A x \in Key : actions'[x] <= clock'
      BY <1>1, <1>2, <1>3
    <2>5. \A x, y \in Key : actions'[x] = actions'[y] /\ actions'[x] # 0 => x = y
      <3> SUFFICES ASSUME NEW x \in Key, NEW y \in Key, actions'[x] = actions'[y],
                          actions'[x] # 0, x # y
                   PROVE  FALSE
        OBVIOUS
      <3>1. actions[x] <= clock /\ actions[y] <= clock /\ actions[x] \in Nat /\ actions[y] \in Nat
        BY <1>2, <1>3
      <3>2. x # k /\ y # k
        BY <1>2, <1>3, <3>1
      <3> QED
        BY <1>3, <3>2 DEF ExchangeIInv, ClockOK
    <2> QED
      BY <2>3, <2>4, <2>5 DEF ClockOK
  <1>7. \A o \in Order : /\ actions'[<<o, "CREATE">>] = actions[<<o, "CREATE">>]
                         /\ o # n => actions'[<<o, "CANCEL">>] = actions[<<o, "CANCEL">>]
    BY <1>3, Keys
  <1>8. ActionsMatchState'
    <2> SUFFICES ASSUME NEW o \in Order
                 PROVE  /\ actions'[<<o, "CREATE">>] # 0 <=> state[o] = "PENDING"
                        /\ actions'[<<o, "CANCEL">>] # 0 =>
                             /\ row[o].type = "LIMIT"
                             /\ actions'[<<o, "CREATE">>] \in 1..(actions'[<<o, "CANCEL">>] - 1)
      BY <1>4 DEF ActionsMatchState
    <2>1. CASE o = n
      <3>1. actions[<<n, "CREATE">>] # 0
        BY <1>1 DEF ExchangeIInv, ActionsMatchState
      <3>2. actions[<<n, "CREATE">>] \in Nat /\ actions[<<n, "CREATE">>] <= clock
        BY <1>2, <1>3, Keys
      <3>3. actions'[<<o, "CREATE">>] = actions[<<n, "CREATE">>]
            /\ actions'[<<o, "CANCEL">>] = clock + 1
        BY <1>3, <1>7, <2>1
      <3>4. actions'[<<o, "CREATE">>] \in 1..(actions'[<<o, "CANCEL">>] - 1)
        BY <1>2, <3>1, <3>2, <3>3
      <3>5. actions'[<<o, "CREATE">>] # 0 /\ state[o] = "PENDING" /\ row[o].type = "LIMIT"
        BY <1>1, <2>1, <3>1, <3>3
      <3> QED
        BY <3>4, <3>5
    <2>2. CASE o # n
      BY <1>7, <2>2 DEF ExchangeIInv, ActionsMatchState
    <2> QED
      BY <2>1, <2>2
  <1>9. BatchOK'
    <2>1. checkpoint <= clock + 1
      BY <1>2 DEF ExchangeIInv, ExchangeTypeOK, BatchOK
    <2>2. \A a \in batch : a.createdAt \in 1..(clock + 1)
      <3>1. \A a \in batch : a.createdAt \in 1..clock
        BY DEF ExchangeIInv, BatchOK
      <3>2. \A i \in 1..clock : i \in 1..(clock + 1)
        BY <1>2
      <3> QED
        BY <3>1, <3>2
    <2>3. \A a \in batch : createIndex[a.id] = 0 =>
            actions'[<<a.id, a.action>>] = a.createdAt
      <3> SUFFICES ASSUME NEW a \in batch, createIndex[a.id] = 0
                   PROVE  actions'[<<a.id, a.action>>] = a.createdAt
        OBVIOUS
      <3>1. a.id \in Order /\ a.action \in Action /\ <<a.id, a.action>> \in Key
        BY Keys DEF ExchangeIInv, ExchangeTypeOK
      <3>2. actions[<<a.id, a.action>>] = a.createdAt /\ a.createdAt \in 1..clock
        BY DEF ExchangeIInv, BatchOK
      <3>3. <<a.id, a.action>> # k
        BY <1>1, <1>2, <3>2
      <3> QED
        BY <1>3, <3>1, <3>2, <3>3
    <2>4. checkpoint' <= clock'
      BY <1>1, <1>4, <2>1
    <2>5. \A a \in batch : a.createdAt \in 1..clock'
      BY <1>1, <2>2
    <2> QED
      BY <1>4, <2>3, <2>4, <2>5 DEF ExchangeIInv, BatchOK, Attached, CreateListed
  <1>10. NothingSkipped'
    BY <1>4, <1>7, ZenonT(40) DEF ExchangeIInv, NothingSkipped, Attached
  <1>11. CarriedOK'
    BY <1>4 DEF ExchangeIInv, CarriedOK
  <1>12. FifoOK'
    BY <1>4, <1>7, ZenonT(40) DEF ExchangeIInv, FifoOK, Older
  <1>13. HistoryOK' /\ StateOK' /\ StuckOnlyIfUnacked' /\ TradesExplainRows' /\ RowsOK'
    BY <1>4 DEF ExchangeIInv, HistoryOK, StateOK, StuckOnlyIfUnacked, TradesExplainRows, RowsOK
  <1> QED
    BY <1>4, <1>5, <1>6, <1>8, <1>9, <1>10, <1>11, <1>12, <1>13 DEF ExchangeIInv

\* What a listing reads: every older CREATE that is not attached comes with an action.
LEMMA ListPendingActionsStep ==
    ASSUME ExchangeIInv, ListPendingActions
    PROVE  ExchangeIInv'
  <1> DEFINE pending == {x \in Key : actions[x] # 0 /\ actions[x] >= checkpoint}
             before(x) == {y \in pending : actions[y] < actions[x]}
             listed == {x \in pending : Cardinality(before(x)) < ListLimit}
             entry(x) == [id |-> x[1], action |-> x[2], createdAt |-> actions[x],
                          order |-> row[x[1]]]
  <1>1. /\ batch = {}
        /\ batch' = {entry(x) : x \in listed}
        /\ UNCHANGED <<book, tables, clock, checkpoint, carried, faults>>
    BY DEF ListPendingActions
  <1>2. /\ UNCHANGED <<order, createIndex, events, trades, refunds, row, state, actions,
                       refundRow, conflict, recommit, restarts, unacked, clock, checkpoint,
                       carried>>
        /\ BookInv' /\ TypeOK'
    BY <1>1, BookUnchanged DEF ExchangeIInv, BookInv, book, vars, tables, faults
  <1>3. /\ actions \in [Key -> Nat] /\ row \in [Order -> OrderRecord] /\ clock \in Nat
        /\ checkpoint \in Nat
        /\ \A x \in Key : actions[x] <= clock
    BY DEF ExchangeIInv, ExchangeTypeOK, ClockOK
  <1>4. \A x \in listed : x \in Key /\ actions[x] # 0
    OBVIOUS
  \* What is older than something listed is listed.
  <1>5. ASSUME NEW x \in listed, NEW y \in Key, actions[y] # 0, actions[y] >= checkpoint,
               actions[y] < actions[x]
        PROVE  y \in listed
    <2>1. y \in pending /\ x \in pending
      BY <1>5
    <2>2. before(y) \subseteq before(x)
      BY <1>3, <1>5
    <2>3. IsFiniteSet(before(x))
      <3>1. before(x) \subseteq {z \in Key : actions[z] # 0}
        OBVIOUS
      <3> QED
        BY <3>1, FS_Subset DEF ExchangeIInv, ClockOK
    <2>4. Cardinality(before(y)) <= Cardinality(before(x)) /\ IsFiniteSet(before(y))
      BY <2>2, <2>3, FS_Subset
    <2>5. Cardinality(before(y)) \in Nat /\ Cardinality(before(x)) \in Nat
      BY <2>3, <2>4, FS_CardinalityType
    <2>6. Cardinality(before(x)) < ListLimit
      OBVIOUS
    <2> QED
      BY <2>1, <2>4, <2>5, <2>6, LimitAssumption
  <1> HIDE DEF pending, before, listed
  \* An order whose CREATE is older than the checkpoint or than a listed action.
  <1>6. ASSUME NEW o \in Order, actions[<<o, "CREATE">>] # 0,
               \/ actions[<<o, "CREATE">>] < checkpoint
               \/ \E x \in listed : actions[<<o, "CREATE">>] < actions[x]
        PROVE  Attached(o) \/ <<o, "CREATE">> \in listed
    <2>1. CASE actions[<<o, "CREATE">>] < checkpoint
      BY <1>1, <1>6, <2>1 DEF ExchangeIInv, NothingSkipped
    <2>2. CASE ~ actions[<<o, "CREATE">>] < checkpoint
      <3>1. PICK x \in listed : actions[<<o, "CREATE">>] < actions[x]
        BY <1>6, <2>2
      <3>2. <<o, "CREATE">> \in Key
        BY Keys
      <3>3. actions[<<o, "CREATE">>] \in Nat
        BY <1>3, <3>2
      <3>4. actions[<<o, "CREATE">>] >= checkpoint
        BY <1>3, <2>2, <3>3
      <3> QED
        BY <1>5, <1>6, <3>1, <3>2, <3>4
    <2> QED
      BY <2>1, <2>2
  <1>7. \A x \in listed : /\ entry(x).id \in Order /\ entry(x).action \in Action
                          /\ entry(x).createdAt = actions[x] /\ actions[x] \in 1..clock
                          /\ entry(x).order = row[entry(x).id]
                          /\ x = <<entry(x).id, entry(x).action>>
    <2> SUFFICES ASSUME NEW x \in listed
                 PROVE  /\ x[1] \in Order /\ x[2] \in Action /\ actions[x] \in 1..clock
                        /\ x = <<x[1], x[2]>>
      OBVIOUS
    <2>1. x \in Key /\ actions[x] # 0
      BY <1>4
    <2>2. actions[x] \in Nat /\ actions[x] <= clock
      BY <1>3, <2>1
    <2>3. actions[x] \in 1..clock
      BY <1>3, <2>1, <2>2
    <2>4. x = <<x[1], x[2]>> /\ x[1] \in Order /\ (x[2] = "CREATE" \/ x[2] = "CANCEL")
      BY <2>1 DEF Key
    <2> QED
      BY <2>3, <2>4
  <1>8. \A a \in batch' : \E x \in listed : a = entry(x)
    BY <1>1
  <1>9. \A x \in listed : entry(x) \in batch'
    BY <1>1
  <1> HIDE DEF entry
  <1>10. ExchangeTypeOK'
    <2>1. batch' \subseteq [id : Order, action : Action, createdAt : Nat, order : OrderRecord]
      <3> SUFFICES ASSUME NEW a \in batch'
                   PROVE  a \in [id : Order, action : Action, createdAt : Nat, order : OrderRecord]
        OBVIOUS
      <3>1. PICK x \in listed : a = entry(x)
        BY <1>8
      <3>2. /\ entry(x).id \in Order /\ entry(x).action \in Action /\ actions[x] \in Nat
            /\ row[entry(x).id] \in OrderRecord
        BY <1>3, <1>7
      <3>3. /\ entry(x).id = x[1] /\ entry(x).action = x[2]
            /\ a = [id |-> x[1], action |-> x[2], createdAt |-> actions[x], order |-> row[x[1]]]
        BY <3>1 DEF entry
      <3> QED
        BY <3>2, <3>3
    <2> QED
      BY <1>2, <2>1 DEF ExchangeIInv, ExchangeTypeOK
  <1>11. BatchOK'
    <2>1. ASSUME NEW a \in batch'
          PROVE  /\ a.createdAt \in 1..clock
                 /\ state[a.id] = "PENDING" /\ a.order = row[a.id]
                 /\ actions[<<a.id, a.action>>] = a.createdAt
                 /\ a.action = "CANCEL" =>
                      /\ order[a.id].type = "LIMIT"
                      /\ Attached(a.id) \/ CreateListed(a.id, a.createdAt)'
      <3>1. PICK x \in listed : a = entry(x)
        BY <1>8
      <3>2. /\ a.id \in Order /\ a.action \in Action /\ a.createdAt = actions[x]
            /\ actions[x] \in 1..clock /\ a.order = row[a.id] /\ x = <<a.id, a.action>>
        BY <1>7, <3>1
      <3>3. actions[<<a.id, a.action>>] # 0
        BY <1>4, <3>2
      <3>4. actions[<<a.id, "CREATE">>] # 0
        BY <3>2, <3>3 DEF ExchangeIInv, ActionsMatchState
      <3>5. state[a.id] = "PENDING"
        BY <3>2, <3>4 DEF ExchangeIInv, ActionsMatchState
      <3>6. ASSUME a.action = "CANCEL"
            PROVE  /\ order[a.id].type = "LIMIT"
                   /\ Attached(a.id) \/ CreateListed(a.id, a.createdAt)'
        <4>1. /\ row[a.id].type = "LIMIT"
              /\ actions[<<a.id, "CREATE">>] \in 1..(actions[<<a.id, "CANCEL">>] - 1)
          BY <3>2, <3>3, <3>6 DEF ExchangeIInv, ActionsMatchState
        <4>2. actions[<<a.id, "CREATE">>] < actions[x]
          BY <1>3, <1>4, <3>2, <3>6, <4>1
        <4>3. Attached(a.id) \/ <<a.id, "CREATE">> \in listed
          BY <1>6, <3>2, <3>4, <4>2
        <4>4. ASSUME <<a.id, "CREATE">> \in listed
              PROVE  CreateListed(a.id, a.createdAt)'
          <5> DEFINE b == entry(<<a.id, "CREATE">>)
          <5>1. b \in batch' /\ b.createdAt = actions[<<a.id, "CREATE">>]
                /\ <<a.id, "CREATE">> = <<b.id, b.action>>
            BY <1>7, <1>9, <4>4
          <5> QED
            BY <3>2, <4>2, <5>1 DEF CreateListed
        <4> QED
          BY <4>1, <4>3, <4>4 DEF ExchangeIInv, RowsOK
      <3> QED
        BY <3>2, <3>5, <3>6
    <2>2. ASSUME NEW a \in batch', NEW b \in batch', a.createdAt = b.createdAt
          PROVE  a = b
      <3>1. PICK x \in listed : a = entry(x)
        BY <1>8
      <3>2. PICK y \in listed : b = entry(y)
        BY <1>8
      <3>3. actions[x] = actions[y] /\ x \in Key /\ y \in Key /\ actions[x] # 0
        BY <1>4, <1>7, <2>2, <3>1, <3>2
      <3>4. x = y
        BY <3>3 DEF ExchangeIInv, ClockOK
      <3> QED
        BY <3>1, <3>2, <3>4
    <2>3. checkpoint' <= clock'
      BY <1>2 DEF ExchangeIInv, BatchOK
    <2>4. \A o : Attached(o)' <=> Attached(o)
      BY <1>2 DEF Attached
    <2> QED
      BY <1>2, <2>1, <2>2, <2>3, <2>4 DEF BatchOK
  <1>12. NothingSkipped'
    <2> SUFFICES ASSUME NEW o \in Order, actions[<<o, "CREATE">>] # 0,
                        \/ actions[<<o, "CREATE">>] < checkpoint
                        \/ \E a \in batch' : actions[<<o, "CREATE">>] < a.createdAt
                 PROVE  \/ Attached(o)
                        \/ \E b \in batch' : /\ b.id = o /\ b.action = "CREATE"
                                             /\ b.createdAt = actions[<<o, "CREATE">>]
      BY <1>2 DEF NothingSkipped, Attached
    <2>1. (\E a \in batch' : actions[<<o, "CREATE">>] < a.createdAt) =>
             \E x \in listed : actions[<<o, "CREATE">>] < actions[x]
      BY <1>7, <1>8
    <2>2. Attached(o) \/ <<o, "CREATE">> \in listed
      BY <1>6, <2>1
    <2>3. ASSUME <<o, "CREATE">> \in listed
          PROVE  \E b \in batch' : /\ b.id = o /\ b.action = "CREATE"
                                   /\ b.createdAt = actions[<<o, "CREATE">>]
      <3> DEFINE b == entry(<<o, "CREATE">>)
      <3>1. b \in batch' /\ b.createdAt = actions[<<o, "CREATE">>]
            /\ <<o, "CREATE">> = <<b.id, b.action>>
        BY <1>7, <1>9, <2>3
      <3> QED
        BY <3>1
    <2> QED
      BY <2>2, <2>3
  <1>13. ClockOK' /\ ActionsMatchState' /\ CarriedOK' /\ FifoOK'
    BY <1>2, ZenonT(40) DEF ExchangeIInv, ClockOK, ActionsMatchState, CarriedOK, FifoOK, Older
  <1>14. HistoryOK' /\ StateOK' /\ StuckOnlyIfUnacked' /\ TradesExplainRows' /\ RowsOK'
    BY <1>2 DEF ExchangeIInv, HistoryOK, StateOK, StuckOnlyIfUnacked, TradesExplainRows, RowsOK
  <1> QED
    BY <1>2, <1>10, <1>11, <1>12, <1>13, <1>14 DEF ExchangeIInv

\* The poller attaches the oldest action of its listing.
LEMMA EnsureProcessOrderActionStep ==
    ASSUME ExchangeIInv, NEW a \in batch, EnsureProcessOrderAction(a)
    PROVE  ExchangeIInv' /\ Listed(a.id, a.action)
  <1> DEFINE n == a.id
             l == Len(events)
  <1>1. /\ \A b \in batch : a.createdAt <= b.createdAt
        /\ AttachOrderEvent(n, a.action)
        /\ carried' = Append(carried, a.order)
        /\ batch' = batch \ {a}
        /\ checkpoint' = a.createdAt
        /\ UNCHANGED <<tables, clock, faults>>
    BY DEF EnsureProcessOrderAction, First
  <1>2. /\ UNCHANGED <<order, createIndex, trades, refunds, row, state, actions, refundRow,
                       conflict, recommit, restarts, unacked, clock>>
        /\ events' = Append(events, <<n, a.action>>)
    BY <1>1 DEF AttachOrderEvent, tables, faults
  <1>3. /\ n \in Order /\ a.action \in Action /\ a.createdAt \in Nat /\ a.order \in OrderRecord
        /\ events \in Seq(Order \X Action) /\ l \in Nat
        /\ carried \in Seq(OrderRecord) /\ Len(carried) = l
        /\ DOMAIN events = 1..l
        /\ \A b \in batch : b.createdAt \in Nat
    BY SMTT(30) DEF ExchangeIInv, ExchangeTypeOK, TypeOK
  <1>4. ~ CreateListed(n, a.createdAt)
    <2> SUFFICES ASSUME NEW b \in batch, b.createdAt < a.createdAt PROVE FALSE
      BY DEF CreateListed
    <2> QED
      BY <1>1, <1>3
  <1>5. Listed(n, a.action)
    BY <1>4 DEF Listed, ExchangeIInv, BatchOK
  <1>6. BookInv'
    BY <1>1, <1>3, <1>5, AttachStep DEF ExchangeIInv
  <1>7. /\ events' \in Seq(Order \X Action) /\ Len(events') = l + 1
        /\ DOMAIN events' = 1..(l + 1)
        /\ \A i \in 1..l : events'[i] = events[i]
        /\ events'[l + 1] = <<n, a.action>>
    <2>1. <<n, a.action>> \in Order \X Action
      BY <1>3
    <2> QED
      BY <1>2, <1>3, <2>1, AppendFacts
  <1>8. /\ carried' \in Seq(OrderRecord) /\ Len(carried') = l + 1
        /\ \A i \in 1..l : carried'[i] = carried[i]
        /\ carried'[l + 1] = a.order
    BY <1>1, <1>3, AppendFacts
  <1>9. \A o \in Order : Attached(o) => Attached(o)'
    <2> SUFFICES ASSUME NEW o \in Order, NEW i \in 1..l, events[i] = <<o, "CREATE">>
                 PROVE  Attached(o)'
      BY <1>2, <1>3 DEF Attached
    <2>1. i \in 1..(l + 1) /\ events'[i] = <<o, "CREATE">>
      BY <1>3, <1>7
    <2> QED
      BY <1>7, <2>1 DEF Attached
  <1>10. a.action = "CREATE" => Attached(n)'
    <2>1. l + 1 \in 1..(l + 1)
      BY <1>3
    <2> QED
      BY <1>7, <2>1 DEF Attached
  <1> HIDE DEF n, l
  <1>11. ExchangeTypeOK'
    <2>1. TypeOK'
      BY <1>6 DEF BookInv
    <2>2. batch' \subseteq [id : Order, action : Action, createdAt : Nat, order : OrderRecord]
      BY <1>1 DEF ExchangeIInv, ExchangeTypeOK
    <2> QED
      BY <1>1, <1>2, <1>3, <1>7, <1>8, <2>1, <2>2 DEF ExchangeIInv, ExchangeTypeOK
  <1>12. ClockOK' /\ ActionsMatchState'
    BY <1>2 DEF ExchangeIInv, ClockOK, ActionsMatchState
  <1>13. BatchOK'
    <2>1. checkpoint' <= clock'
      <3>1. a.createdAt \in 1..clock
        BY DEF ExchangeIInv, BatchOK
      <3> QED
        BY <1>1, <1>2, <3>1 DEF ExchangeIInv, ExchangeTypeOK
    <2>2. ASSUME NEW b \in batch', b.action = "CANCEL"
          PROVE  Attached(b.id)' \/ CreateListed(b.id, b.createdAt)'
      <3>1. b \in batch /\ b.id \in Order
        BY <1>1 DEF ExchangeIInv, ExchangeTypeOK
      <3>2. CASE Attached(b.id)
        BY <1>9, <3>1, <3>2
      <3>3. CASE CreateListed(b.id, b.createdAt)
        <4>1. PICK c \in batch : c.id = b.id /\ c.action = "CREATE" /\ c.createdAt < b.createdAt
          BY <3>3 DEF CreateListed
        <4>2. CASE c = a
          BY <1>10, <4>1, <4>2 DEF n
        <4>3. CASE c # a
          BY <1>1, <4>1, <4>3 DEF CreateListed
        <4> QED
          BY <4>2, <4>3
      <3> QED
        BY <2>2, <3>1, <3>2, <3>3 DEF ExchangeIInv, BatchOK
    <2> QED
      BY <1>1, <1>2, <2>1, <2>2 DEF ExchangeIInv, BatchOK
  <1>14. NothingSkipped'
    <2> SUFFICES ASSUME NEW o \in Order, actions[<<o, "CREATE">>] # 0,
                        \/ actions[<<o, "CREATE">>] < a.createdAt
                        \/ \E b \in batch' : actions[<<o, "CREATE">>] < b.createdAt
                 PROVE  \/ Attached(o)'
                        \/ \E b \in batch' : /\ b.id = o /\ b.action = "CREATE"
                                             /\ b.createdAt = actions[<<o, "CREATE">>]
      BY <1>1, <1>2 DEF NothingSkipped
    <2>1. Attached(o) \/ \E b \in batch : /\ b.id = o /\ b.action = "CREATE"
                                         /\ b.createdAt = actions[<<o, "CREATE">>]
      BY <1>1 DEF ExchangeIInv, NothingSkipped
    <2>2. CASE Attached(o)
      BY <1>9, <2>2
    <2>3. ASSUME NEW b \in batch, b.id = o, b.action = "CREATE",
                 b.createdAt = actions[<<o, "CREATE">>]
          PROVE  \/ Attached(o)'
                 \/ b \in batch'
      BY <1>1, <1>10, <2>3 DEF n
    <2> QED
      BY <2>1, <2>2, <2>3
  <1>15. CarriedOK'
    <2> SUFFICES ASSUME NEW i \in 1..(l + 1), NEW o \in Order, NEW action \in Action,
                        events'[i] = <<o, action>>, createIndex[o] = 0
                 PROVE  state[o] = "PENDING" /\ carried'[i] = row[o]
      BY <1>2, <1>7 DEF CarriedOK
    <2>1. CASE i \in 1..l
      <3>1. events[i] = <<o, action>> /\ carried'[i] = carried[i] /\ i \in DOMAIN events
        BY <1>3, <1>7, <1>8, <2>1
      <3> QED
        BY <3>1 DEF ExchangeIInv, CarriedOK
    <2>2. CASE i = l + 1
      <3>1. o = n
        BY <1>7, <2>2
      <3>2. state[n] = "PENDING" /\ a.order = row[n]
        BY <3>1 DEF n, ExchangeIInv, BatchOK
      <3> QED
        BY <1>8, <2>2, <3>1, <3>2
    <2> QED
      BY <1>3, <2>1, <2>2
  <1>16. FifoOK'
    <2> SUFFICES ASSUME NEW o \in Order, NEW p \in Order, Older(p, o),
                        NEW i \in 1..(l + 1), events'[i] = <<o, "CREATE">>, createIndex[o] = 0,
                        createIndex[p] = 0
                 PROVE  \E j \in 1..(i - 1) : events'[j] = <<p, "CREATE">>
      BY <1>2, <1>7 DEF ExchangeIInv, FifoOK, Older
    <2>1. CASE i \in 1..l
      <3>1. PICK j \in 1..(i - 1) : events[j] = <<p, "CREATE">>
        BY <1>3, <1>7, <2>1, ZenonT(40) DEF ExchangeIInv, FifoOK
      <3>2. j \in 1..l
        BY <1>3, <2>1
      <3> QED
        BY <1>7, <3>1, <3>2
    <2>2. CASE i = l + 1
      <3>1. o = n /\ a.action = "CREATE"
        BY <1>7, <2>2
      <3>2. actions[<<o, "CREATE">>] = a.createdAt
        BY <3>1 DEF n, ExchangeIInv, BatchOK
      <3>3. /\ actions[<<p, "CREATE">>] < a.createdAt
            /\ actions[<<p, "CREATE">>] # 0
        BY <3>2 DEF Older, ExchangeIInv, ActionsMatchState
      <3>4. Attached(p)
        <4>1. ASSUME NEW b \in batch, b.createdAt = actions[<<p, "CREATE">>] PROVE FALSE
          BY <1>1, <1>3, <3>3, <4>1
        <4> QED
          BY <3>3, <4>1 DEF ExchangeIInv, NothingSkipped
      <3>5. PICK j \in 1..l : events[j] = <<p, "CREATE">>
        BY <1>3, <3>4 DEF Attached
      <3>6. j \in 1..(i - 1)
        BY <1>3, <2>2
      <3> QED
        BY <1>7, <3>5, <3>6
    <2> QED
      BY <1>3, <2>1, <2>2
  <1>17. HistoryOK' /\ StateOK' /\ StuckOnlyIfUnacked' /\ TradesExplainRows' /\ RowsOK'
    BY <1>2 DEF ExchangeIInv, HistoryOK, StateOK, StuckOnlyIfUnacked, TradesExplainRows, RowsOK
  <1> QED
    BY <1>5, <1>6, <1>11, <1>12, <1>13, <1>14, <1>15, <1>16, <1>17 DEF ExchangeIInv, n

\* What the book does to the poller and the channel.  The orders D end and lose their
\* actions; k events are consumed; a new order is created from the consumed event.
LEMMA EngineKeepsPolling ==
    ASSUME ExchangeIInv, NEW D \in SUBSET Order, NEW k \in {0, 1},
           UNCHANGED <<clock, checkpoint, batch>>,
           \A o \in Order : state'[o] = IF o \in D THEN "DONE" ELSE state[o],
           actions' \in [Key -> Nat],
           \A x \in Key : actions'[x] = IF x[1] \in D THEN 0 ELSE actions[x],
           \A o \in D : createIndex[o] # 0,
           \A o \in Order : /\ order'[o].type = order[o].type /\ row'[o].type = row[o].type
                            /\ createIndex[o] = 0 => row'[o] = row[o],
           createIndex' \in [Order -> Nat],
           \A o \in Order : createIndex[o] # 0 => createIndex'[o] = createIndex[o],
           k <= Len(events), DOMAIN events' = 1..(Len(events) - k),
           \A i \in 1..(Len(events) - k) :
               events'[i] = events[i + k] /\ carried'[i] = carried[i + k],
           k = 1 => \A o \in Order : events[1] = <<o, "CREATE">> => createIndex'[o] # 0,
           \A o \in Order : createIndex[o] = 0 /\ createIndex'[o] # 0 =>
               k = 1 /\ events[1] = <<o, "CREATE">> /\ createIndex'[o] = created + 1
    PROVE  ClockOK' /\ ActionsMatchState' /\ BatchOK' /\ NothingSkipped' /\ CarriedOK' /\ FifoOK'
  <1> DEFINE l == Len(events)
  <1>1. /\ actions \in [Key -> Nat] /\ l \in Nat /\ DOMAIN events = 1..l /\ clock \in Nat
        /\ createIndex \in [Order -> Nat] /\ created \in Nat
        /\ \A a \in batch : a.id \in Order /\ a.action \in Action
    BY DEF ExchangeIInv, ExchangeTypeOK, TypeOK
  <1>2. \A o \in Order : /\ actions'[<<o, "CREATE">>] = IF o \in D THEN 0 ELSE actions[<<o, "CREATE">>]
                         /\ actions'[<<o, "CANCEL">>] = IF o \in D THEN 0 ELSE actions[<<o, "CANCEL">>]
    BY Keys
  <1>3. ClockOK'
    <2>1. {x \in Key : actions'[x] # 0} \subseteq {x \in Key : actions[x] # 0}
      OBVIOUS
    <2>2. IsFiniteSet({x \in Key : actions'[x] # 0})
      BY <2>1, FS_Subset DEF ExchangeIInv, ClockOK
    <2>3. \A x \in Key : actions'[x] <= clock
      BY <1>1 DEF ExchangeIInv, ClockOK
    <2>4. \A x, y \in Key : actions'[x] = actions'[y] /\ actions'[x] # 0 => x = y
      BY DEF ExchangeIInv, ClockOK
    <2> QED
      BY <2>2, <2>3, <2>4 DEF ClockOK
  <1>4. ActionsMatchState'
    BY <1>2, ZenonT(40) DEF ExchangeIInv, ActionsMatchState
  <1>5. \A o \in Order : createIndex'[o] = 0 => createIndex[o] = 0 /\ o \notin D
    BY <1>1
  \* A CREATE that is consumed has had its effect.
  <1>6. ASSUME NEW o \in Order, NEW i \in 1..l, events[i] = <<o, "CREATE">>, createIndex'[o] = 0
        PROVE  i - k \in 1..(l - k) /\ events'[i - k] = <<o, "CREATE">>
    <2>1. i - k \in 1..(l - k)
      BY <1>1, <1>6
    <2> QED
      BY <1>6, <2>1
  <1>7. \A o \in Order : Attached(o) => Attached(o)'
    <2> SUFFICES ASSUME NEW o \in Order, Attached(o), createIndex'[o] = 0
                 PROVE  \E j \in DOMAIN events' : events'[j] = <<o, "CREATE">>
      BY DEF Attached
    <2>1. PICK i \in 1..l : events[i] = <<o, "CREATE">>
      BY <1>1, <1>5 DEF Attached
    <2>2. i - k \in DOMAIN events' /\ events'[i - k] = <<o, "CREATE">>
      BY <1>6, <2>1
    <2> QED
      BY <2>2
  <1>8. BatchOK'
    <2>1. checkpoint' <= clock' /\ \A a \in batch' : a.createdAt \in 1..clock'
      BY DEF ExchangeIInv, BatchOK
    <2>2. ASSUME NEW a \in batch', createIndex'[a.id] = 0
          PROVE  /\ state'[a.id] = "PENDING" /\ a.order = row'[a.id]
                 /\ actions'[<<a.id, a.action>>] = a.createdAt
      <3>1. a \in batch /\ a.id \in Order /\ a.action \in Action /\ createIndex[a.id] = 0
            /\ a.id \notin D
        BY <1>1, <1>5, <2>2
      <3>2. state[a.id] = "PENDING" /\ a.order = row[a.id]
            /\ actions[<<a.id, a.action>>] = a.createdAt
        BY <3>1 DEF ExchangeIInv, BatchOK
      <3>3. actions'[<<a.id, a.action>>] = actions[<<a.id, a.action>>]
        <4>1. <<a.id, a.action>> \in Key
          BY <3>1 DEF Key
        <4> QED
          BY <3>1, <4>1
      <3>4. state'[a.id] = state[a.id] /\ row'[a.id] = row[a.id]
        BY <3>1
      <3> QED
        BY <3>2, <3>3, <3>4
    <2>3. ASSUME NEW a \in batch', a.action = "CANCEL"
          PROVE  /\ order'[a.id].type = "LIMIT"
                 /\ Attached(a.id)' \/ CreateListed(a.id, a.createdAt)'
      <3>1. a \in batch /\ a.id \in Order
        BY <1>1
      <3>2. order[a.id].type = "LIMIT" /\ (Attached(a.id) \/ CreateListed(a.id, a.createdAt))
        BY <2>3, <3>1 DEF ExchangeIInv, BatchOK
      <3>3. CreateListed(a.id, a.createdAt) => CreateListed(a.id, a.createdAt)'
        BY DEF CreateListed
      <3> QED
        BY <1>7, <3>1, <3>2, <3>3
    <2>4. \A a, b \in batch' : a.createdAt = b.createdAt => a = b
      BY DEF ExchangeIInv, BatchOK
    <2> QED
      BY <2>1, <2>2, <2>3, <2>4 DEF BatchOK
  <1>9. NothingSkipped'
    <2> SUFFICES ASSUME NEW o \in Order, actions'[<<o, "CREATE">>] # 0,
                        \/ actions'[<<o, "CREATE">>] < checkpoint
                        \/ \E a \in batch : actions'[<<o, "CREATE">>] < a.createdAt
                 PROVE  \/ Attached(o)'
                        \/ \E b \in batch : /\ b.id = o /\ b.action = "CREATE"
                                            /\ b.createdAt = actions'[<<o, "CREATE">>]
      BY DEF NothingSkipped
    <2>1. actions'[<<o, "CREATE">>] = actions[<<o, "CREATE">>]
      BY <1>2
    <2> QED
      BY <1>7, <2>1 DEF ExchangeIInv, NothingSkipped
  <1>10. CarriedOK'
    <2> SUFFICES ASSUME NEW i \in 1..(l - k), NEW o \in Order, NEW action \in Action,
                        events'[i] = <<o, action>>, createIndex'[o] = 0
                 PROVE  state'[o] = "PENDING" /\ carried'[i] = row'[o]
      BY SMTT(30) DEF CarriedOK
    <2>1. i + k \in DOMAIN events /\ events[i + k] = <<o, action>> /\ carried'[i] = carried[i + k]
      BY <1>1
    <2>2. createIndex[o] = 0 /\ o \notin D
      BY <1>5
    <2>3. state[o] = "PENDING" /\ carried[i + k] = row[o]
      BY <2>1, <2>2, ZenonT(40) DEF ExchangeIInv, CarriedOK
    <2> QED
      BY <2>1, <2>2, <2>3
  <1>11. FifoOK'
    <2> SUFFICES ASSUME NEW o \in Order, NEW p \in Order, Older(p, o)'
                 PROVE  /\ createIndex'[o] # 0 => createIndex'[p] # 0 /\ createIndex'[p] < createIndex'[o]
                        /\ \A i \in 1..(l - k) :
                             events'[i] = <<o, "CREATE">> /\ createIndex'[o] = 0 =>
                               createIndex'[p] # 0 \/ \E j \in 1..(i - 1) : events'[j] = <<p, "CREATE">>
      BY ZenonT(40) DEF FifoOK
    <2>1. Older(p, o)
      BY <1>2 DEF Older
    <2>4. \A n \in 1..l : events[n] = <<o, "CREATE">> /\ createIndex[o] = 0 =>
            createIndex[p] # 0 \/ \E j \in 1..(n - 1) : events[j] = <<p, "CREATE">>
      BY <1>1, <2>1, ZenonT(40) DEF ExchangeIInv, FifoOK
    <2>2. ASSUME createIndex'[o] # 0
          PROVE  createIndex'[p] # 0 /\ createIndex'[p] < createIndex'[o]
      <3>1. CASE createIndex[o] # 0
        <4>1. createIndex[p] # 0 /\ createIndex[p] < createIndex[o]
          BY <2>1, <3>1 DEF ExchangeIInv, FifoOK
        <4> QED
          BY <3>1, <4>1
      <3>2. CASE createIndex[o] = 0
        <4>1. k = 1 /\ events[1] = <<o, "CREATE">> /\ createIndex'[o] = created + 1 /\ 1 \in 1..l
          BY <1>1, <2>2, <3>2
        <4>2. createIndex[p] # 0
          BY <2>4, <3>2, <4>1
        <4>3. createIndex[p] <= created
          BY DEF ExchangeIInv, BookInv, IndexOK
        <4> QED
          BY <1>1, <4>1, <4>2, <4>3
      <3> QED
        BY <3>1, <3>2
    <2>3. ASSUME NEW i \in 1..(l - k), events'[i] = <<o, "CREATE">>, createIndex'[o] = 0,
                 createIndex'[p] = 0
          PROVE  \E j \in 1..(i - 1) : events'[j] = <<p, "CREATE">>
      <3>1. i + k \in 1..l /\ events[i + k] = <<o, "CREATE">> /\ createIndex[o] = 0
            /\ createIndex[p] = 0
        BY <1>1, <1>5, <2>3
      <3>2. PICK n \in 1..l : n = i + k
        BY <3>1
      <3>3. PICK j \in 1..(n - 1) : events[j] = <<p, "CREATE">>
        BY <2>4, <3>1, <3>2
      <3>4. j \in 1..l
        BY <1>1, <3>1, <3>2
      <3>5. j - k \in 1..(l - k) /\ events'[j - k] = <<p, "CREATE">>
        BY <1>6, <2>3, <3>3, <3>4
      <3>6. j - k \in 1..(i - 1)
        BY <1>1, <3>2, <3>3, <3>5, SMTT(30)
      <3> QED
        BY <3>5, <3>6
    <2> QED
      BY <2>2, <2>3
  <1> QED
    BY <1>3, <1>4, <1>8, <1>9, <1>10, <1>11

\* The same between two events.
LEMMA CallbackKeepsPolling ==
    ASSUME ExchangeIInv, NEW D \in SUBSET Order,
           UNCHANGED <<clock, checkpoint, batch, createIndex, events, carried>>,
           \A o \in Order : state'[o] = IF o \in D THEN "DONE" ELSE state[o],
           actions' \in [Key -> Nat],
           \A x \in Key : actions'[x] = IF x[1] \in D THEN 0 ELSE actions[x],
           \A o \in D : createIndex[o] # 0,
           \A o \in Order : /\ order'[o].type = order[o].type /\ row'[o].type = row[o].type
                            /\ createIndex[o] = 0 => row'[o] = row[o]
    PROVE  ClockOK' /\ ActionsMatchState' /\ BatchOK' /\ NothingSkipped' /\ CarriedOK' /\ FifoOK'
  <1>1. PICK k \in {0, 1} : k = 0
    OBVIOUS
  <1>2. Len(events) \in Nat /\ DOMAIN events = 1..Len(events) /\ createIndex \in [Order -> Nat]
    BY DEF ExchangeIInv, ExchangeTypeOK, TypeOK
  <1>3. /\ k <= Len(events) /\ DOMAIN events' = 1..(Len(events) - k)
        /\ \A i \in 1..(Len(events) - k) :
             events'[i] = events[i + k] /\ carried'[i] = carried[i + k]
    BY <1>1, <1>2
  <1>4. /\ k # 1 /\ createIndex' \in [Order -> Nat]
        /\ \A o \in Order : createIndex[o] # 0 => createIndex'[o] = createIndex[o]
        /\ \A o \in Order : ~ (createIndex[o] = 0 /\ createIndex'[o] # 0)
    BY <1>1, <1>2
  <1> QED
    BY <1>3, <1>4, EngineKeepsPolling

LEMMA PollingUnchanged ==
    ASSUME ExchangeIInv,
           UNCHANGED <<order, createIndex, events, row, state, actions, clock, checkpoint,
                       batch, carried>>
    PROVE  ClockOK' /\ ActionsMatchState' /\ BatchOK' /\ NothingSkipped' /\ CarriedOK' /\ FifoOK'
  <1>1. actions' \in [Key -> Nat]
    BY DEF ExchangeIInv, ExchangeTypeOK
  <1> QED
    BY <1>1, {} \in SUBSET Order, CallbackKeepsPolling

\* The next event and the copy that comes with it.
LEMMA Consumed ==
    ASSUME ExchangeIInv, NEW o \in Order, NEW action \in Action, Receive(o, action),
           carried' = Tail(carried)
    PROVE  /\ Len(events) \in Nat \ {0} /\ DOMAIN events' = 1..(Len(events) - 1)
           /\ Len(events') = Len(events) - 1
           /\ \A i \in 1..(Len(events) - 1) :
                events'[i] = events[i + 1] /\ carried'[i] = carried[i + 1]
           /\ events[1] = <<o, action>> /\ Head(carried) = carried[1]
           /\ carried' \in Seq(OrderRecord) /\ Len(carried') = Len(events')
           /\ taker = NoOrder
           /\ action = "CANCEL" => createIndex[o] # 0
           /\ action = "CREATE" /\ createIndex[o] = 0 =>
                state[o] = "PENDING" /\ Head(carried) = row[o]
  <1>1. /\ events \in Seq(Order \X Action) /\ events # <<>> /\ Head(events) = <<o, action>>
        /\ events' = Tail(events)
        /\ carried \in Seq(OrderRecord) /\ Len(carried) = Len(events)
    BY DEF ExchangeIInv, ExchangeTypeOK, TypeOK, Receive
  <1>2. Len(events) \in Nat \ {0} /\ events[1] = <<o, action>> /\ 1 \in DOMAIN events
    BY <1>1
  <1>3. /\ DOMAIN events' = 1..(Len(events) - 1) /\ Len(events') = Len(events) - 1
        /\ \A i \in 1..(Len(events) - 1) : events'[i] = events[i + 1]
    BY <1>1, TailFacts
  <1>4. carried # <<>>
    BY <1>1, <1>2
  <1>5. /\ carried' \in Seq(OrderRecord) /\ Len(carried') = Len(events) - 1
        /\ \A i \in 1..(Len(events) - 1) : carried'[i] = carried[i + 1]
        /\ Head(carried) = carried[1]
    BY <1>1, <1>4, TailFacts
  <1>6. taker = NoOrder /\ (action = "CANCEL" => createIndex[o] # 0)
    BY ReceiveFacts DEF ExchangeIInv, BookInv
  <1>7. createIndex[o] = 0 => state[o] = "PENDING" /\ carried[1] = row[o]
    BY <1>2 DEF ExchangeIInv, CarriedOK
  <1> QED
    BY <1>2, <1>3, <1>5, <1>6, <1>7

\* An event without effect.
LEMMA SkipEventStep ==
    ASSUME ExchangeIInv, SkipEvent
    PROVE  ExchangeIInv'
  <1>1. /\ carried' = Tail(carried)
        /\ UNCHANGED <<row, state, actions, refundRow, clock, checkpoint, batch,
                       conflict, recommit, restarts, unacked>>
    BY DEF SkipEvent, tables, poller, faults
  <1>2. PICK o \in Order, action \in Action :
          /\ Receive(o, action) /\ createIndex[o] # 0 /\ BookInv'
          /\ UNCHANGED <<order, createIndex, trades, refunds>>
    <2>1. PICK o \in Order : SkipCreate(o) \/ SkipCancel(o)
      BY DEF SkipEvent
    <2>2. CASE SkipCreate(o)
      <3>1. Receive(o, "CREATE") /\ createIndex[o] # 0
            /\ UNCHANGED <<order, createIndex, trades, refunds>>
        BY <2>2 DEF SkipCreate, Known
      <3> QED
        BY <2>2, <3>1, SkipCreateStep DEF ExchangeIInv
    <2>3. CASE SkipCancel(o)
      <3>1. Receive(o, "CANCEL") /\ UNCHANGED <<order, createIndex, trades, refunds>>
        BY <2>3 DEF SkipCancel
      <3>2. createIndex[o] # 0
        BY <1>1, <3>1, Consumed
      <3> QED
        BY <2>3, <3>1, <3>2, SkipCancelStep DEF ExchangeIInv
    <2> QED
      BY <2>1, <2>2, <2>3
  <1>3. /\ Len(events) \in Nat \ {0} /\ DOMAIN events' = 1..(Len(events) - 1)
        /\ \A i \in 1..(Len(events) - 1) :
             events'[i] = events[i + 1] /\ carried'[i] = carried[i + 1]
        /\ events[1] = <<o, action>>
        /\ carried' \in Seq(OrderRecord) /\ Len(carried') = Len(events')
    BY <1>1, <1>2, Consumed
  <1>4. ClockOK' /\ ActionsMatchState' /\ BatchOK' /\ NothingSkipped' /\ CarriedOK' /\ FifoOK'
    <2>1. 1 <= Len(events) /\ {} \in SUBSET Order
          /\ actions' \in [Key -> Nat] /\ createIndex' \in [Order -> Nat]
      BY <1>1, <1>2, <1>3, SMTT(30) DEF ExchangeIInv, ExchangeTypeOK, TypeOK
    <2>2. \A n \in Order : events[1] = <<n, "CREATE">> => createIndex'[n] # 0
      BY <1>2, <1>3
    <2> QED
      BY <1>1, <1>2, <1>3, <2>1, <2>2, EngineKeepsPolling
  <1>5. ExchangeTypeOK'
    BY <1>1, <1>2, <1>3 DEF ExchangeIInv, ExchangeTypeOK, BookInv
  <1>6. HistoryOK' /\ StateOK' /\ StuckOnlyIfUnacked' /\ TradesExplainRows' /\ RowsOK'
    BY <1>1, <1>2 DEF ExchangeIInv, HistoryOK, StateOK, StuckOnlyIfUnacked, TradesExplainRows, RowsOK
  <1> QED
    BY <1>2, <1>4, <1>5, <1>6 DEF ExchangeIInv

\* The copy that createOrder works on is fresh.
LEMMA AcceptedFacts ==
    ASSUME ExchangeIInv, NEW n \in Order, AcceptOrder(n)
    PROVE  /\ Receive(n, "CREATE") /\ createIndex[n] = 0 /\ state[n] = "PENDING"
           /\ carried' = Tail(carried)
           /\ BeginCreate(n, order[n])
           /\ BeginCreate(n, Head(carried)) /\ Head(carried) = order[n]
           /\ refunds[n] = 0
           /\ UNCHANGED <<row, state, actions, refundRow, clock, checkpoint, batch,
                          conflict, recommit, restarts, unacked>>
  <1>1. /\ BeginCreate(n, Head(carried)) /\ carried' = Tail(carried)
        /\ UNCHANGED <<row, state, actions, refundRow, clock, checkpoint, batch,
                       conflict, recommit, restarts, unacked>>
    BY DEF AcceptOrder, tables, poller, faults
  <1>2. Receive(n, "CREATE") /\ createIndex[n] = 0
    BY <1>1 DEF BeginCreate, Known
  <1>3. state[n] = "PENDING" /\ Head(carried) = order[n]
    BY <1>1, <1>2, Consumed DEF ExchangeIInv, RowsOK
  <1>4. refunds[n] = 0
    BY <1>3 DEF ExchangeIInv, StateOK
  <1> QED
    BY <1>1, <1>2, <1>3, <1>4

LEMMA AcceptOrderStep ==
    ASSUME ExchangeIInv, NEW n \in Order, AcceptOrder(n)
    PROVE  ExchangeIInv'
  <1>1. /\ Receive(n, "CREATE") /\ createIndex[n] = 0 /\ state[n] = "PENDING"
        /\ carried' = Tail(carried)
        /\ BeginCreate(n, order[n])
        /\ refunds[n] = 0
        /\ UNCHANGED <<row, state, actions, refundRow, clock, checkpoint, batch,
                       conflict, recommit, restarts, unacked>>
    BY AcceptedFacts
  <1>2. \A t \in trades : n \in {t.taker, t.maker} =>
            createIndex[t.taker] = 0 /\ createIndex[t.maker] = 0
    <2> SUFFICES ASSUME NEW t \in trades, n \in {t.taker, t.maker}
                 PROVE  createIndex[t.taker] = 0 /\ createIndex[t.maker] = 0
      OBVIOUS
    <2>1. PICK d \in {t.taker, t.maker} :
            /\ state[d] = "DONE"
            /\ \/ createIndex[t.taker] # 0 /\ createIndex[t.maker] # 0
               \/ createIndex[d] = 0
      BY DEF ExchangeIInv, HistoryOK
    <2> QED
      BY <1>1, <2>1
  <1>3. BookInv'
    BY <1>1, <1>2, BeginCreateStep DEF ExchangeIInv
  <1>4. /\ UNCHANGED <<order, trades, refunds>>
        /\ createIndex' = [createIndex EXCEPT ![n] = created + 1]
        /\ createIndex \in [Order -> Nat] /\ created \in Nat
    BY <1>1, SameStruct DEF BeginCreate, ExchangeIInv, BookInv, TypeOK
  <1>5. /\ createIndex' \in [Order -> Nat] /\ createIndex'[n] = created + 1 /\ createIndex'[n] # 0
        /\ \A o \in Order \ {n} : createIndex'[o] = createIndex[o]
    BY <1>4
  <1>6. /\ Len(events) \in Nat \ {0} /\ DOMAIN events' = 1..(Len(events) - 1)
        /\ \A i \in 1..(Len(events) - 1) :
             events'[i] = events[i + 1] /\ carried'[i] = carried[i + 1]
        /\ events[1] = <<n, "CREATE">>
        /\ carried' \in Seq(OrderRecord) /\ Len(carried') = Len(events')
    BY <1>1, Consumed
  <1>7. ClockOK' /\ ActionsMatchState' /\ BatchOK' /\ NothingSkipped' /\ CarriedOK' /\ FifoOK'
    <2>1. 1 <= Len(events) /\ {} \in SUBSET Order /\ actions' \in [Key -> Nat]
      BY <1>1, <1>6 DEF ExchangeIInv, ExchangeTypeOK
    <2>2. \A o \in Order : events[1] = <<o, "CREATE">> => createIndex'[o] # 0
      BY <1>5, <1>6
    <2>3. \A o \in Order : createIndex[o] # 0 => createIndex'[o] = createIndex[o]
      BY <1>1, <1>5
    <2>4. \A o \in Order : createIndex[o] = 0 /\ createIndex'[o] # 0 =>
            events[1] = <<o, "CREATE">> /\ createIndex'[o] = created + 1
      BY <1>5, <1>6
    <2> QED
      BY <1>1, <1>4, <1>5, <1>6, <2>1, <2>2, <2>3, <2>4, EngineKeepsPolling
  <1>8. ExchangeTypeOK'
    BY <1>1, <1>3, <1>6 DEF ExchangeIInv, ExchangeTypeOK, BookInv
  <1>9. StateOK' /\ StuckOnlyIfUnacked' /\ TradesExplainRows' /\ RowsOK'
    BY <1>1, <1>4, <1>5 DEF ExchangeIInv, StateOK, StuckOnlyIfUnacked, TradesExplainRows, RowsOK
  <1>10. HistoryOK'
    <2> SUFFICES ASSUME NEW t \in trades
                 PROVE  \E d \in {t.taker, t.maker} :
                          /\ state[d] = "DONE"
                          /\ \/ createIndex'[t.taker] # 0 /\ createIndex'[t.maker] # 0
                             \/ createIndex'[d] = 0
      BY <1>1, <1>4 DEF ExchangeIInv, HistoryOK
    <2>1. PICK d \in {t.taker, t.maker} :
            /\ state[d] = "DONE"
            /\ \/ createIndex[t.taker] # 0 /\ createIndex[t.maker] # 0
               \/ createIndex[d] = 0
      BY DEF ExchangeIInv, HistoryOK
    <2>2. t.taker \in Order /\ t.maker \in Order /\ d # n
      BY <1>1, <2>1 DEF ExchangeIInv, BookInv, TypeOK
    <2> QED
      BY <1>1, <1>5, <2>1, <2>2
  <1> QED
    BY <1>3, <1>7, <1>8, <1>9, <1>10 DEF ExchangeIInv

\* What CancelOrder writes.
LEMMA CommitFacts ==
    ASSUME ExchangeIInv, NEW o \in Order, CommitCancel(o), CancelReply(o), order' = order
    PROVE  /\ UNCHANGED row
           /\ \A n \in Order : state'[n] = IF n \in {o} THEN "DONE" ELSE state[n]
           /\ state' \in [Order -> State]
           /\ actions' \in [Key -> Nat]
           /\ \A x \in Key : actions'[x] = IF x[1] \in {o} THEN 0 ELSE actions[x]
           /\ refundRow' \subseteq Order
           /\ recommit' = NoOrder \/ recommit' = o
           /\ unacked'.trades = unacked.trades
           /\ unacked' \in [trades : 0..MaxUnackedTrades, cancels : 0..MaxUnackedCancels]
  <1>1. /\ row' = [row EXCEPT ![o] = order[o]]
        /\ state' = [state EXCEPT ![o] = "DONE"]
        /\ refundRow' = refundRow \cup {o}
        /\ actions' = [actions EXCEPT ![<<o, "CREATE">>] = 0, ![<<o, "CANCEL">>] = 0]
    BY DEF CommitCancel
  <1>2. /\ row \in [Order -> OrderRecord] /\ state \in [Order -> State]
        /\ actions \in [Key -> Nat] /\ refundRow \subseteq Order
        /\ unacked \in [trades : 0..MaxUnackedTrades, cancels : 0..MaxUnackedCancels]
        /\ order = row
    BY DEF ExchangeIInv, ExchangeTypeOK, RowsOK
  <1>3. <<o, "CREATE">> \in Key /\ <<o, "CANCEL">> \in Key
    BY Keys
  <1>4. actions' \in [Key -> Nat]
    BY <1>1, <1>2
  <1>5. ASSUME NEW x \in Key PROVE actions'[x] = IF x[1] \in {o} THEN 0 ELSE actions[x]
    <2>1. x = <<x[1], x[2]>> /\ (x[2] = "CREATE" \/ x[2] = "CANCEL")
      BY DEF Key
    <2>2. x = <<o, "CREATE">> \/ x = <<o, "CANCEL">> <=> x[1] = o
      BY <2>1
    <2> QED
      BY <1>1, <1>2, <1>3, <2>2
  <1>6. /\ unacked'.trades = unacked.trades
        /\ unacked' \in [trades : 0..MaxUnackedTrades, cancels : 0..MaxUnackedCancels]
        /\ recommit' = NoOrder \/ recommit' = o
    <2>1. CASE recommit' = NoOrder /\ UNCHANGED unacked
      BY <1>2, <2>1
    <2>2. CASE /\ unacked.cancels < MaxUnackedCancels
               /\ unacked' = [unacked EXCEPT !.cancels = @ + 1]
               /\ recommit' = o
      <3>1. unacked.cancels + 1 \in 0..MaxUnackedCancels
        BY <1>2, <2>2, BoundAssumption
      <3> QED
        BY <1>2, <2>2, <3>1
    <2> QED
      BY <2>1, <2>2 DEF CancelReply
  <1> QED
    BY <1>1, <1>2, <1>4, <1>5, <1>6

\* The refund of an order that the book gives up: memory and tables agree on it.
LEMMA RefundKeepsLedger ==
    ASSUME ExchangeIInv, NEW o \in Order, CommitCancel(o), CancelReply(o),
           UNCHANGED <<order, createIndex, trades, conflict>>,
           refunds' = [refunds EXCEPT ![o] = @ + 1], ~ Filled(order[o]), recommit = NoOrder
    PROVE  HistoryOK' /\ StateOK' /\ StuckOnlyIfUnacked' /\ TradesExplainRows' /\ RowsOK'
  <1>1. /\ UNCHANGED row
        /\ \A n \in Order : state'[n] = IF n \in {o} THEN "DONE" ELSE state[n]
        /\ recommit' = NoOrder \/ recommit' = o
        /\ unacked'.trades = unacked.trades
    BY CommitFacts
  <1>2. /\ refunds'[o] # 0 /\ \A n \in Order \ {o} : refunds'[n] = refunds[n]
    BY DEF ExchangeIInv, BookInv, TypeOK
  <1>3. \A t \in trades : t.taker \in Order /\ t.maker \in Order
    BY DEF ExchangeIInv, BookInv, TypeOK
  <1>4. HistoryOK'
    BY <1>1, <1>3 DEF ExchangeIInv, HistoryOK
  <1>5. StateOK'
    BY <1>1, <1>2 DEF ExchangeIInv, StateOK, RowsOK
  <1>6. StuckOnlyIfUnacked' /\ TradesExplainRows' /\ RowsOK'
    BY <1>1 DEF ExchangeIInv, StuckOnlyIfUnacked, TradesExplainRows, RowsOK
  <1> QED
    BY <1>4, <1>5, <1>6

\* A cancellation takes an order off the book and ends it in the tables.
LEMMA CancelRestingStep ==
    ASSUME ExchangeIInv, NEW n \in Order, CancelResting(n)
    PROVE  ExchangeIInv'
  <1>1. /\ Working /\ CancelOrder(n) /\ CommitCancel(n) /\ CancelReply(n)
        /\ carried' = Tail(carried)
        /\ UNCHANGED <<clock, checkpoint, batch, conflict, restarts>>
    BY DEF CancelResting, poller
  <1>2. /\ Receive(n, "CANCEL") /\ n \in page[order[n].side]
        /\ refunds' = [refunds EXCEPT ![n] = @ + 1]
        /\ UNCHANGED <<order, createIndex, taker, opponents, trades>>
    BY <1>1 DEF CancelOrder, OnPage
  <1>3. BookInv'
    BY <1>1, CancelOrderStep DEF ExchangeIInv
  <1>4. /\ Len(events) \in Nat \ {0} /\ DOMAIN events' = 1..(Len(events) - 1)
        /\ \A i \in 1..(Len(events) - 1) :
             events'[i] = events[i + 1] /\ carried'[i] = carried[i + 1]
        /\ events[1] = <<n, "CANCEL">>
        /\ carried' \in Seq(OrderRecord) /\ Len(carried') = Len(events')
        /\ taker = NoOrder /\ createIndex[n] # 0
    BY <1>1, <1>2, Consumed
  <1>5. ~ Filled(order[n])
    <2>1. order[n].side \in Side
      BY DEF ExchangeIInv, BookInv, TypeOK, OrderRecord
    <2> QED
      BY <1>2, <1>4, <2>1 DEF ExchangeIInv, BookInv, PageOK, TakerOK
  <1>6. /\ UNCHANGED row
        /\ \A o \in Order : state'[o] = IF o \in {n} THEN "DONE" ELSE state[o]
        /\ state' \in [Order -> State]
        /\ actions' \in [Key -> Nat]
        /\ \A x \in Key : actions'[x] = IF x[1] \in {n} THEN 0 ELSE actions[x]
        /\ refundRow' \subseteq Order
        /\ recommit' = NoOrder \/ recommit' = n
        /\ unacked' \in [trades : 0..MaxUnackedTrades, cancels : 0..MaxUnackedCancels]
    BY <1>1, <1>2, CommitFacts
  <1>7. ClockOK' /\ ActionsMatchState' /\ BatchOK' /\ NothingSkipped' /\ CarriedOK' /\ FifoOK'
    <2>1. 1 <= Len(events) /\ {n} \in SUBSET Order /\ createIndex' \in [Order -> Nat]
      BY <1>2, <1>4 DEF ExchangeIInv, ExchangeTypeOK, TypeOK
    <2>2. \A o \in Order : events[1] # <<o, "CREATE">>
      BY <1>4
    <2> QED
      BY <1>1, <1>2, <1>4, <1>6, <2>1, <2>2, EngineKeepsPolling, ZenonT(40)
  <1>8. ExchangeTypeOK'
    BY <1>1, <1>3, <1>4, <1>6 DEF ExchangeIInv, ExchangeTypeOK, BookInv
  <1>9. HistoryOK' /\ StateOK' /\ StuckOnlyIfUnacked' /\ TradesExplainRows' /\ RowsOK'
    BY <1>1, <1>2, <1>5, RefundKeepsLedger DEF Working
  <1> QED
    BY <1>3, <1>7, <1>8, <1>9 DEF ExchangeIInv

\* The end of createOrder: the rest of a MARKET order is refunded in the tables too.
LEMMA SettleTakerStep ==
    ASSUME ExchangeIInv, SettleTaker
    PROVE  ExchangeIInv'
  <1>1. /\ Working /\ Settle
        /\ UNCHANGED <<clock, checkpoint, batch, carried, conflict, restarts>>
    BY DEF SettleTaker, poller
  <1>2. /\ UNCHANGED <<order, createIndex, events, trades>> /\ taker \in Order
        /\ refunds' = IF Refundable(order[taker]) THEN [refunds EXCEPT ![taker] = @ + 1]
                                                  ELSE refunds
        /\ createIndex[taker] # 0
    BY <1>1 DEF Settle, ExchangeIInv, BookInv, TypeOK, TakerOK
  <1>3. BookInv'
    BY <1>1, SettleStep DEF ExchangeIInv
  <1>5. CASE Refundable(order[taker])
    <2>1. CommitCancel(taker) /\ CancelReply(taker) /\ ~ Filled(order[taker])
      BY <1>5 DEF SettleTaker, Refundable
    <2>2. /\ UNCHANGED row
          /\ \A o \in Order : state'[o] = IF o \in {taker} THEN "DONE" ELSE state[o]
          /\ state' \in [Order -> State]
          /\ actions' \in [Key -> Nat]
          /\ \A x \in Key : actions'[x] = IF x[1] \in {taker} THEN 0 ELSE actions[x]
          /\ refundRow' \subseteq Order
          /\ recommit' = NoOrder \/ recommit' = taker
          /\ unacked' \in [trades : 0..MaxUnackedTrades, cancels : 0..MaxUnackedCancels]
      BY <1>2, <2>1, CommitFacts
    <2>3. ClockOK' /\ ActionsMatchState' /\ BatchOK' /\ NothingSkipped' /\ CarriedOK' /\ FifoOK'
      <3>1. {taker} \in SUBSET Order
        BY <1>2
      <3> QED
        BY <1>1, <1>2, <2>2, <3>1, CallbackKeepsPolling, ZenonT(40)
    <2>4. ExchangeTypeOK'
      BY <1>1, <1>2, <1>3, <2>2 DEF ExchangeIInv, ExchangeTypeOK, BookInv
    <2>5. HistoryOK' /\ StateOK' /\ StuckOnlyIfUnacked' /\ TradesExplainRows' /\ RowsOK'
      BY <1>1, <1>2, <1>5, <2>1, RefundKeepsLedger DEF Working
    <2> QED
      BY <1>3, <2>3, <2>4, <2>5 DEF ExchangeIInv
  <1>6. CASE ~ Refundable(order[taker])
    <2>1. UNCHANGED <<refunds, row, state, actions, refundRow, recommit, unacked>>
      BY <1>2, <1>6 DEF SettleTaker, tables
    <2>2. ClockOK' /\ ActionsMatchState' /\ BatchOK' /\ NothingSkipped' /\ CarriedOK' /\ FifoOK'
      BY <1>1, <1>2, <2>1, PollingUnchanged
    <2>3. ExchangeTypeOK'
      BY <1>1, <1>2, <1>3, <2>1 DEF ExchangeIInv, ExchangeTypeOK, BookInv
    <2>4. HistoryOK' /\ StateOK' /\ StuckOnlyIfUnacked' /\ TradesExplainRows' /\ RowsOK'
      BY <1>1, <1>2, <2>1
         DEF ExchangeIInv, HistoryOK, StateOK, StuckOnlyIfUnacked, TradesExplainRows, RowsOK
    <2> QED
      BY <1>3, <2>2, <2>3, <2>4 DEF ExchangeIInv
  <1> QED
    BY <1>5, <1>6

\* CancelOrder tried again changes nothing but the transfer.
LEMMA CommitAgainFacts ==
    ASSUME ExchangeIInv, CommitAgain
    PROVE  /\ recommit \in Order /\ refunds[recommit] # 0
           /\ UNCHANGED <<book, row, state, actions, clock, checkpoint, batch, carried,
                          conflict, restarts>>
           /\ refundRow' \subseteq Order
           /\ recommit' = NoOrder \/ recommit' = recommit
           /\ unacked'.trades = unacked.trades
           /\ unacked' \in [trades : 0..MaxUnackedTrades, cancels : 0..MaxUnackedCancels]
  <1>1. /\ recommit # NoOrder /\ CommitCancel(recommit) /\ CancelReply(recommit)
        /\ UNCHANGED <<book, clock, checkpoint, batch, carried, conflict, restarts>>
    BY DEF CommitAgain, poller
  <1>2. recommit \in Order /\ refunds[recommit] # 0 /\ state[recommit] = "DONE"
    BY <1>1 DEF ExchangeIInv, ExchangeTypeOK, StateOK
  <1>3. PICK r \in Order : r = recommit
    BY <1>2
  <1>4. CommitCancel(r) /\ CancelReply(r) /\ order' = order
    BY <1>1, <1>3 DEF book, vars
  <1>5. /\ UNCHANGED row
        /\ \A n \in Order : state'[n] = IF n \in {r} THEN "DONE" ELSE state[n]
        /\ state' \in [Order -> State]
        /\ actions' \in [Key -> Nat]
        /\ \A x \in Key : actions'[x] = IF x[1] \in {r} THEN 0 ELSE actions[x]
        /\ refundRow' \subseteq Order
        /\ recommit' = NoOrder \/ recommit' = r
        /\ unacked'.trades = unacked.trades
        /\ unacked' \in [trades : 0..MaxUnackedTrades, cancels : 0..MaxUnackedCancels]
    BY <1>4, CommitFacts
  <1>6. state \in [Order -> State] /\ actions \in [Key -> Nat]
    BY DEF ExchangeIInv, ExchangeTypeOK
  <1>7. state' = state
    BY <1>2, <1>3, <1>5, <1>6
  <1>8. actions[<<r, "CREATE">>] = 0 /\ actions[<<r, "CANCEL">>] = 0
    <2>1. actions[<<r, "CREATE">>] = 0
      BY <1>2, <1>3 DEF ExchangeIInv, ActionsMatchState
    <2> QED
      BY <2>1 DEF ExchangeIInv, ActionsMatchState
  <1>9. \A x \in Key : actions'[x] = actions[x]
    <2> SUFFICES ASSUME NEW x \in Key, x[1] = r PROVE actions[x] = 0
      BY <1>5
    <2>1. x = <<x[1], x[2]>> /\ (x[2] = "CREATE" \/ x[2] = "CANCEL")
      BY DEF Key
    <2> QED
      BY <1>8, <2>1
  <1>10. actions' = actions
    BY <1>5, <1>6, <1>9
  <1> QED
    BY <1>1, <1>2, <1>3, <1>5, <1>7, <1>10

LEMMA CommitAgainStep ==
    ASSUME ExchangeIInv, CommitAgain
    PROVE  ExchangeIInv'
  <1>1. /\ recommit \in Order /\ refunds[recommit] # 0
        /\ UNCHANGED <<book, row, state, actions, clock, checkpoint, batch, carried,
                       conflict, restarts>>
        /\ refundRow' \subseteq Order
        /\ recommit' = NoOrder \/ recommit' = recommit
        /\ unacked'.trades = unacked.trades
        /\ unacked' \in [trades : 0..MaxUnackedTrades, cancels : 0..MaxUnackedCancels]
    BY CommitAgainFacts
  <1>2. /\ UNCHANGED <<order, createIndex, events, trades, refunds>> /\ BookInv' /\ TypeOK'
    BY <1>1, BookUnchanged DEF ExchangeIInv, BookInv, book, vars
  <1>3. ExchangeTypeOK'
    BY <1>1, <1>2 DEF ExchangeIInv, ExchangeTypeOK
  <1>4. ClockOK' /\ ActionsMatchState' /\ BatchOK' /\ NothingSkipped' /\ CarriedOK' /\ FifoOK'
    BY <1>1, <1>2, PollingUnchanged
  <1>5. HistoryOK' /\ StateOK' /\ StuckOnlyIfUnacked' /\ TradesExplainRows' /\ RowsOK'
    BY <1>1, <1>2
       DEF ExchangeIInv, HistoryOK, StateOK, StuckOnlyIfUnacked, TradesExplainRows, RowsOK
  <1> QED
    BY <1>2, <1>3, <1>4, <1>5 DEF ExchangeIInv

LEMMA ExpireRefundStep ==
    ASSUME ExchangeIInv, NEW n \in Order, ExpireRefund(n)
    PROVE  ExchangeIInv'
  <1>1. /\ refundRow' = refundRow \ {n}
        /\ UNCHANGED <<book, row, state, actions, clock, checkpoint, batch, carried,
                       conflict, recommit, restarts, unacked>>
    BY DEF ExpireRefund, poller, faults
  <1>2. /\ UNCHANGED <<order, createIndex, events, trades, refunds>> /\ BookInv' /\ TypeOK'
    BY <1>1, BookUnchanged DEF ExchangeIInv, BookInv, book, vars
  <1>3. ExchangeTypeOK'
    BY <1>1, <1>2 DEF ExchangeIInv, ExchangeTypeOK
  <1>4. ClockOK' /\ ActionsMatchState' /\ BatchOK' /\ NothingSkipped' /\ CarriedOK' /\ FifoOK'
    BY <1>1, <1>2, PollingUnchanged
  <1>5. HistoryOK' /\ StateOK' /\ StuckOnlyIfUnacked' /\ TradesExplainRows' /\ RowsOK'
    BY <1>1, <1>2
       DEF ExchangeIInv, HistoryOK, StateOK, StuckOnlyIfUnacked, TradesExplainRows, RowsOK
  <1> QED
    BY <1>2, <1>3, <1>4, <1>5 DEF ExchangeIInv

\* What a match adds to its trade and to its two orders.
LEMMA TradeBooked ==
    ASSUME BookInv, NEW m \in Order, Match(m)
    PROVE  LET x == Matched(order[taker], order[m])
           IN  /\ x.amount \in Nat /\ x.funds \in Nat
               /\ \A o \in {taker, m} :
                    /\ order'[o].filledAmount = order[o].filledAmount + x.amount
                    /\ order'[o].filledFunds = order[o].filledFunds + x.funds
               /\ \A o \in Order \ {taker, m} : order'[o] = order[o]
               /\ trades' = trades \cup {[taker |-> taker, maker |-> m,
                                         amount |-> x.amount, funds |-> x.funds]}
  <1> DEFINE x == Matched(order[taker], order[m])
             a == IF order[taker].side = "ASK" THEN order[taker].remainingAmount
                                               ELSE order[m].remainingAmount
             f == IF order[taker].side = "ASK" THEN order[m].remainingFunds
                                               ELSE order[taker].remainingFunds
  <1>1. /\ taker \in Order /\ m # taker
        /\ order[m].side = Opposite(order[taker].side)
        /\ order[m].price \in Nat \ {0}
        /\ order[m] \in OrderRecord /\ order[taker] \in OrderRecord
    BY MatchParties
  <1>2. SoundMatch(x, a, f, order[m].price)
    BY <1>1, MatchedSound
  <1>3. /\ order' = [order EXCEPT ![taker] = Fill(@, x), ![m] = Fill(@, x)]
        /\ trades' = trades \cup
             {[taker |-> taker, maker |-> m, amount |-> x.amount, funds |-> x.funds]}
        /\ order \in [Order -> OrderRecord]
    BY DEF Match, BookInv, TypeOK
  <1> HIDE DEF x
  <1>4. /\ a \in Nat /\ f \in Nat
        /\ x.amount \in Nat /\ x.funds \in Nat /\ x.amount <= a /\ x.funds <= f
    BY <1>1, <1>2 DEF SoundMatch, OrderRecord
  <1>5. /\ order'[taker] = Fill(order[taker], x) /\ order'[m] = Fill(order[m], x)
        /\ \A o \in Order \ {taker, m} : order'[o] = order[o]
    BY <1>1, <1>3
  <1>6. /\ Fill(order[taker], x).filledAmount = order[taker].filledAmount + x.amount
        /\ Fill(order[taker], x).filledFunds = order[taker].filledFunds + x.funds
    BY <1>1, <1>4, FillFacts DEF OrderRecord
  <1>7. /\ Fill(order[m], x).filledAmount = order[m].filledAmount + x.amount
        /\ Fill(order[m], x).filledFunds = order[m].filledFunds + x.funds
    BY <1>1, <1>4, FillFacts DEF OrderRecord
  <1>8. \A o \in {taker, m} :
            /\ order'[o].filledAmount = order[o].filledAmount + x.amount
            /\ order'[o].filledFunds = order[o].filledFunds + x.funds
    BY <1>5, <1>6, <1>7
  <1> QED
    BY <1>3, <1>4, <1>5, <1>8 DEF x

\* Transact is a match of two orders whose trade is new; both rows follow.
LEMMA TransactFacts ==
    ASSUME ExchangeIInv, NEW m \in Order, Transact(m)
    PROVE  /\ Match(m) /\ Working
           /\ ~ \E t \in trades : t.taker = taker /\ t.maker = m
           /\ UpdateOrders({taker, m}) /\ TradeReply
           /\ UNCHANGED <<refundRow, clock, checkpoint, batch, carried>>
  <1>1. ASSUME NEW t \in trades, t.taker = taker, t.maker = m, CanMatch(m), taker # NoOrder
        PROVE  FALSE
    <2> DEFINE os == Opposite(order[taker].side)
    <2>1. m \in page[os] /\ m \notin opponents
      BY <1>1 DEF CanMatch, IsNext
    <2>2. os \in Side
      BY <1>1 DEF ExchangeIInv, BookInv, TypeOK, OrderRecord
    <2> HIDE DEF os
    <2>3. createIndex[m] # 0
      BY <2>1, <2>2 DEF ExchangeIInv, BookInv, PageOK
    <2>4. createIndex[taker] # 0
      BY <1>1 DEF ExchangeIInv, BookInv, TakerOK
    <2> QED
      BY <1>1, <2>1, <2>3, <2>4 DEF ExchangeIInv, BookInv, TradesOK
  <1>2. ~ \E t \in trades : t.taker = taker /\ t.maker = m
    BY <1>1 DEF Transact
  <1> QED
    BY <1>2 DEF Transact, poller

LEMMA TransactStep ==
    ASSUME ExchangeIInv, NEW m \in Order, Transact(m)
    PROVE  ExchangeIInv'
  <1> DEFINE x == Matched(order[taker], order[m])
             tr == [taker |-> taker, maker |-> m, amount |-> x.amount, funds |-> x.funds]
             D == {o \in {taker, m} : Filled(order'[o])}
  <1>1. /\ Match(m)
        /\ ~ \E t \in trades : t.taker = taker /\ t.maker = m
        /\ UpdateOrders({taker, m}) /\ TradeReply
        /\ UNCHANGED <<refundRow, clock, checkpoint, batch, carried>>
    BY TransactFacts
  <1>2. /\ taker \in Order /\ m # taker
        /\ createIndex[m] # 0 /\ createIndex[taker] # 0
        /\ refunds[m] = 0 /\ refunds[taker] = 0
    BY <1>1, MatchParties DEF ExchangeIInv
  <1>3. /\ order' \in [Order -> OrderRecord]
        /\ \A o \in Order : order'[o].type = order[o].type
        /\ \A o \in Order : Filled(order[o]) => Filled(order'[o])
        /\ Filled(order'[m]) \/ Filled(order'[taker])
    BY <1>1, MatchEffect DEF ExchangeIInv
  <1>4. UNCHANGED <<createIndex, events, refunds>>
    BY <1>1 DEF Match
  <1>5. /\ x.amount \in Nat /\ x.funds \in Nat
        /\ \A o \in {taker, m} :
             /\ order'[o].filledAmount = order[o].filledAmount + x.amount
             /\ order'[o].filledFunds = order[o].filledFunds + x.funds
        /\ \A o \in Order \ {taker, m} : order'[o] = order[o]
        /\ trades' = trades \cup {tr}
    BY <1>1, TradeBooked DEF ExchangeIInv
  <1> HIDE DEF x
  <1>6. BookInv'
    BY <1>1, MatchStep DEF ExchangeIInv
  <1>7. /\ row \in [Order -> OrderRecord] /\ state \in [Order -> State]
        /\ actions \in [Key -> Nat] /\ row = order
    BY DEF ExchangeIInv, ExchangeTypeOK, RowsOK
  <1>8. RowsOK'
    <2>1. ASSUME NEW o \in Order PROVE row'[o] = order'[o]
      <3>1. row'[o] = IF o \in {taker, m} THEN order'[o] ELSE row[o]
        BY <1>1 DEF UpdateOrders
      <3>2. o \notin {taker, m} => order'[o] = row[o]
        BY <1>5, <1>7
      <3> QED
        BY <3>1, <3>2
    <2>2. row' = [o \in Order |-> row'[o]]
      BY <1>1 DEF UpdateOrders
    <2>3. order' = [o \in Order |-> order'[o]]
      BY <1>3
    <2> QED
      BY <2>1, <2>2, <2>3 DEF RowsOK
  <1>9. \A o \in D : o \in Order /\ createIndex[o] # 0
    BY <1>2
  <1>10. \A o \in Order : state'[o] = IF o \in D THEN "DONE" ELSE state[o]
    BY <1>1 DEF UpdateOrders
  <1>11. state' \in [Order -> State]
    BY <1>1, <1>7 DEF UpdateOrders
  <1>12. /\ actions' \in [Key -> Nat]
         /\ \A k \in Key : actions'[k] = IF k[1] \in D THEN 0 ELSE actions[k]
    <2>1. actions' = [k \in Key |-> IF k[1] \in {taker, m} /\ Filled(order'[k[1]])
                                   THEN 0 ELSE actions[k]]
      BY <1>1 DEF UpdateOrders
    <2> QED
      BY <1>7, <2>1
  <1>13. ClockOK' /\ ActionsMatchState' /\ BatchOK' /\ NothingSkipped' /\ CarriedOK' /\ FifoOK'
    <2>1. D \in SUBSET Order /\ \A o \in D : createIndex[o] # 0
      BY <1>9
    <2>2. \A o \in Order : /\ order'[o].type = order[o].type /\ row'[o].type = row[o].type
                           /\ createIndex[o] = 0 => row'[o] = row[o]
      <3> SUFFICES ASSUME NEW o \in Order
                   PROVE  /\ order'[o].type = order[o].type
                          /\ createIndex[o] = 0 => order'[o] = order[o]
        BY <1>7, <1>8 DEF RowsOK
      <3>1. order'[o].type = order[o].type
        BY <1>3
      <3>2. createIndex[o] = 0 => o \in Order \ {taker, m}
        BY <1>2
      <3> QED
        BY <1>5, <3>1, <3>2
    <2> HIDE DEF D
    <2> QED
      BY <1>1, <1>4, <1>10, <1>12, <2>1, <2>2, CallbackKeepsPolling
  <1>14. /\ conflict' \in BOOLEAN /\ UNCHANGED <<recommit, restarts>>
         /\ unacked' \in [trades : 0..MaxUnackedTrades, cancels : 0..MaxUnackedCancels]
         /\ conflict' => unacked'.trades > 0
    <2>1. unacked \in [trades : 0..MaxUnackedTrades, cancels : 0..MaxUnackedCancels]
          /\ conflict \in BOOLEAN
      BY DEF ExchangeIInv, ExchangeTypeOK
    <2>2. CASE UNCHANGED faults
      BY <2>1, <2>2 DEF faults, ExchangeIInv, StuckOnlyIfUnacked
    <2>3. CASE ~ UNCHANGED faults
      <3>1. /\ unacked.trades < MaxUnackedTrades
            /\ unacked' = [unacked EXCEPT !.trades = @ + 1]
            /\ conflict' = TRUE
            /\ UNCHANGED <<recommit, restarts>>
        BY <1>1, <2>3 DEF TradeReply
      <3>2. unacked.trades + 1 \in 0..MaxUnackedTrades /\ unacked.trades + 1 > 0
        BY <2>1, <3>1, BoundAssumption
      <3> QED
        BY <2>1, <3>1, <3>2
    <2> QED
      BY <2>2, <2>3
  <1>15. ExchangeTypeOK'
    BY <1>1, <1>3, <1>4, <1>6, <1>8, <1>11, <1>12, <1>14
       DEF ExchangeIInv, ExchangeTypeOK, BookInv, RowsOK
  <1>16. StateOK'
    <2>1. \A o \in Order : createIndex'[o] # 0 => state'[o] # "ABSENT"
      BY <1>4, <1>10 DEF ExchangeIInv, StateOK
    <2>4. \A o \in Order : /\ state[o] = "DONE" => Filled(order[o]) \/ refunds[o] # 0
                           /\ refunds[o] # 0 => state[o] = "DONE" /\ ~ Filled(order[o])
      BY <1>7 DEF ExchangeIInv, StateOK
    <2>2. ASSUME NEW o \in Order, state'[o] = "DONE"
          PROVE  Filled(order'[o]) \/ refunds'[o] # 0
      <3>1. CASE o \in D
        BY <3>1
      <3>2. CASE o \notin D
        <4>1. state[o] = "DONE"
          BY <1>10, <2>2, <3>2
        <4> QED
          BY <1>3, <1>4, <2>4, <4>1
      <3> QED
        BY <3>1, <3>2
    <2>3. ASSUME NEW o \in Order, refunds'[o] # 0
          PROVE  state'[o] = "DONE" /\ ~ Filled(order'[o])
      <3>1. refunds[o] # 0 /\ o \in Order \ {taker, m}
        BY <1>2, <1>4, <2>3
      <3>2. order'[o] = order[o]
        BY <1>5, <3>1
      <3>3. state'[o] = state[o]
        BY <1>10, <3>1
      <3>4. state[o] = "DONE" /\ ~ Filled(order[o])
        BY <2>4, <3>1
      <3> QED
        BY <3>2, <3>3, <3>4
    <2> QED
      BY <1>4, <1>8, <1>14, <2>1, <2>2, <2>3 DEF ExchangeIInv, StateOK, RowsOK
  <1>17. StuckOnlyIfUnacked'
    BY <1>14 DEF StuckOnlyIfUnacked
  <1>18. tr \notin trades /\ tr.taker = taker /\ tr.maker = m
    BY <1>1
  <1>19. HistoryOK'
    <2>1. IsFiniteSet(trades')
      BY <1>5, FS_AddElement DEF ExchangeIInv, HistoryOK
    <2>2. \A t \in trades : t.taker \in Order /\ t.maker \in Order
      BY DEF ExchangeIInv, BookInv, TypeOK
    <2>3. ASSUME NEW t \in trades
          PROVE  \E o \in {t.taker, t.maker} :
                   /\ state'[o] = "DONE"
                   /\ \/ createIndex'[t.taker] # 0 /\ createIndex'[t.maker] # 0
                      \/ createIndex'[o] = 0
      BY <1>4, <1>10, <2>2 DEF ExchangeIInv, HistoryOK
    <2>4. \E o \in {tr.taker, tr.maker} :
             /\ state'[o] = "DONE"
             /\ \/ createIndex'[tr.taker] # 0 /\ createIndex'[tr.maker] # 0
                \/ createIndex'[o] = 0
      <3>1. taker \in D \/ m \in D
        BY <1>3
      <3>2. \E o \in {taker, m} : state'[o] = "DONE"
        BY <1>2, <1>10, <3>1
      <3> QED
        BY <1>2, <1>4, <1>18, <3>2
    <2> QED
      BY <1>5, <2>1, <2>3, <2>4 DEF HistoryOK
  <1>20. TradesExplainRows'
    <2> DEFINE Mine(o) == {t \in trades : o \in {t.taker, t.maker}}
               Amounts == [t \in trades |-> t.amount]
               Funds == [t \in trades |-> t.funds]
               AmountsNow == [t \in trades' |-> t.amount]
               FundsNow == [t \in trades' |-> t.funds]
    <2> SUFFICES ASSUME NEW o \in Order
                 PROVE  /\ order'[o].filledAmount =
                             SumFunctionOnSet(AmountsNow, {t \in trades' : o \in {t.taker, t.maker}})
                        /\ order'[o].filledFunds =
                             SumFunctionOnSet(FundsNow, {t \in trades' : o \in {t.taker, t.maker}})
      BY <1>8 DEF TradesExplainRows, RowsOK
    <2>1. /\ order[o].filledAmount = SumFunctionOnSet(Amounts, Mine(o))
          /\ order[o].filledFunds = SumFunctionOnSet(Funds, Mine(o))
      BY <1>7 DEF ExchangeIInv, TradesExplainRows
    <2>2. IsFiniteSet(Mine(o))
      <3>1. Mine(o) \subseteq trades
        OBVIOUS
      <3> QED
        BY <3>1, FS_Subset DEF ExchangeIInv, HistoryOK
    <2>3. /\ \A t \in trades : t.amount \in Nat /\ t.funds \in Nat
          /\ tr.amount = x.amount /\ tr.funds = x.funds
      BY DEF ExchangeIInv, BookInv, TypeOK
    <2>4. /\ \A t \in trades : /\ AmountsNow[t] = t.amount /\ FundsNow[t] = t.funds
                               /\ Amounts[t] = t.amount /\ Funds[t] = t.funds
          /\ AmountsNow[tr] = x.amount /\ FundsNow[tr] = x.funds
      BY <1>5, <2>3
    <2>5. /\ SumFunctionOnSet(AmountsNow, Mine(o)) = SumFunctionOnSet(Amounts, Mine(o))
          /\ SumFunctionOnSet(FundsNow, Mine(o)) = SumFunctionOnSet(Funds, Mine(o))
      <3>1. /\ \A t \in Mine(o) : AmountsNow[t] = Amounts[t]
            /\ \A t \in Mine(o) : FundsNow[t] = Funds[t]
        BY <2>4
      <3> HIDE DEF Amounts, Funds, AmountsNow, FundsNow, Mine
      <3> QED
        BY <2>2, <3>1, SumSame
    <2>6. CASE o \in {taker, m}
      <3>1. {t \in trades' : o \in {t.taker, t.maker}} = Mine(o) \cup {tr}
        BY <1>5, <1>18, <2>6
      <3>2. tr \notin Mine(o)
        BY <1>18
      <3>3. /\ \A t \in Mine(o) \cup {tr} : AmountsNow[t] \in Int
            /\ \A t \in Mine(o) \cup {tr} : FundsNow[t] \in Int
        BY <1>5, <2>3, <2>4
      <3>4. /\ order'[o].filledAmount = order[o].filledAmount + x.amount
            /\ order'[o].filledFunds = order[o].filledFunds + x.funds
        BY <1>5, <2>6
      <3> HIDE DEF Amounts, Funds, AmountsNow, FundsNow, Mine, tr
      <3>5. /\ SumFunctionOnSet(AmountsNow, Mine(o) \cup {tr}) =
                 SumFunctionOnSet(AmountsNow, Mine(o)) + AmountsNow[tr]
            /\ SumFunctionOnSet(FundsNow, Mine(o) \cup {tr}) =
                 SumFunctionOnSet(FundsNow, Mine(o)) + FundsNow[tr]
        BY <2>2, <3>2, <3>3, SumAdd
      <3> QED
        BY <2>1, <2>4, <2>5, <3>1, <3>4, <3>5
    <2>7. CASE o \notin {taker, m}
      <3>1. {t \in trades' : o \in {t.taker, t.maker}} = Mine(o)
        BY <1>5, <1>18, <2>7
      <3>2. order'[o] = order[o]
        BY <1>5, <2>7
      <3> QED
        BY <2>1, <2>5, <3>1, <3>2
    <2> QED
      BY <2>6, <2>7
  <1> QED
    BY <1>6, <1>8, <1>13, <1>15, <1>16, <1>17, <1>19, <1>20 DEF ExchangeIInv

\* A new process begins with an empty book and reads everything again.
LEMMA RestartStep ==
    ASSUME ExchangeIInv, Restart
    PROVE  ExchangeIInv'
  <1>1. /\ order' = row /\ order' = order
        /\ page' = [s \in Side |-> {}]
        /\ place' = [o \in Order |-> 0]
        /\ puts' = 0
        /\ level' = [s \in Side |-> [p \in Price |-> 0]]
        /\ createIndex' = [o \in Order |-> 0]
        /\ created' = 0
        /\ cancelIndex' = {}
        /\ events' = <<>>
        /\ taker' = NoOrder
        /\ opponents' = {}
        /\ UNCHANGED <<trades, refunds>>
    BY DEF Restart, Forget, ExchangeIInv, RowsOK
  <1>2. /\ checkpoint' = 0 /\ batch' = {} /\ carried' = <<>> /\ conflict' = FALSE
        /\ recommit' = NoOrder /\ restarts < MaxRestarts /\ restarts' = restarts + 1
        /\ UNCHANGED <<row, state, actions, refundRow, clock, unacked>>
    BY DEF Restart, CheckpointAtStart, tables
  <1>3. TypeOK'
    <2>1. events' \in Seq(Order \X Action) /\ Len(events') <= EventQueueSize
      BY <1>1, QueueAssumption
    <2> QED
      BY <1>1, <2>1 DEF ExchangeIInv, BookInv, TypeOK
  <1>4. OrdersOK' /\ LimitHonoured' /\ DustOnlyAtTheEnd'
    BY <1>1 DEF ExchangeIInv, BookInv, OrdersOK, LimitHonoured, DustOnlyAtTheEnd
  <1>5. \A o \in Order : createIndex'[o] = 0
    BY <1>1
  <1>6. IndexOK' /\ WhereOK' /\ TakerOK'
    BY <1>1, <1>5 DEF IndexOK, WhereOK, TakerOK
  <1>7. PageOK' /\ PlaceOK' /\ NotCrossed' /\ CancelOK' /\ EventsOK'
    BY <1>1 DEF PageOK, PlaceOK, NotCrossed, CancelOK, EventsOK
  <1>8. RefundOK'
    <2>1. \A o \in Order : order[o].side \in Side
      BY DEF ExchangeIInv, BookInv, TypeOK, OrderRecord
    <2> QED
      BY <1>1, <2>1, NoOrderAssumption DEF ExchangeIInv, BookInv, RefundOK
  <1>9. TradesOK'
    <2>1. \A t \in trades : t.taker \in Order /\ t.maker \in Order
      BY DEF ExchangeIInv, BookInv, TypeOK
    <2> QED
      BY <1>1, <1>5, <2>1 DEF ExchangeIInv, BookInv, TradesOK
  <1>10. BookInv'
    BY <1>3, <1>4, <1>6, <1>7, <1>8, <1>9 DEF BookInv
  <1>11. ExchangeTypeOK'
    <2>1. carried' \in Seq(OrderRecord) /\ Len(carried') = Len(events')
      BY <1>1, <1>2
    <2>2. restarts' \in 0..MaxRestarts
      BY <1>2, BoundAssumption DEF ExchangeIInv, ExchangeTypeOK
    <2> QED
      BY <1>2, <1>3, <2>1, <2>2 DEF ExchangeIInv, ExchangeTypeOK
  <1>12. ClockOK' /\ ActionsMatchState' /\ RowsOK'
    BY <1>1, <1>2 DEF ExchangeIInv, ClockOK, ActionsMatchState, RowsOK
  <1>13. BatchOK' /\ NothingSkipped' /\ CarriedOK' /\ FifoOK'
    <2>1. clock \in Nat /\ actions \in [Key -> Nat] /\ DOMAIN events' = {}
      BY <1>1 DEF ExchangeIInv, ExchangeTypeOK
    <2>2. ASSUME NEW o \in Order PROVE ~ actions[<<o, "CREATE">>] < 0
      <3>1. actions[<<o, "CREATE">>] \in Nat
        BY <2>1, Keys
      <3> QED
        BY <3>1
    <2>3. BatchOK' /\ NothingSkipped'
      BY <1>2, <2>1, <2>2 DEF BatchOK, NothingSkipped
    <2>4. CarriedOK' /\ FifoOK'
      BY <1>5, <2>1 DEF CarriedOK, FifoOK
    <2> QED
      BY <2>3, <2>4
  <1>14. HistoryOK'
    <2>1. \A t \in trades : t.taker \in Order /\ t.maker \in Order
      BY DEF ExchangeIInv, BookInv, TypeOK
    <2> QED
      BY <1>1, <1>2, <1>5, <2>1 DEF ExchangeIInv, HistoryOK
  <1>15. StateOK' /\ StuckOnlyIfUnacked' /\ TradesExplainRows'
    BY <1>1, <1>2, <1>5 DEF ExchangeIInv, StateOK, StuckOnlyIfUnacked, TradesExplainRows
  <1> QED
    BY <1>10, <1>11, <1>12, <1>13, <1>14, <1>15 DEF ExchangeIInv

LEMMA ExchangeStutter ==
    ASSUME ExchangeIInv, UNCHANGED exchangeVars
    PROVE  ExchangeIInv'
  <1>1. /\ UNCHANGED <<book, row, state, actions, refundRow, clock, checkpoint, batch, carried,
                       conflict, recommit, restarts, unacked>>
        /\ UNCHANGED <<order, createIndex, events, trades, refunds>>
        /\ BookInv' /\ TypeOK'
    BY BookUnchanged DEF ExchangeIInv, BookInv, exchangeVars, book, vars, poller, faults
  <1>2. ExchangeTypeOK'
    BY <1>1 DEF ExchangeIInv, ExchangeTypeOK
  <1>3. ClockOK' /\ ActionsMatchState' /\ BatchOK' /\ NothingSkipped' /\ CarriedOK' /\ FifoOK'
    BY <1>1, PollingUnchanged
  <1>4. HistoryOK' /\ StateOK' /\ StuckOnlyIfUnacked' /\ TradesExplainRows' /\ RowsOK'
    BY <1>1 DEF ExchangeIInv, HistoryOK, StateOK, StuckOnlyIfUnacked, TradesExplainRows, RowsOK
  <1> QED
    BY <1>1, <1>2, <1>3, <1>4 DEF ExchangeIInv

LEMMA ExchangeStep == ExchangeIInv /\ [ExchangeNext]_exchangeVars => ExchangeIInv'
  <1> SUFFICES ASSUME ExchangeIInv, [ExchangeNext]_exchangeVars PROVE ExchangeIInv'
    OBVIOUS
  <1>1. CASE \E o \in Order : CreateOrderAction(o) \/ CancelOrderAction(o)
    BY <1>1, CreateOrderActionStep, CancelOrderActionStep
  <1>2. CASE PollOrderActions
    BY <1>2, ListPendingActionsStep, EnsureProcessOrderActionStep DEF PollOrderActions
  <1>3. CASE Engine
    BY <1>3, SkipEventStep, AcceptOrderStep, CancelRestingStep, TransactStep, SettleTakerStep,
       CommitAgainStep DEF Engine
  <1>4. CASE \E o \in Order : ExpireRefund(o)
    BY <1>4, ExpireRefundStep
  <1>5. CASE Restart
    BY <1>5, RestartStep
  <1>6. CASE UNCHANGED exchangeVars
    BY <1>6, ExchangeStutter
  <1> QED
    BY <1>1, <1>2, <1>3, <1>4, <1>5, <1>6 DEF ExchangeNext

-----------------------------------------------------------------------------
(* The theorems.                                                           *)

\* The inductive invariant holds in every behaviour of the exchange, crashes included.
THEOREM ExchangeInvariance == ExchangeSpec => []ExchangeIInv
  <1>1. ExchangeInit => ExchangeIInv
    BY ExchangeInitInvariant
  <1>2. ExchangeIInv /\ [ExchangeNext]_exchangeVars => ExchangeIInv'
    BY ExchangeStep
  <1> QED
    BY <1>1, <1>2, PTL DEF ExchangeSpec

\* Orders and their actions stay in step: exactly the PENDING orders have a CREATE row,
\* and a CANCEL row waits only for a PENDING LIMIT order.
THEOREM ActionsFollowState == ExchangeSpec => []ActionsMatchState
  BY ExchangeInvariance, PTL DEF ExchangeIInv

\* Transact meets a taken trade id only after a commit that was reported as an error.
THEOREM NeverStuckByItself == ExchangeSpec => []StuckOnlyIfUnacked
  BY ExchangeInvariance, PTL DEF ExchangeIInv

\* What the row of an order says is filled is the sum of the trades of the order.
THEOREM RowsAreExplained == ExchangeSpec => []TradesExplainRows
  BY ExchangeInvariance, PTL DEF ExchangeIInv

\* Every step of the exchange is for the book a step of Book, or the loss of its memory.
LEMMA EngineStep ==
    ASSUME ExchangeIInv, [ExchangeNext]_exchangeVars
    PROVE  [Next \/ Forget]_vars
  <1>1. CASE \E o \in Order : CreateOrderAction(o) \/ CancelOrderAction(o) \/ ExpireRefund(o)
    BY <1>1 DEF CreateOrderAction, CancelOrderAction, ExpireRefund, book
  <1>2. CASE ListPendingActions \/ CommitAgain
    BY <1>2 DEF ListPendingActions, CommitAgain, book
  <1>3. ASSUME NEW a \in batch, EnsureProcessOrderAction(a)
        PROVE  Next
    <2>1. a.id \in Order /\ a.action \in Action
      BY DEF ExchangeIInv, ExchangeTypeOK
    <2>2. Listed(a.id, a.action) /\ AttachOrderEvent(a.id, a.action)
      BY <1>3, EnsureProcessOrderActionStep DEF EnsureProcessOrderAction
    <2>3. PICK n \in Order, action \in Action : n = a.id /\ action = a.action
      BY <2>1
    <2> QED
      BY <2>2, <2>3 DEF Next
  <1>4. CASE SkipEvent
    BY <1>4 DEF SkipEvent, Next, Run
  <1>5. ASSUME NEW o \in Order, AcceptOrder(o) PROVE Next
    BY <1>5, AcceptedFacts DEF Next, Run
  <1>6. CASE \E o \in Order : CancelResting(o)
    BY <1>6 DEF CancelResting, Next, Run
  <1>7. ASSUME NEW m \in Order, Transact(m) PROVE Next
    BY <1>7, TransactFacts DEF Next, Run
  <1>8. CASE SettleTaker
    BY <1>8 DEF SettleTaker, Next, Run
  <1>9. CASE Restart
    BY <1>9 DEF Restart
  <1>10. CASE UNCHANGED exchangeVars
    BY <1>10 DEF exchangeVars
  <1> QED
    BY <1>1, <1>2, <1>3, <1>4, <1>5, <1>6, <1>7, <1>8, <1>9, <1>10
       DEF ExchangeNext, PollOrderActions, Engine

\* The engine is given what Book assumes: events in an order Book allows and a copy of the
\* order that is not stale.  So all that is shown above of the steps holds here too.
THEOREM EngineIsAsSpecified == ExchangeSpec => EngineAsSpecified
  <1>1. ExchangeIInv /\ [ExchangeNext]_exchangeVars => [Next \/ Forget]_vars
    BY EngineStep
  <1> QED
    BY <1>1, ExchangeInvariance, PTL DEF ExchangeSpec, EngineAsSpecified

-----------------------------------------------------------------------------
(* Priority across crashes.                                                *)

LEMMA TradesGrowInTransact ==
    ASSUME ExchangeIInv, [ExchangeNext]_exchangeVars, NEW t \in trades' \ trades
    PROVE  t.maker \in Order /\ t.taker = taker /\ Transact(t.maker)
  <1>1. CASE \E o \in Order : CreateOrderAction(o) \/ CancelOrderAction(o) \/ ExpireRefund(o)
    BY <1>1 DEF CreateOrderAction, CancelOrderAction, ExpireRefund, book, vars
  <1>2. CASE ListPendingActions \/ CommitAgain
    BY <1>2 DEF ListPendingActions, CommitAgain, book, vars
  <1>3. CASE \E a \in batch : EnsureProcessOrderAction(a)
    BY <1>3 DEF EnsureProcessOrderAction, AttachOrderEvent
  <1>4. CASE SkipEvent
    BY <1>4 DEF SkipEvent, SkipCreate, SkipCancel
  <1>5. CASE \E o \in Order : AcceptOrder(o) \/ CancelResting(o)
    BY <1>5 DEF AcceptOrder, BeginCreate, CancelResting, CancelOrder
  <1>6. ASSUME NEW m \in Order, Transact(m)
        PROVE  t.maker = m /\ t.taker = taker
    <2>1. Match(m)
      BY <1>6, TransactFacts
    <2> QED
      BY <2>1 DEF Match
  <1>7. CASE SettleTaker
    BY <1>7 DEF SettleTaker, Settle
  <1>8. CASE Restart
    BY <1>8 DEF Restart, Forget
  <1>9. CASE UNCHANGED exchangeVars
    BY <1>9 DEF exchangeVars, vars
  <1> QED
    BY <1>1, <1>2, <1>3, <1>4, <1>5, <1>6, <1>7, <1>8, <1>9
       DEF ExchangeNext, PollOrderActions, Engine

\* A created order that is neither filled nor refunded is PENDING.
LEMMA OpenIsPending ==
    ASSUME ExchangeIInv, NEW o \in Order, createIndex[o] # 0, ~ Filled(row[o]), refunds[o] = 0
    PROVE  state[o] = "PENDING"
  <1>1. state[o] \in State
    BY DEF ExchangeIInv, ExchangeTypeOK
  <1>2. state[o] # "ABSENT" /\ state[o] # "DONE"
    BY DEF ExchangeIInv, StateOK
  <1> QED
    BY <1>1, <1>2

\* An older order that the tables still show as open rests on the book.
LEMMA OlderRests ==
    ASSUME ExchangeIInv, NEW o \in Order, o = taker,
           NEW n \in Order, state[n] = "PENDING", ~ Filled(row[n]),
           actions[<<n, "CREATE">>] < actions[<<o, "CREATE">>]
    PROVE  createIndex[n] # 0 /\ n # o /\ n \in page[order[n].side]
  <1>1. /\ actions[<<n, "CREATE">>] \in Nat /\ actions[<<o, "CREATE">>] \in Nat
        /\ order = row /\ createIndex[o] # 0
    BY Keys, NoOrderAssumption
       DEF ExchangeIInv, ExchangeTypeOK, RowsOK, BookInv, TakerOK
  <1>2. state[o] = "PENDING"
    <2>1. actions[<<o, "CREATE">>] # 0
      BY <1>1
    <2> QED
      BY <2>1 DEF ExchangeIInv, ActionsMatchState
  <1>3. createIndex[n] # 0 /\ createIndex[n] < createIndex[o]
    BY <1>1, <1>2 DEF ExchangeIInv, FifoOK, Older
  <1>4. n # o
    BY <1>1
  <1>5. refunds[n] = 0
    BY DEF ExchangeIInv, StateOK
  <1> QED
    BY <1>1, <1>3, <1>4, <1>5 DEF ExchangeIInv, BookInv, WhereOK

\* Price-time priority holds in the tables, whenever the process died: no trade passes over
\* an older order with a better price, or with the same price and an earlier created_at.
THEOREM PriorityInTables == ExchangeSpec => PriorityAcrossRestarts
  <1> DEFINE A == \A t \in trades' \ trades : \A n \in Order \ {t.maker} :
                    LET m == t.maker
                    IN  /\ state[n] = "PENDING" /\ row[n].type = "LIMIT" /\ ~ Filled(row[n])
                        /\ row[n].side = row[m].side
                        /\ actions[<<n, "CREATE">>] < actions[<<t.taker, "CREATE">>]
                        => \/ Better(row[m].side, row[m].price, row[n].price)
                           \/ /\ row[m].price = row[n].price
                              /\ actions[<<m, "CREATE">>] < actions[<<n, "CREATE">>]
  <1>1. ExchangeIInv /\ [ExchangeNext]_exchangeVars => A
    <2> SUFFICES ASSUME ExchangeIInv, [ExchangeNext]_exchangeVars,
                        NEW t \in trades' \ trades, NEW n \in Order \ {t.maker},
                        state[n] = "PENDING", ~ Filled(row[n]),
                        row[n].side = row[t.maker].side,
                        actions[<<n, "CREATE">>] < actions[<<t.taker, "CREATE">>]
                 PROVE  \/ Better(row[t.maker].side, row[t.maker].price, row[n].price)
                        \/ /\ row[t.maker].price = row[n].price
                           /\ actions[<<t.maker, "CREATE">>] < actions[<<n, "CREATE">>]
      OBVIOUS
    <2>1. t.maker \in Order /\ t.taker = taker /\ Transact(t.maker)
      BY TradesGrowInTransact
    <2>2. PICK m \in Order : m = t.maker
      BY <2>1
    <2>3. Match(m) /\ order = row
      BY <2>1, <2>2, TransactFacts DEF ExchangeIInv, RowsOK
    <2>4. /\ taker \in Order
          /\ m \in page[order[m].side] /\ m \notin opponents
          /\ order[m].side = Opposite(order[taker].side)
          /\ ~ Filled(order[m])
          /\ opponents # {} => ~ Filled(order[taker])
          /\ createIndex[m] # 0 /\ refunds[m] = 0
      BY <2>3, MatchParties DEF ExchangeIInv
    <2>5. PICK o \in Order : o = taker
      BY <2>4
    <2>6. createIndex[n] # 0 /\ n \in page[order[n].side]
      BY <2>1, <2>5, OlderRests
    <2>7. n \notin opponents
      BY <2>3, <2>4 DEF ExchangeIInv, BookInv, TakerOK
    <2>8. Ahead(m, n)
      BY <2>2, <2>3, <2>4, <2>6, <2>7 DEF Match, CanMatch, IsNext
    <2>9. CASE order[m].price = order[n].price /\ place[m] < place[n]
      <3>1. /\ createIndex[m] \in Nat /\ createIndex[n] \in Nat
            /\ place[m] \in Nat /\ place[n] \in Nat
            /\ actions[<<m, "CREATE">>] \in Nat /\ actions[<<n, "CREATE">>] \in Nat
            /\ <<m, "CREATE">> \in Key /\ <<n, "CREATE">> \in Key
        BY Keys DEF ExchangeIInv, ExchangeTypeOK, TypeOK
      <3>2. order[m].side \in Side
        BY DEF ExchangeIInv, ExchangeTypeOK, TypeOK, OrderRecord
      <3>3. ~ createIndex[n] < createIndex[m]
        BY <2>2, <2>3, <2>4, <2>6, <2>9, <3>1, <3>2 DEF ExchangeIInv, BookInv, PlaceOK
      <3>4. state[m] = "PENDING"
        BY <2>3, <2>4, OpenIsPending
      <3>5. ~ actions[<<n, "CREATE">>] < actions[<<m, "CREATE">>]
        BY <2>4, <3>3, <3>4 DEF ExchangeIInv, FifoOK, Older
      <3>6. actions[<<m, "CREATE">>] # 0
        BY <3>4 DEF ExchangeIInv, ActionsMatchState
      <3>7. actions[<<m, "CREATE">>] # actions[<<n, "CREATE">>]
        <4>1. <<m, "CREATE">> # <<n, "CREATE">>
          BY <2>2
        <4> QED
          BY <3>1, <3>6, <4>1 DEF ExchangeIInv, ClockOK
      <3>8. actions[<<m, "CREATE">>] < actions[<<n, "CREATE">>]
        BY <3>1, <3>5, <3>7
      <3> QED
        BY <2>2, <2>3, <2>9, <3>8
    <2> QED
      BY <2>2, <2>3, <2>8, <2>9 DEF Ahead
  <1>2. ExchangeIInv /\ [ExchangeNext]_exchangeVars => [A]_exchangeVars
    BY <1>1
  <1> QED
    BY <1>2, ExchangeInvariance, PTL DEF ExchangeSpec, PriorityAcrossRestarts

-----------------------------------------------------------------------------
(* The tables implement OrderLifecycle.                                    *)

LEMMA NothingVisibleInTables ==
    ASSUME \A o \in Order : RowPhase(o)' = RowPhase(o) /\ Remaining(row'[o]) = Remaining(row[o])
    PROVE  /\ [o \in Order |-> RowPhase(o)]' = [o \in Order |-> RowPhase(o)]
           /\ [o \in Order |-> Remaining(row[o])]' = [o \in Order |-> Remaining(row[o])]
  OBVIOUS

LEMMA TablesInit == ExchangeInit => RowContract!Init
  <1> SUFFICES ASSUME ExchangeInit PROVE RowContract!Init
    OBVIOUS
  <1>1. \A o \in Order : RowPhase(o) = "new"
    BY DEF ExchangeInit, RowPhase
  <1>2. \A o \in Order : Remaining(row[o]) \in Nat
    BY ExchangeInitInvariant DEF ExchangeIInv, ExchangeTypeOK, OrderRecord, Remaining
  <1> QED
    BY <1>1, <1>2 DEF RowContract!Init

\* The commit of a refund, seen by a client.
LEMMA TablesRefund ==
    ASSUME ExchangeIInv, NEW o \in Order, CommitCancel(o), CancelReply(o), order' = order,
           createIndex[o] # 0, refunds[o] = 0, ~ Filled(order[o])
    PROVE  RowContract!Refund(o)
  <1>1. /\ UNCHANGED row /\ row = order
        /\ \A n \in Order : state'[n] = IF n \in {o} THEN "DONE" ELSE state[n]
    BY CommitFacts DEF ExchangeIInv, RowsOK
  <1>2. state[o] = "PENDING"
    BY <1>1, OpenIsPending
  <1>3. RowPhase(o) = "open" /\ RowPhase(o)' = "refunded"
    BY <1>1, <1>2 DEF RowPhase, Filled
  <1>4. \A n \in Order \ {o} : RowPhase(n)' = RowPhase(n)
    BY <1>1 DEF RowPhase, Filled
  <1>5. [n \in Order |-> RowPhase(n)]' = [[n \in Order |-> RowPhase(n)] EXCEPT ![o] = "refunded"]
    BY <1>3, <1>4
  <1> QED
    BY <1>1, <1>3, <1>5 DEF RowContract!Refund

LEMMA TablesStep ==
    ASSUME ExchangeIInv, [ExchangeNext]_exchangeVars
    PROVE  [RowContract!Next]_<<[o \in Order |-> RowPhase(o)], [o \in Order |-> Remaining(row[o])]>>
  <1> DEFINE Same == \A o \in Order :
                       RowPhase(o)' = RowPhase(o) /\ Remaining(row'[o]) = Remaining(row[o])
             Fits == [RowContract!Next]_<<[o \in Order |-> RowPhase(o)],
                                        [o \in Order |-> Remaining(row[o])]>>
  <1> SUFFICES Fits
    OBVIOUS
  <1>1. ASSUME UNCHANGED <<row, state>> PROVE Fits
    <2>1. Same
      BY <1>1 DEF RowPhase, Filled, Remaining
    <2> QED
      BY <2>1, NothingVisibleInTables
  <1>2. ASSUME NEW n \in Order, CreateOrderAction(n) PROVE Fits
    <2>1. /\ state[n] = "ABSENT" /\ state \in [Order -> State]
          /\ state' = [state EXCEPT ![n] = "PENDING"] /\ UNCHANGED row
      BY <1>2 DEF CreateOrderAction, ExchangeIInv, ExchangeTypeOK
    <2>2. state'[n] = "PENDING" /\ \A o \in Order \ {n} : state'[o] = state[o]
      BY <2>1
    <2>3. /\ RowPhase(n) = "new"
          /\ RowPhase(n)' = IF Remaining(row[n]) = 0 THEN "filled" ELSE "open"
      BY <2>1, <2>2 DEF RowPhase, Filled
    <2>4. \A o \in Order \ {n} : RowPhase(o)' = RowPhase(o)
      BY <2>1, <2>2 DEF RowPhase, Filled
    <2>5. RowContract!Accept(n)
      BY <2>1, <2>3, <2>4 DEF RowContract!Accept, RowContract!After
    <2> QED
      BY <2>5 DEF RowContract!Next
  <1>3. ASSUME NEW n \in Order, CancelOrderAction(n) \/ ExpireRefund(n) PROVE Fits
    BY <1>1, <1>3 DEF CancelOrderAction, ExpireRefund
  <1>4. CASE PollOrderActions
    <2>1. UNCHANGED <<row, state>>
      BY <1>4 DEF PollOrderActions, ListPendingActions, EnsureProcessOrderAction, tables
    <2> QED
      BY <1>1, <2>1
  <1>5. CASE SkipEvent \/ CommitAgain \/ Restart \/ UNCHANGED exchangeVars
    <2>1. UNCHANGED <<row, state>>
      BY <1>5, CommitAgainFacts DEF SkipEvent, Restart, exchangeVars, tables
    <2> QED
      BY <1>1, <2>1
  <1>6. ASSUME NEW n \in Order, AcceptOrder(n) PROVE Fits
    BY <1>1, <1>6 DEF AcceptOrder, tables
  <1>7. ASSUME NEW n \in Order, CancelResting(n) PROVE Fits
    <2>1. /\ CancelOrder(n) /\ CommitCancel(n) /\ CancelReply(n)
      BY <1>7 DEF CancelResting
    <2>2. Receive(n, "CANCEL") /\ n \in page[order[n].side] /\ order' = order
      BY <2>1 DEF CancelOrder, OnPage
    <2>3. order[n].side \in Side /\ opponents = {}
      BY <2>2, ReceiveFacts DEF ExchangeIInv, BookInv, TypeOK, OrderRecord, TakerOK
    <2>4. createIndex[n] # 0 /\ refunds[n] = 0 /\ ~ Filled(order[n])
      BY <2>2, <2>3 DEF ExchangeIInv, BookInv, PageOK
    <2>5. RowContract!Refund(n)
      BY <2>1, <2>2, <2>4, TablesRefund
    <2> QED
      BY <2>5 DEF RowContract!Next
  <1>8. CASE SettleTaker
    <2>1. Settle
      BY <1>8 DEF SettleTaker
    <2>2. PICK n \in Order : n = taker
      BY <2>1 DEF Settle, ExchangeIInv, BookInv, TypeOK
    <2>3. createIndex[n] # 0 /\ refunds[n] = 0 /\ order' = order
      BY <2>1, <2>2 DEF Settle, ExchangeIInv, BookInv, TakerOK
    <2>4. CASE Refundable(order[n])
      <3>1. CommitCancel(n) /\ CancelReply(n) /\ ~ Filled(order[n])
        BY <1>8, <2>2, <2>4 DEF SettleTaker, Refundable
      <3>2. RowContract!Refund(n)
        BY <2>3, <3>1, TablesRefund
      <3> QED
        BY <3>2 DEF RowContract!Next
    <2>5. CASE ~ Refundable(order[n])
      BY <1>1, <1>8, <2>2, <2>5 DEF SettleTaker, tables
    <2> QED
      BY <2>4, <2>5
  <1>9. ASSUME NEW m \in Order, Transact(m) PROVE Fits
    <2>1. PICK n \in Order : n = taker
      BY <1>9, TransactFacts, MatchParties DEF ExchangeIInv
    <2>2. /\ n # m /\ ~ Filled(order[m])
          /\ createIndex[m] # 0 /\ createIndex[n] # 0
          /\ refunds[m] = 0 /\ refunds[n] = 0
      BY <1>9, <2>1, TransactFacts, MatchParties DEF ExchangeIInv
    <2>3. /\ \A o \in Order : Filled(order[o]) => Filled(order'[o])
          /\ \A o \in Order : Remaining(order'[o]) \in 0..Remaining(order[o])
          /\ \A o \in Order \ {n, m} : order'[o] = order[o]
          /\ Filled(order'[m]) \/ Filled(order'[n])
          /\ Filled(order[n]) => Remaining(order'[m]) = Remaining(order[m])
      BY <1>9, <2>1, TransactFacts, MatchEffect DEF ExchangeIInv
    <2>4. row = order /\ row' = order'
      BY <1>9, TransactStep DEF ExchangeIInv, RowsOK
    <2>5. \A o \in Order : state'[o] = IF o \in {n, m} /\ Filled(order'[o]) THEN "DONE" ELSE state[o]
      BY <1>9, <2>1, TransactFacts DEF UpdateOrders
    <2>6. /\ state[m] = "PENDING" /\ state[n] # "ABSENT"
          /\ ~ Filled(order[n]) => state[n] = "PENDING"
      BY <2>2, <2>4, OpenIsPending DEF ExchangeIInv, StateOK
    <2>7. \A o \in Order \ {n, m} :
            RowPhase(o)' = RowPhase(o) /\ Remaining(row'[o]) = Remaining(row[o])
      BY <2>3, <2>4, <2>5 DEF RowPhase, Filled
    <2>8. /\ RowPhase(m) = "open"
          /\ RowPhase(n) = IF Filled(order[n]) THEN "filled" ELSE "open"
      BY <2>2, <2>4, <2>6 DEF RowPhase
    <2>9. RowPhase(m)' = IF Remaining(order'[m]) = 0 THEN "filled" ELSE "open"
      BY <2>4, <2>5, <2>6 DEF RowPhase, Filled
    <2>10. RowPhase(n)' = IF Remaining(order'[n]) = 0 THEN "filled" ELSE "open"
      <3>1. ~ Filled(order'[n]) => state'[n] = "PENDING"
        BY <2>3, <2>5, <2>6
      <3>2. state'[n] # "ABSENT"
        BY <2>5, <2>6
      <3> QED
        BY <2>4, <3>1, <3>2 DEF RowPhase, Filled
    <2>11. CASE Filled(order[n])
      <3>1. Remaining(order[n]) = 0 /\ Remaining(order'[n]) = 0
        BY <2>3, <2>11 DEF Filled
      <3>2. Remaining(order'[m]) = Remaining(order[m]) /\ Remaining(order[m]) # 0
        BY <2>2, <2>3, <2>11 DEF Filled
      <3>3. Same
        <4> SUFFICES ASSUME NEW o \in Order
                     PROVE  RowPhase(o)' = RowPhase(o) /\ Remaining(row'[o]) = Remaining(row[o])
          OBVIOUS
        <4>1. CASE o = n
          BY <2>4, <2>8, <2>10, <2>11, <3>1, <4>1
        <4>2. CASE o = m
          BY <2>4, <2>8, <2>9, <3>2, <4>2
        <4>3. CASE o \notin {n, m}
          BY <2>7, <4>3
        <4> QED
          BY <4>1, <4>2, <4>3
      <3> QED
        BY <3>3, NothingVisibleInTables
    <2>12. CASE ~ Filled(order[n])
      <3> DEFINE nt == Remaining(order'[n])
                 nm == Remaining(order'[m])
      <3>1. nt = 0 \/ nm = 0
        BY <2>3 DEF Filled
      <3>2. nt \in 0..Remaining(row[n]) /\ nm \in 0..Remaining(row[m])
        BY <2>3, <2>4
      <3>3. RowPhase(n) = "open" /\ RowPhase(m) = "open"
        BY <2>8, <2>12
      <3>4. RowPhase(n)' = RowContract!After(nt) /\ RowPhase(m)' = RowContract!After(nm)
        BY <2>9, <2>10 DEF RowContract!After
      <3>5. [o \in Order |-> Remaining(row[o])]'
              = [[o \in Order |-> Remaining(row[o])] EXCEPT ![n] = nt, ![m] = nm]
        BY <2>2, <2>4, <2>7
      <3>6. [o \in Order |-> RowPhase(o)]'
              = [[o \in Order |-> RowPhase(o)]
                    EXCEPT ![n] = RowContract!After(nt), ![m] = RowContract!After(nm)]
        BY <2>2, <2>7, <3>4
      <3> HIDE DEF nt, nm
      <3>7. RowContract!Trade(n, m)
        BY <2>2, <3>1, <3>2, <3>3, <3>5, <3>6 DEF RowContract!Trade
      <3> QED
        BY <3>7 DEF RowContract!Next
    <2> QED
      BY <2>11, <2>12
  <1> HIDE DEF Fits
  <1>10. CASE \E o \in Order : CreateOrderAction(o) \/ CancelOrderAction(o) \/ ExpireRefund(o)
    BY <1>2, <1>3, <1>10
  <1>11. CASE Engine
    BY <1>5, <1>6, <1>7, <1>8, <1>9, <1>11 DEF Engine
  <1> QED
    BY <1>4, <1>5, <1>10, <1>11 DEF ExchangeNext

\* What a client reads in table orders is a behaviour of OrderLifecycle, whatever crashes
\* and repeated commits happen: an order is accepted once, trades only while it is open,
\* and ends once, filled or refunded.
THEOREM TablesKeepTheContract == ExchangeSpec => TablesKeepContract
  <1>1. ExchangeInit => RowContract!Init
    BY TablesInit
  <1>2. ExchangeIInv /\ [ExchangeNext]_exchangeVars =>
          [RowContract!Next]_<<[o \in Order |-> RowPhase(o)], [o \in Order |-> Remaining(row[o])]>>
    BY TablesStep
  <1> QED
    BY <1>1, <1>2, ExchangeInvariance, PTL
       DEF ExchangeSpec, TablesKeepContract, RowContract!Spec
=============================================================================
