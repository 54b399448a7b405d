-------------------------- MODULE ExchangeInvariant --------------------------
(***************************************************************************)
(* The inductive invariant of Exchange, in named parts.  TLC checks it on  *)
(* the small instances; EngineProofs proves it for every value of the      *)
(* constants.                                                              *)
(***************************************************************************)
EXTENDS Exchange, BookInvariant

(* The memory of the running process is a book as Book describes it: BookInv.  *)
(* HistoryIsOwn is lost: trades and refunds of the processes before it stay in  *)
(* the tables.  HistoryOK is what is left of it.                               *)

\* The copy the engine works on is what the table says.
RowsOK == order = row

\* Every action has a created_at of its own, up to the clock.
ClockOK ==
    /\ \A x \in Key : actions[x] <= clock
    /\ \A x, y \in Key : actions[x] = actions[y] /\ actions[x] # 0 => x = y
    /\ IsFiniteSet({x \in Key : actions[x] # 0})

\* What is listed and not attached.  The copy of an order that the engine has not
\* created in this life is not stale; a CANCEL follows its CREATE.
CreateListed(o, before) ==
    \E b \in batch : b.id = o /\ b.action = "CREATE" /\ b.createdAt < before

BatchOK ==
    /\ checkpoint <= clock
    /\ \A a \in batch :
         /\ a.createdAt \in 1..clock
         /\ createIndex[a.id] = 0 =>
              /\ state[a.id] = "PENDING" /\ a.order = row[a.id]
              /\ actions[<<a.id, a.action>>] = a.createdAt
         /\ a.action = "CANCEL" =>
              order[a.id].type = "LIMIT" /\ (Attached(a.id) \/ CreateListed(a.id, a.createdAt))
    /\ \A a, b \in batch : a.createdAt = b.createdAt => a = b

\* The poller passes over no CREATE: an order whose CREATE is older than the
\* checkpoint or than a listed action is attached, or listed itself.
NothingSkipped ==
    \A o \in Order :
        LET c == actions[<<o, "CREATE">>]
        IN  c # 0 /\ (c < checkpoint \/ \E a \in batch : c < a.createdAt) =>
               Attached(o) \/ \E b \in batch : b.id = o /\ b.action = "CREATE" /\ b.createdAt = c

\* The copies in the channel are not stale where createOrder will use them.
CarriedOK ==
    \A i \in DOMAIN events : \A o \in Order, action \in Action :
        events[i] = <<o, action>> /\ createIndex[o] = 0 =>
            state[o] = "PENDING" /\ carried[i] = row[o]

\* Orders are created in the order of created_at.
Older(p, o) ==
    /\ state[p] = "PENDING" /\ state[o] = "PENDING"
    /\ actions[<<p, "CREATE">>] < actions[<<o, "CREATE">>]

FifoOK ==
    \A o, p \in Order : Older(p, o) =>
        /\ createIndex[o] # 0 => createIndex[p] # 0 /\ createIndex[p] < createIndex[o]
        /\ \A i \in DOMAIN events : events[i] = <<o, "CREATE">> /\ createIndex[o] = 0 =>
             createIndex[p] # 0 \/ \E j \in 1..(i - 1) : events[j] = <<p, "CREATE">>

\* A trade uses up one of its orders for good, so that no later process sees both.
HistoryOK ==
    /\ IsFiniteSet(trades)
    /\ \A t \in trades : \E o \in {t.taker, t.maker} :
         /\ state[o] = "DONE"
         /\ \/ createIndex[t.taker] # 0 /\ createIndex[t.maker] # 0
            \/ createIndex[o] = 0

\* How the column state of an order follows from its row and its refund.
StateOK ==
    /\ \A o \in Order :
         /\ createIndex[o] # 0 => state[o] # "ABSENT"
         /\ state[o] = "DONE" => Filled(row[o]) \/ refunds[o] # 0
         /\ refunds[o] # 0 => state[o] = "DONE" /\ ~ Filled(row[o])
    /\ recommit # NoOrder => refunds[recommit] # 0

ExchangeIInv ==
    /\ ExchangeTypeOK /\ BookInv /\ RowsOK /\ ClockOK /\ ActionsMatchState
    /\ BatchOK /\ NothingSkipped /\ CarriedOK /\ FifoOK /\ HistoryOK /\ StateOK
    /\ StuckOnlyIfUnacked /\ TradesExplainRows
=============================================================================
