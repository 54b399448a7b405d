---------------------------- MODULE TradeHistory -----------------------------
(***************************************************************************)
(* The list of recent trades on the page of a market: addTradeEntry and    *)
(* fetchTrades of example/web/src/market/index.js.                         *)
(*                                                                         *)
(* Trades come twice, as events of the feed (Feed) and once, half a second *)
(* after the page was opened, as an answer of GET /markets/:id/trades.     *)
(* Who subscribes is sent the events since the last BOOK-T0 and then every *)
(* event in turn; an open page subscribes again when it reconnects.        *)
(*                                                                         *)
(* Trades are numbered as the engine makes them.  The row of trade n has   *)
(* the time 2n, its event, which is attached when the row is written, the  *)
(* time 2n + 1.                                                            *)
(***************************************************************************)
EXTENDS Integers, Sequences, FiniteSets, SequencesExt

CONSTANTS
    MaxShown,  \* items the page keeps, 99 in the code
    PageSize,  \* trades of an answer, 100 in the code
    MaxTrades, \* bound on trades
    MaxSkew    \* bound on what the clock of the browser is behind

HistoryAssumption ==
    /\ {MaxShown, PageSize} \subseteq Nat \ {0} /\ {MaxTrades, MaxSkew} \subseteq Nat
    /\ MaxShown <= PageSize

VARIABLES
    trades,   \* number of trades made
    listed,   \* the first trade after the last BOOK-T0
    from,     \* the first event the client was sent since it subscribed, 0 without
    stream,   \* the next event it gets
    fetch,    \* fetchTrades: "WAIT", "ASKED", "ANSWERED" or "DONE"
    offset,   \* the time it asks for
    answer,   \* the trades of the answer, newest first
    history,  \* the items on the page, newest first
    quiet     \* history: there was no item on the page before those of the answer

table == <<trades, listed>>
feed == <<from, stream>>
rest == <<fetch, offset, answer>>
vars == <<table, feed, rest, history, quiet>>

Init ==
    /\ trades = 0 /\ listed = 1
    /\ from = 0 /\ stream = 0
    /\ fetch = "WAIT" /\ offset = 0 /\ answer = <<>>
    /\ history = <<>> /\ quiet = FALSE

Row(n) == [id |-> n, time |-> 2 * n]
Event(n) == [id |-> n, time |-> 2 * n + 1]
Ids(s) == {s[i].id : i \in DOMAIN s}

-----------------------------------------------------------------------------
(* The exchange.                                                           *)

MakeTrade ==
    /\ trades < MaxTrades /\ trades' = trades + 1
    /\ UNCHANGED <<listed, feed, rest, history, quiet>>

CacheList ==
    /\ listed' = trades + 1
    /\ UNCHANGED <<trades, feed, rest, history, quiet>>

-----------------------------------------------------------------------------
(* addTradeEntry.                                                          *)

\* Mutant: an older trade is put in front as well.
StaleNever(h, o) == FALSE
Stale(h, o) == h # <<>> /\ h[1].time > o.time

\* Mutant: the newest item gives way.
KeptOldest(h) == IF Len(h) > MaxShown THEN Tail(h) ELSE h
Kept(h) == IF Len(h) > MaxShown THEN SubSeq(h, 1, MaxShown) ELSE h

AddTradeEntry(h, o) ==
    IF o.id \in Ids(h) \/ Stale(h, o) THEN h ELSE Kept(<<o>> \o h)

-----------------------------------------------------------------------------
(* The feed.                                                               *)

Subscribe ==
    /\ from = 0
    /\ from' = listed /\ stream' = listed
    /\ UNCHANGED <<table, rest, history, quiet>>

Render ==
    /\ from # 0 /\ stream <= trades
    /\ history' = AddTradeEntry(history, Event(stream))
    /\ stream' = stream + 1
    /\ UNCHANGED <<table, from, rest, quiet>>

Disconnect ==
    /\ from # 0
    /\ from' = 0 /\ stream' = 0
    /\ UNCHANGED <<table, rest, history, quiet>>

-----------------------------------------------------------------------------
(* fetchTrades.                                                            *)

FetchTrades ==
    /\ fetch = "WAIT" /\ fetch' = "ASKED"
    /\ \E skew \in 0..MaxSkew : offset' = 2 * trades + 1 - skew
    /\ UNCHANGED <<table, feed, answer, history, quiet>>

MarketTrades ==
    LET newest == IF 2 * trades <= offset THEN trades ELSE offset \div 2
        number == IF newest < PageSize THEN newest ELSE PageSize
    IN  /\ fetch = "ASKED" /\ fetch' = "ANSWERED"
        /\ answer' = [i \in 1..(IF number < 0 THEN 0 ELSE number) |-> Row(newest + 1 - i)]
        /\ UNCHANGED <<table, feed, offset, history, quiet>>

\* The loop goes from the oldest to the newest.  Mutant: the other way.
AsAnswered(s) == s
OldestFirst(s) == Reverse(s)

RenderTrades ==
    /\ fetch = "ANSWERED" /\ fetch' = "DONE"
    /\ \/ /\ history' = FoldLeft(AddTradeEntry, history, OldestFirst(answer))
          /\ quiet' = (history = <<>>)
       \/ UNCHANGED <<history, quiet>>   \* the answer is an error
    /\ UNCHANGED <<table, feed, offset, answer>>

Next ==
    \/ MakeTrade \/ CacheList
    \/ Subscribe \/ Render \/ Disconnect
    \/ FetchTrades \/ MarketTrades \/ RenderTrades

Spec == Init /\ [][Next]_vars

-----------------------------------------------------------------------------
TypeOK ==
    /\ trades \in 0..MaxTrades /\ listed \in 1..trades + 1
    /\ from \in 0..trades + 1 /\ stream \in from..trades + 1
    /\ fetch \in {"WAIT", "ASKED", "ANSWERED", "DONE"}
    /\ Len(answer) <= PageSize /\ Len(history) <= MaxShown
    /\ Ids(answer) \cup Ids(history) \subseteq 1..trades

\* The newest trade is on top and none is on the page twice, though a trade comes as
\* an event and in the answer, with two different times, and again after the page
\* has dropped it (addTradeEntry).
NewestOnTop ==
    \A i, j \in DOMAIN history : i < j => history[i].id > history[j].id

\* Between the trades of one connection there is no hole, whatever the answer adds and
\* whenever it comes: a trade whose event has come is on the page, or older than all
\* that is.
StreamLeavesNoHole ==
    from # 0 => \A n \in from..stream - 1 :
        n \in Ids(history) \/ n < history[Len(history)].id

\* An answer that finds the page empty is shown and stays, until newer trades fill
\* the page.  One that comes after the first event is not: what is older than the top
\* item is dropped.
AnswerIsShown ==
    quiet => \A n \in Ids(answer) :
        n \in Ids(history) \/ Cardinality({m \in Ids(history) : m > n}) = MaxShown
=============================================================================
