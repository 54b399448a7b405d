------------------------------- MODULE Listing -------------------------------
(***************************************************************************)
(* The orders of one user, read page by page: UserOrders of                *)
(* persistence/user.go behind GET /orders, and the client that README.md   *)
(* of the source describes by the parameters market, state, limit and      *)
(* offset.  (MarketTrades reads trades the same way; see Candles.)         *)
(*                                                                         *)
(* Orders are made and end while the client reads.  The client takes the   *)
(* created_at of the last order of a page as the next offset, which is     *)
(* included, until a page is not full.  Ascending it begins at zero,       *)
(* descending at its own clock.                                            *)
(***************************************************************************)
EXTENDS Integers, Sequences, SequencesExt, FiniteSetsExt

CONSTANTS
    Order,
    Limit,      \* at most 100 in the code
    MaxTime,    \* bound on the distinct created_at
    MaxTies,    \* bound on the orders of one created_at
    MaxSkew     \* bound on what the clock of the client is behind

ListingAssumption ==
    /\ Limit \in Nat \ {0} /\ MaxTies \in Nat /\ MaxTime \in Nat \ {0}
    /\ MaxSkew \in 0..MaxTime

VARIABLES
    state,      \* state[o]: table orders, "ABSENT" without a row
    createdAt,  \* createdAt[o]
    clock,
    reading,    \* the state the client asks for, "NONE" or "END"
    order,      \* "ASC" or "DESC"
    start,      \* its first offset
    offset,     \* the offset of its next request
    seen,       \* seen[s]: orders it was given for state s
    steady,     \* history: steady[s]: orders in state s since its first request for s
    early       \* history: orders that existed when it began

table == <<state, createdAt, clock>>
client == <<reading, order, start, offset, seen>>
vars == <<table, client, steady, early>>

Listed == {"PENDING", "DONE"}

Init ==
    /\ state = [o \in Order |-> "ABSENT"] /\ createdAt = [o \in Order |-> 0] /\ clock = 1
    /\ reading = "NONE" /\ order = "ASC" /\ start = 0 /\ offset = 0
    /\ seen = [s \in Listed |-> {}] /\ steady = [s \in Listed |-> {}] /\ early = {}

-----------------------------------------------------------------------------
(* Table orders.                                                           *)

Tick == clock < MaxTime /\ clock' = clock + 1 /\ UNCHANGED <<state, createdAt, client, steady, early>>

CreateOrder(o) ==
    /\ state[o] = "ABSENT"
    /\ Cardinality({n \in Order : createdAt[n] = clock}) < MaxTies
    /\ state' = [state EXCEPT ![o] = "PENDING"]
    /\ createdAt' = [createdAt EXCEPT ![o] = clock]
    /\ UNCHANGED <<clock, client, steady, early>>

EndOrder(o) ==
    /\ state[o] = "PENDING"
    /\ state' = [state EXCEPT ![o] = "DONE"]
    /\ steady' = [steady EXCEPT !["PENDING"] = @ \ {o}]
    /\ UNCHANGED <<createdAt, clock, client, early>>

-----------------------------------------------------------------------------
(* UserOrders.  Which of the orders with one created_at LIMIT cuts off, and    *)
(* in which order they come, is open.                                          *)

\* Mutant: what was created at the offset is left out.
SinceAfter(o) == IF order = "DESC" THEN createdAt[o] < offset ELSE createdAt[o] > offset
Since(o) == IF order = "DESC" THEN createdAt[o] <= offset ELSE createdAt[o] >= offset

Before(o, n) ==
    IF order = "DESC" THEN createdAt[o] > createdAt[n] ELSE createdAt[o] < createdAt[n]

\* The second query, for the rows, may give them in any order; they are sorted then.
Sorted(s) == \A i, j \in DOMAIN s : i < j => ~ Before(s[j], s[i])

InState(o, st) == state[o] = st

\* The answers the server may give to a request for state st.
UserOrders(st) ==
    LET rows == {o \in Order : InState(o, st) /\ Since(o)}
        number == IF Cardinality(rows) < Limit THEN Cardinality(rows) ELSE Limit
    IN  {s \in UNION {SetToSeqs(page) : page \in
                        {p \in kSubset(number, rows) : \A o \in p, n \in rows \ p : ~ Before(n, o)}} :
            Sorted(s)}

-----------------------------------------------------------------------------
(* The client reads the PENDING orders first and then those that are DONE.     *)

Ask(st, from) ==
    /\ reading' = st /\ offset' = from
    /\ steady' = IF st \in Listed THEN [steady EXCEPT ![st] = {o \in Order : state[o] = st}] ELSE steady

Begin ==
    /\ reading = "NONE"
    /\ order' \in {"ASC", "DESC"}
    /\ \E skew \in 0..MaxSkew :
         start' = IF order' = "ASC" THEN 0 ELSE IF clock > skew THEN clock - skew ELSE 1
    /\ Ask("PENDING", start')
    /\ early' = {o \in Order : state[o] # "ABSENT"}
    /\ UNCHANGED <<table, seen>>

\* Mutant: the next page starts where this one did.
NextOffsetFirst(s) == createdAt[Head(s)]
NextOffset(s) == createdAt[Last(s)]

ReadPage ==
    /\ reading \in Listed
    /\ \E s \in UserOrders(reading) :
         /\ seen' = [seen EXCEPT ![reading] = @ \cup ToSet(s)]
         /\ IF Len(s) = Limit
            THEN offset' = NextOffset(s) /\ UNCHANGED <<reading, steady>>
            ELSE Ask(IF reading = "PENDING" THEN "DONE" ELSE "END", start)
    /\ UNCHANGED <<table, order, start, early>>

Next ==
    \/ Tick
    \/ \E o \in Order : CreateOrder(o) \/ EndOrder(o)
    \/ Begin
    \/ ReadPage

Spec == Init /\ [][Next]_vars
FairSpec == Spec /\ WF_vars(ReadPage)

-----------------------------------------------------------------------------
TypeOK ==
    /\ state \in [Order -> Listed \cup {"ABSENT"}]
    /\ createdAt \in [Order -> 0..clock] /\ clock \in 1..MaxTime
    /\ reading \in Listed \cup {"NONE", "END"} /\ order \in {"ASC", "DESC"}
    /\ {start, offset} \subseteq 0..MaxTime
    /\ \A s \in Listed : \A o \in steady[s] : state[o] = s
    /\ seen["PENDING"] \subseteq Order /\ \A o \in seen["DONE"] : state[o] = "DONE"

InRange(o) == order = "ASC" \/ createdAt[o] <= start

\* Whoever reads to the end is given every order that was in the state asked for all
\* the while, though pages overlap, orders of one created_at come in any order, and
\* others are made and end meanwhile; descending, all but those younger than the clock
\* of the client.
SteadyOrdersAreListed ==
    /\ reading \in {"DONE", "END"} => \A o \in steady["PENDING"] : InRange(o) => o \in seen["PENDING"]
    /\ reading = "END" => \A o \in steady["DONE"] : InRange(o) => o \in seen["DONE"]

\* No order falls between the two lists: one that existed when the client began, and
\* may have ended at any moment since, is in one of them.
NothingFallsBetween ==
    reading = "END" =>
        \A o \in early : InRange(o) => o \in seen["PENDING"] \cup seen["DONE"]

\* A client that keeps asking comes to the end, unless Limit orders in one state share
\* the created_at at its offset: then it is given the same page for ever.
Stalled ==
    Cardinality({o \in Order : state[o] = reading /\ createdAt[o] = offset}) >= Limit
EveryReadingEnds == reading \in Listed ~> (reading = "END" \/ Stalled)
=============================================================================
