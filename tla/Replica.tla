------------------------------- MODULE Replica -------------------------------
(***************************************************************************)
(* The order book of a market in the browser: web/src/api/engine.js and    *)
(* render in web/src/market/index.js of the example.                       *)
(*                                                                         *)
(* A connection is given what module Feed shows: the events of the Redis   *)
(* list, of which the first is a book as a rule, and then every event in   *)
(* order.  Each message is unpacked by a FileReader of its own, and is     *)
(* rendered when that is done; no sequence is looked at.  The book is kept *)
(* twice, as two sorted lists (self.book) and as the items of the page,    *)
(* of which the place follows from side and price.                         *)
(***************************************************************************)
EXTENDS Integers, Sequences, SequencesExt

CONSTANTS
    MaxPrice, MaxAmount,   \* bounds on prices and on the amount of an event
    MaxLevels,       \* levels of a side the lists take from a book, 1000
    MaxAskItems, MaxItems, \* asks, bids are put on the page of a book while it has no
                     \* more items than this: 50, 100
    MaxAsks, MaxBids,      \* items of a side that stay on the page, 60 and 58
    MaxEvents, MaxConnections,    \* bounds on events and connections
    MaxReorders,     \* bound on messages rendered before an earlier one
    MaxBare          \* bound on connections that are not given a book first

ReplicaAssumption ==
    /\ {MaxPrice, MaxAmount, MaxLevels} \subseteq Nat \ {0}
    /\ {MaxAskItems, MaxItems, MaxAsks, MaxBids} \subseteq Nat
    /\ {MaxEvents, MaxConnections, MaxReorders, MaxBare} \subseteq Nat

Side == {"ASK", "BID"}
Price == 1..MaxPrice

VARIABLES
    levels,          \* the engine's book: amount at each price, by side
    emitted,         \* number of events
    list,            \* what a new connection is given: the Redis list
    messages,        \* messages of the connection that are not rendered, in order
    connections,
    book,            \* self.book: levels in a sequence, by side
    page,            \* items of the page, by price
    cut,             \* history: the worst price of a list that was cut off, or none
    cropped,         \* history: prices of the last book that did not fit on the page
    joined,          \* history: prices of items an order has joined
    booked,          \* history: the connection has been given a book
    reorders, bare, reordered

lists == <<book, page, cut, cropped, joined>>
feed == <<levels, emitted, list>>
vars == <<feed, messages, connections, lists, booked, reorders, bare, reordered>>

Better(side, p, q) == IF side = "ASK" THEN p < q ELSE p > q

\* The levels of a side, the best first.
Sorted(side, prices) == SetToSortSeq(prices, LAMBDA p, q : Better(side, p, q))
LevelsOf(side) == {p \in Price : levels[side][p] > 0}
Best(side) == Head(Sorted(side, LevelsOf(side)))
BookNow ==
    [type |-> "BOOK-T0",
     data |-> [side \in Side |->
                 LET s == Sorted(side, LevelsOf(side))
                 IN  [x \in DOMAIN s |-> [price |-> s[x], amount |-> levels[side][s[x]]]]]]

Empty == [side \in Side |-> <<>>]

Init ==
    /\ levels = [side \in Side |-> [p \in Price |-> 0]]
    /\ emitted = 0
    /\ list = <<[type |-> "BOOK-T0", data |-> Empty]>>
    /\ messages = <<>> /\ connections = 0
    /\ book = Empty /\ page = <<>>
    /\ cut = [side \in Side |-> 0] /\ cropped = {} /\ joined = {}
    /\ booked = FALSE /\ reordered = FALSE
    /\ reorders = 0 /\ bare = 0

-----------------------------------------------------------------------------
(* The engine.  An order opens at a price that does not cross the other side, *)
(* a match takes from the best level, a cancellation from any.                *)

Emit(type, side, p, a) ==
    LET e == [type |-> type, side |-> side, price |-> p, amount |-> a]
    IN  /\ emitted < MaxEvents /\ emitted' = emitted + 1
        /\ levels' = [levels EXCEPT ![side][p] = IF type = "ORDER-OPEN" THEN @ + a ELSE @ - a]
        /\ list' = Append(list, e)
        /\ messages' = IF connections > 0 THEN Append(messages, e) ELSE messages
        /\ UNCHANGED <<connections, lists, booked, reorders, bare, reordered>>

OrderOpen(side, p, a) ==
    /\ \A other \in Side \ {side} : \A q \in LevelsOf(other) : Better(side, q, p)
    /\ Emit("ORDER-OPEN", side, p, a)

OrderMatch(side, a) ==
    /\ LevelsOf(side) # {} /\ a <= levels[side][Best(side)]
    /\ Emit("ORDER-MATCH", side, Best(side), a)

OrderCancel(side, p, a) ==
    /\ a <= levels[side][p]
    /\ Emit("ORDER-CANCEL", side, p, a)

\* The list starts anew with the book; clients are sent a heartbeat, which says nothing.
CacheList ==
    /\ Len(list) > 1
    /\ list' = <<BookNow>>
    /\ UNCHANGED <<levels, emitted, messages, connections, lists, booked, reorders, bare,
                   reordered>>

\* The websocket is opened, again after it was closed, and the market subscribed.
Connect ==
    /\ connections < MaxConnections
    /\ connections' = connections + 1
    /\ reordered' = FALSE
    /\ booked' = FALSE
    /\ \/ messages' = list /\ UNCHANGED bare
       \/ bare < MaxBare /\ bare' = bare + 1 /\ messages' = <<>>
    /\ UNCHANGED <<feed, lists, reorders>>

-----------------------------------------------------------------------------
(* The two lists.                                                          *)

\* What orderOpenOnPage makes of the amount of an order: that of the item it joins is added.
PageAmount(e) == e.amount + IF e.price \in DOMAIN page THEN page[e.price].amount ELSE 0

\* orderOpenOnBook: the order joins its level or goes before the first worse one; then
\* the list holds the object that orderOpenOnPage writes its amount to.
\* Mutant: it never joins a level.
JoinsNever(s, p) == {}
Joins(s, p) == {x \in DOMAIN s : s[x].price = p}
OpenOnBook(s, e) ==
    LET worse == {x \in DOMAIN s : Better(e.side, e.price, s[x].price)}
        o == [price |-> e.price, amount |-> PageAmount(e)]
    IN  IF Joins(s, e.price) # {}
        THEN [s EXCEPT ![Min(Joins(s, e.price))].amount = @ + e.amount]
        ELSE IF worse # {} THEN InsertAt(s, Min(worse), o) ELSE Append(s, o)

\* orderRemoveFromBook.
RemoveFromBook(s, e) ==
    LET x == Min({y \in DOMAIN s : s[y].price = e.price})
    IN  IF \A y \in DOMAIN s : s[y].price # e.price THEN s
        ELSE IF s[x].amount = e.amount THEN RemoveAt(s, x)
        ELSE [s EXCEPT ![x].amount = @ - e.amount]

-----------------------------------------------------------------------------
(* The page.  An item is found by its price.                               *)

Item(side, a, f) == [side |-> side, amount |-> a, funds |-> f]

\* orderOpenOnPage: an item that is joined takes the funds of the new order alone.
OpenOnPage(e) ==
    [p \in DOMAIN page \cup {e.price} |->
       IF p = e.price THEN Item(e.side, PageAmount(e), e.price * e.amount) ELSE page[p]]

\* orderRemoveFromPage: without amount or without funds the item goes.
Gone(item, e) == item.amount - e.amount <= 0 \/ item.funds - e.price * e.amount <= 0

RemoveFromPage(e) ==
    IF e.price \notin DOMAIN page THEN page
    ELSE IF Gone(page[e.price], e) THEN [p \in DOMAIN page \ {e.price} |-> page[p]]
    ELSE [page EXCEPT ![e.price].amount = @ - e.amount,
                      ![e.price].funds = @ - e.price * e.amount]

\* fixListItemHeight: of each side the best items stay.  Mutant: the others do.
MaxOf(side) == IF side = "ASK" THEN MaxAsks ELSE MaxBids
SideOf(items, side) == {p \in DOMAIN items : items[p].side = side}
StaysWorst(items, p) ==
    Cardinality({q \in SideOf(items, items[p].side) : Better(items[p].side, p, q)}) < MaxOf(items[p].side)
Stays(items, p) ==
    Cardinality({q \in SideOf(items, items[p].side) : Better(items[p].side, q, p)}) < MaxOf(items[p].side)
FixListItemHeight(items) == [p \in {q \in DOMAIN items : Stays(items, q)} |-> items[p]]

\* How many levels of a book are put on the page: an item is, while there are no more
\* than max already.
BidItems(asks, bids) == Min({bids, Max({0, MaxItems + 1 - asks})})
AskItems(asks) == Min({asks, MaxAskItems + 1})

\* BOOK-T0: the items of the page are removed, and those of the book put there.
\* Mutant: items stay.
ItemsStay(items) == items
ItemsLeft(items) == <<>>

RenderBook(data) ==
    LET kept == [side \in Side |-> SubSeq(data[side], 1, Min({Len(data[side]), MaxLevels}))]
        asks == AskItems(Len(data["ASK"]))
        shown == [side \in Side |->
                    SubSeq(data[side], 1,
                           IF side = "ASK" THEN asks ELSE BidItems(asks, Len(data["BID"])))]
        At(p) == {y \in Side \X (1..MaxPrice) :
                    y[2] \in DOMAIN shown[y[1]] /\ shown[y[1]][y[2]].price = p}
        prices == {p \in Price : At(p) # {}}
        items == [p \in prices |->
                    LET at == CHOOSE y \in At(p) : TRUE
                        a == shown[at[1]][at[2]].amount
                    IN  Item(at[1], a, p * a)]
    IN  /\ book' = kept
        /\ page' = FixListItemHeight(items @@ ItemsLeft(page))
        /\ cut' = [side \in Side |-> IF Len(data[side]) > MaxLevels THEN Last(kept[side]).price ELSE 0]
        /\ cropped' = UNION {{data[side][x].price : x \in DOMAIN data[side]} : side \in Side} \ DOMAIN page'
        /\ joined' = {}

Render(e) ==
    IF e.type = "BOOK-T0" THEN RenderBook(e.data) /\ booked' = TRUE
    ELSE /\ \/ /\ e.type = "ORDER-OPEN"
               /\ book' = [book EXCEPT ![e.side] = OpenOnBook(@, e)]
               /\ page' = FixListItemHeight(OpenOnPage(e))
               /\ joined' = (joined \cup (DOMAIN page \cap {e.price})) \cap DOMAIN page'
            \/ /\ e.type \in {"ORDER-MATCH", "ORDER-CANCEL"}
               /\ book' = [book EXCEPT ![e.side] = RemoveFromBook(@, e)]
               /\ page' = FixListItemHeight(RemoveFromPage(e))
               /\ joined' = joined \cap DOMAIN page'
         /\ UNCHANGED <<cut, cropped, booked>>

\* A FileReader is done, of the first message as a rule.
Message(x) ==
    /\ x \in DOMAIN messages
    /\ IF x = 1 THEN UNCHANGED <<reorders, reordered>>
       ELSE reorders < MaxReorders /\ reorders' = reorders + 1 /\ reordered' = TRUE
    /\ messages' = RemoveAt(messages, x)
    /\ Render(messages[x])
    /\ UNCHANGED <<feed, connections, bare>>

Next ==
    \/ \E side \in Side, p \in Price, a \in 1..MaxAmount :
         OrderOpen(side, p, a) \/ OrderCancel(side, p, a)
    \/ \E side \in Side, a \in 1..MaxAmount : OrderMatch(side, a)
    \/ CacheList
    \/ Connect
    \/ \E x \in 1..(MaxReorders + 1) : Message(x)

Spec == Init /\ [][Next]_vars

-----------------------------------------------------------------------------
TypeOK ==
    /\ \A side \in Side : \A x \in DOMAIN book[side] :
         book[side][x].price \in Price /\ book[side][x].amount \in Int
    /\ DOMAIN page \subseteq Price
    /\ \A p \in DOMAIN page : page[p].side \in Side /\ page[p].amount > 0 /\ page[p].funds > 0
    /\ joined \subseteq DOMAIN page

\* Whatever order messages come in, a list has one level for a price, the best first
\* (orderOpenOnBook), since rendering the depth chart and removals rely on it.
ListsAreSorted ==
    \A side \in Side : \A x, y \in DOMAIN book[side] :
        x < y => Better(side, book[side][x].price, book[side][y].price)

\* Everything the engine has told is rendered, in order, from a book on.
CaughtUp == connections > 0 /\ booked /\ ~ reordered /\ messages = <<>>

Shown(side) == [p \in {book[side][x].price : x \in DOMAIN book[side]} |->
                  book[side][CHOOSE x \in DOMAIN book[side] : book[side][x].price = p].amount]

\* Then the lists are the book of the engine, up to the price at which the first book was
\* cut off, however many events came since, and also after a connection was lost.
ListsTrackBook ==
    CaughtUp =>
        \A side \in Side : \A p \in Price :
            cut[side] = 0 \/ Better(side, p, cut[side]) \/ p = cut[side] =>
                /\ p \in DOMAIN Shown(side) <=> levels[side][p] > 0
                /\ p \in DOMAIN Shown(side) => Shown(side)[p] = levels[side][p]

\* The page never shows more than there is at a price, or what is not there.
PageNeverShowsMore ==
    CaughtUp => \A p \in DOMAIN page : page[p].amount <= levels[page[p].side][p]

\* A level goes from the page only if it did not fit when the book came, if better ones
\* need its place, or if an order had joined it: an item that is joined forgets the funds
\* it had before, and is removed when those of the last order are used up.
MissesNeedJoin ==
    [][\A p \in Price :
         CaughtUp' /\ p \in DOMAIN page \ DOMAIN page' =>
           \/ levels'[page[p].side][p] = 0 \/ p \in joined
           \/ p \in cropped' \/ booked # booked'
           \/ /\ Cardinality(SideOf(page', page[p].side)) = MaxOf(page[p].side)
              /\ \A q \in SideOf(page', page[p].side) : Better(page[p].side, q, p)]_vars
=============================================================================
