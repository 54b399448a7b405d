---------------------------- MODULE ClientOrders ----------------------------
(***************************************************************************)
(* How the example sends orders: the four forms of the market page (web,   *)
(* market/index.js and trade.html), CreateOrder and CancelOrder of         *)
(* example/models/order.go, and the network, whose snapshots Ingest reads. *)
(*                                                                         *)
(* The forms hold one trace id, renewed in all of them when an order of    *)
(* one succeeds.  A request may fail without effect, and its answer may be *)
(* lost: the browser then shows an error while the server still works.     *)
(*                                                                         *)
(* Decimals are numbers of finest units, Scale of which are one.           *)
(***************************************************************************)
EXTENDS Ingest, FiniteSets

CONSTANTS
    Scale,
    PageMarket,            \* the markets that have a page: [quote, base]
    OOO,                   \* config.OOOAssetId
    Entry,                 \* what may be typed: [price, amount, funds]
    ApiOrder,              \* what may be posted to the server without the page
    ClientPriceStep,       \* ClientPriceStep[q]: RoundFloor(8), and (4) for USDT
    ClientAmountStep,      \* RoundFloor(4) of an amount to sell
    ClientFundsStep,       \* RoundFloor(8) of funds, toFixed(8) of the page
    FormMinFunds,          \* FormMinFunds[q]: minFunds of the page
    FormMaxPrice,          \* FormMaxPrice[q]: quoteMaxPrice
    FormMaxAmount,         \* maxAmount
    MaxSubmits             \* bound on requests

\* What a form or another program may ask for, well formed or not.
Asked ==
    [quote : Asset, base : Asset, type : {"LIMIT", "MARKET", ""}, side : {"BID", "ASK", ""},
     price : Nat, amount : Nat, funds : Nat]

\* The server truncates prices and amounts as the exchange does; funds at the precision
\* of the network, which is a whole number of the units of the exchange.  The page asks
\* for no more than the maxima and no less than the minimum of the exchange.
ClientAssumption ==
    /\ {Scale, MaxSubmits, ClientFundsStep} \subseteq Nat \ {0}
    /\ Broker # {} /\ User # {}
    /\ OOO \in Asset /\ \A m \in PageMarket : m.quote \in Quote /\ m.base \in Asset
    /\ Entry \subseteq [price : Nat, amount : Nat, funds : Nat] /\ ApiOrder \subseteq Asked
    /\ ClientAmountStep = AmountStep /\ ClientPriceStep = PriceStep
    /\ FormMinFunds \in [Quote -> Nat] /\ FormMaxPrice \in [Quote -> Nat] /\ FormMaxAmount \in Nat
    /\ FormMaxAmount <= MaxAmount * AmountStep
    /\ \A q \in Quote :
         /\ AmountStep * PriceStep[q] = FundsStep[q] * Scale
         /\ ClientFundsStep % FundsStep[q] = 0
         /\ FormMinFunds[q] % ClientFundsStep = 0
         /\ FormMinFunds[q] >= QuoteMin[q] * FundsStep[q]
         /\ FormMaxPrice[q] <= MaxPrice * PriceStep[q]

Form == {"LIMIT", "MARKET"} \X {"BID", "ASK"}
Me == CHOOSE u \in User : TRUE
Floor(x, step) == (x \div step) * step

VARIABLES
    trace,     \* the trace id in the forms
    waiting,   \* waiting[f]: number of the request whose answer form f waits for, or 0
    requests,  \* requests the server has not answered
    sent,      \* number of requests so far
    network,   \* transfers at the network: [s: the snapshot, request: its request]
    success,   \* history: the requests that were answered with success
    done       \* history: successes the page has seen, and times it was opened again

vars == <<trace, waiting, requests, sent, network, success, done>>

Init ==
    /\ trace = 1
    /\ waiting = [f \in Form |-> 0] /\ requests = {} /\ sent = 0
    /\ network = {} /\ success = {} /\ done = 0

-----------------------------------------------------------------------------
(* The page.                                                               *)

\* The page is opened again.
Render ==
    /\ trace < MaxSubmits
    /\ trace' = trace + 1 /\ done' = done + 1
    /\ waiting' = [f \in Form |-> 0]
    /\ UNCHANGED <<requests, sent, network, success>>

\* handleOrderCreate: a LIMIT bid has an amount, its funds are rounded half up.
FundsOfForm(f, e) ==
    IF f = <<"LIMIT", "BID">>
    THEN Floor((e.amount * e.price) \div Scale + ClientFundsStep \div 2, ClientFundsStep)
    ELSE e.funds

\* validateOrder.  Mutant: an ask is checked for its amount only.
TooSmallAsk(o) == o.side = "BID" /\ o.funds < FormMinFunds[o.quote]
TooSmall(o) ==
    \/ o.side = "BID" /\ o.funds < FormMinFunds[o.quote]
    \/ o.side = "ASK" /\ o.type = "LIMIT" /\ o.amount * o.price < FormMinFunds[o.quote] * Scale
    \/ o.side = "ASK" /\ o.type = "MARKET" /\ o.amount < ClientAmountStep

TooLarge(o) ==
    \/ o.type = "LIMIT" /\ o.price > FormMaxPrice[o.quote]
    \/ o.side = "BID" /\ o.funds * Scale > FormMaxPrice[o.quote] * FormMaxAmount
    \/ o.side = "ASK" /\ o.amount > FormMaxAmount

ValidateOrder(o) == ~ TooSmall(o) /\ ~ TooLarge(o)

OrderOfForm(m, f, e) ==
    [quote |-> m.quote, base |-> m.base, type |-> f[1], side |-> f[2],
     price |-> IF f[1] = "LIMIT" THEN e.price ELSE 0,
     amount |-> e.amount, funds |-> FundsOfForm(f, e)]

Request(o, from, t) == [no |-> sent + 1, from |-> from, order |-> o, trace |-> t, intent |-> done]

\* On the page of market m the user types e into form f and submits it.
Submit(m, f, e) ==
    /\ waiting[f] = 0 /\ sent < MaxSubmits
    /\ ValidateOrder(OrderOfForm(m, f, e))
    /\ requests' = requests \cup {Request(OrderOfForm(m, f, e), f, trace)}
    /\ sent' = sent + 1
    /\ waiting' = [waiting EXCEPT ![f] = sent + 1]
    /\ UNCHANGED <<trace, network, success, done>>

\* Another program posts an order, with a trace id of its own.
Post(o) ==
    /\ sent < MaxSubmits
    /\ requests' = requests \cup {Request(o, <<>>, 2 * MaxSubmits + 1 + sent)}
    /\ sent' = sent + 1
    /\ UNCHANGED <<trace, waiting, network, success, done>>

\* Which trace id the forms have after an answer.
\* Mutants: a new one after every answer; never a new one.
RenewedAlways(ok) == trace + 1
RenewedNever(ok) == trace
Renewed(ok) == IF ok THEN trace + 1 ELSE trace

\* The page sees the answer of request r, or an error in place of it.
Answered(r, ok) ==
    IF r.from \in Form /\ waiting[r.from] = r.no
    THEN /\ waiting' = [waiting EXCEPT ![r.from] = 0]
         /\ trace' = Renewed(ok)
         /\ done' = IF ok THEN done + 1 ELSE done
    ELSE UNCHANGED <<trace, waiting, done>>

-----------------------------------------------------------------------------
(* CreateOrder of the server.                                              *)

\* validateQuoteBase.
ReversedClient(quote, base) ==
    \/ quote \in {"BTC", "XIN"} /\ base = "USDT"
    \/ quote = "XIN" /\ base = "BTC"

ValidateQuoteBase(quote, base) ==
    quote # base /\ quote \in Quote /\ ~ ReversedClient(quote, base)

\* Mutant: prices in USDT keep 8 decimals.
PriceSentFine(o) == Floor(o.price, ClientPriceStep["BTC"])
PriceSent(o) == Floor(o.price, ClientPriceStep[o.quote])

\* Mutant: funds have the decimals of an amount.
AmountSentCoarse(o) == Floor(IF o.side = "BID" THEN o.funds ELSE o.amount, ClientAmountStep)
AmountSent(o) ==
    IF o.side = "BID" THEN Floor(o.funds, ClientFundsStep) ELSE Floor(o.amount, ClientAmountStep)

\* Mutant: the funds of a bid are compared with zero only.
BuysNothingNever(o) == FALSE
BuysNothing(o) ==
    o.side = "BID" /\ PriceSent(o) > 0
    /\ (AmountSent(o) * Scale) \div PriceSent(o) < ClientAmountStep

BadData(o) ==
    \/ o.quote = OOO \/ o.base = OOO \/ ~ ValidateQuoteBase(o.quote, o.base)
    \/ o.type \notin {"LIMIT", "MARKET"} \/ o.side \notin {"BID", "ASK"}
    \/ o.type = "LIMIT" /\ PriceSent(o) = 0
    \/ o.type = "MARKET" /\ PriceSent(o) # 0
    \/ BuysNothing(o)
    \/ AmountSent(o) = 0

\* What the network shows of the transfer to a broker.
Transfer(asset, amount, t) ==
    [broker |-> CHOOSE b \in Broker : TRUE, opponent |-> Me, trace |-> t, asset |-> asset,
     amount |-> amount, decodes |-> TRUE, key |-> NoKey, cancels |-> NoSnapshot,
     other |-> "", type |-> "", side |-> "", price |-> 0]

OrderTransfer(o, t) ==
    [Transfer(IF o.side = "BID" THEN o.quote ELSE o.base, AmountSent(o), t) EXCEPT
        !.other = IF o.side = "BID" THEN o.base ELSE o.quote,
        !.type = o.type, !.side = o.side, !.price = PriceSent(o)]

\* CancelOrder sends the least amount of the network, and a trace id of its own.
CancelTransfer(t, o) == [Transfer(OOO, ClientFundsStep, t) EXCEPT !.cancels = o]

Known(t) == {x \in network : x.s.trace = t}

\* bot.CreateTransfer: a trace id the network knows is not paid again.  It may also
\* fail, for want of funds, or because that trace id came with another content.
CreateTransfer(r) ==
    IF Known(r.trace) = {}
    THEN network' = network \cup {[s |-> OrderTransfer(r.order, r.trace), request |-> r]}
    ELSE UNCHANGED network

CreateOrder(r) ==
    /\ r \in requests /\ requests' = requests \ {r}
    /\ \/ /\ ~ BadData(r.order) /\ CreateTransfer(r)
          /\ \E ok \in BOOLEAN :   \* the answer may be lost
               /\ Answered(r, ok)
               /\ success' = IF ok THEN success \cup {r} ELSE success
       \/ UNCHANGED <<network, success>> /\ Answered(r, FALSE)
    /\ UNCHANGED sent

\* The browser gives up waiting.
TimeOut(f) ==
    /\ waiting[f] # 0
    /\ waiting' = [waiting EXCEPT ![f] = 0] /\ trace' = Renewed(FALSE)
    /\ UNCHANGED <<requests, sent, network, success, done>>

\* The user cancels the order x.
CancelOrder(x) ==
    /\ ~ \E y \in network : y.s.cancels = x.s.trace
    /\ network' = network \cup
          {[s |-> CancelTransfer(3 * MaxSubmits + x.request.no, x.s.trace), request |-> x.request]}
    /\ UNCHANGED <<trace, waiting, requests, sent, success, done>>

Orders == {x \in network : x.s.cancels = NoSnapshot}

Next ==
    \/ \E f \in Form : TimeOut(f) \/ \E m \in PageMarket, e \in Entry : Submit(m, f, e)
    \/ Render
    \/ \E o \in ApiOrder : Post(o)
    \/ \E r \in requests : CreateOrder(r)
    \/ \E x \in Orders : CancelOrder(x)

Spec == Init /\ [][Next]_vars

-----------------------------------------------------------------------------
TypeOK ==
    /\ trace \in 1..(2 * MaxSubmits) /\ sent \in 0..MaxSubmits /\ done = trace - 1
    /\ waiting \in [Form -> 0..sent]
    /\ \A r \in requests \cup success : r.no \in 1..sent /\ r.from \in Form \cup {<<>>}
    /\ \A x, y \in network : x # y => x.s.trace # y.s.trace

\* What the exchange reads in the snapshot is what was asked for, in every pair and
\* for every precision of the two programs: side, type and market, the price and the
\* amount to sell but for less than a unit, and the funds of a bid but for less than
\* the last decimal the server keeps.
PlacedAsEntered ==
    \A x \in Orders : Outcome(x.s) = "ORDER" =>
        LET o == x.request.order
            n == NewOrder(x.s)
        IN  /\ GetQuoteBasePair(x.s) = [quote |-> o.quote, base |-> o.base]
            /\ n.side = o.side /\ n.type = o.type
            /\ o.price - n.price * PriceStep[o.quote] \in 0..(PriceStep[o.quote] - 1)
            /\ o.side = "ASK" =>
                 o.amount - n.remainingAmount * AmountStep \in 0..(AmountStep - 1)
            /\ o.side = "BID" =>
                 o.funds - n.remainingFunds * FundsStep[o.quote] \in 0..(ClientFundsStep - 1)

\* A transfer of the server is an order or a cancellation for the exchange; it is
\* refunded only for being too small or too large, and never too large from the page.
RefundedOnlyForSize ==
    \A x \in network :
        \/ Outcome(x.s) = IF x.s.cancels = NoSnapshot THEN "ORDER" ELSE "CANCEL"
        \/ TooLittle(x.s, x.request.order.quote)
        \/ /\ x.request.from \notin Form
           /\ \/ TooMuch(x.s, x.request.order.quote)
              \/ x.s.price > MaxPrice * PriceStep[x.request.order.quote]

\* Not even for being too small: what the page lets through and loses to truncation
\* is less than a unit of the amount or of the price.
NearlyEnough ==
    \A x \in Orders :
        LET o == x.request.order
        IN  x.request.from \in Form /\ Outcome(x.s) = "REFUND" =>
                /\ o.type = "LIMIT" /\ o.side = "ASK"
                /\ (PriceOf(x.s, o.quote) + 1) * (AmountOf(x.s) + 1) > QuoteMin[o.quote]

\* A LIMIT bid of the example can pay for a unit at its own price, so that it never
\* makes a trade of nothing there (see Settlement).
BidBuysAUnit ==
    \A x \in Orders :
        Outcome(x.s) = "ORDER" /\ x.s.side = "BID" /\ x.s.type = "LIMIT" =>
            NewOrder(x.s).remainingFunds >= NewOrder(x.s).price

\* Between two successes the page places one order at most, however often the user
\* submits its forms again after errors and lost answers.
OneOrderPerSuccess ==
    \A x, y \in Orders :
        x.request.from \in Form /\ y.request.from \in Form /\ x.request.intent = y.request.intent
            => x = y

\* A success is the success of the order in the form, or of one that was submitted
\* with the same trace id since the last success the page saw: from another form, as
\* all forms share it, or from the same form before an error.
SuccessMeansPlaced ==
    \A r \in success : \E x \in Orders :
        \/ x.s = OrderTransfer(r.order, r.trace)
        \/ x.s.trace = r.trace /\ x.request.intent = r.intent
=============================================================================
