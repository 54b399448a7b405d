----------------------------- MODULE MCOrderPath -----------------------------
(***************************************************************************)
(* Small instances of the parts of OrderPath.                              *)
(***************************************************************************)
EXTENDS OrderPath, TLC

\* One finest unit of an asset is half a unit of an amount, and funds are finer for
\* BTC and XIN than for USDT.
Assets == {"XIN", "BTC", "USDT", "DOGE"}
Quotes == {"XIN", "BTC", "USDT"}
PriceSteps == [q \in Quotes |-> IF q = "USDT" THEN 2 ELSE 1]
FundsSteps == [q \in Quotes |-> IF q = "USDT" THEN 4 ELSE 2]
QuoteMins == [q \in Quotes |-> IF q = "USDT" THEN 2 ELSE 1]

Sell == [broker |-> CHOOSE b \in Broker : TRUE, opponent |-> CHOOSE u \in User : TRUE,
         trace |-> 1, asset |-> "XIN", amount |-> 4, decodes |-> TRUE, key |-> NoKey,
         cancels |-> 0, other |-> "BTC", type |-> "LIMIT", side |-> "ASK", price |-> 2]

\* Every order a memo may carry, and every envelope an order may come in.
Orders == {[Sell EXCEPT !.asset = a, !.amount = x, !.other = o, !.type = t, !.side = d, !.price = p] :
              a \in Assets, x \in {-2, 1, 3, 4, 9, 50}, o \in Assets,
              t \in {"LIMIT", "MARKET", ""}, d \in {"ASK", "BID", ""}, p \in {0, 1, 2, 9}}
Envelopes == {[Sell EXCEPT !.broker = b, !.opponent = u, !.trace = t, !.decodes = d, !.key = k] :
                b \in Broker \cup {NoBroker}, u \in User \cup {NoUser}, t \in {0, 1},
                d \in BOOLEAN, k \in PublicKey \cup {NoKey}}
Contents == Orders \cup Envelopes

\* An order, a cancellation of the first snapshot, and two keys.
LongLogs ==
    {Sell, [Sell EXCEPT !.cancels = 1]} \cup {[Sell EXCEPT !.key = k] : k \in PublicKey}

\* The page and the server with binary digits: 16 finest units are one; an amount has 1
\* digit, a price 2 digits or, in USDT, 1, and funds the digits of both.
Digits ==
    [asset |-> {"XIN", "BTC", "USDT", "DOGE", "OOO"}, ooo |-> "OOO", scale |-> 16,
     amountStep |-> 8, priceStep |-> [q \in Quotes |-> IF q = "USDT" THEN 8 ELSE 4],
     fundsStep |-> [q \in Quotes |-> IF q = "USDT" THEN 4 ELSE 2],
     quoteMin |-> [q \in Quotes |-> IF q = "USDT" THEN 4 ELSE 2],
     maxPrice |-> 16, maxAmount |-> 8, clientFundsStep |-> 4,
     formMinFunds |-> [q \in Quotes |-> IF q = "USDT" THEN 16 ELSE 4],
     formMaxPrice |-> [q \in Quotes |-> 32], formMaxAmount |-> 32]

\* Around the steps, the minima and the maxima.
Typed == {3, 4, 7, 8, 12, 21, 32, 33}
Entries == {[price |-> p, amount |-> a, funds |-> f] : p \in Typed, a \in Typed, f \in {7, 8, 64, 65}}
Posted ==
    {[quote |-> q, base |-> b, type |-> t, side |-> s, price |-> p, amount |-> a, funds |-> a] :
        q \in Digits.asset, b \in Digits.asset,
        t \in {"LIMIT", "MARKET", ""}, s \in {"BID", "ASK", ""},
        p \in {0, 3, 9, 33}, a \in {0, 1, 9, 300}}

\* One request with every value, or several requests that are lost and tried again.
AllValues ==
    Digits @@ [pageMarket |-> {[quote |-> q, base |-> "DOGE"] : q \in {"USDT", "BTC"}},
               entry |-> Entries, apiOrder |-> Posted, maxSubmits |-> 1]
AllRetries ==
    Digits @@ [pageMarket |-> {[quote |-> "USDT", base |-> "BTC"]},
               entry |-> {[price |-> 8, amount |-> a, funds |-> 8] : a \in {16, 24}},
               apiOrder |-> {}, maxSubmits |-> 3]
=============================================================================
