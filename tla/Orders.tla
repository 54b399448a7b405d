------------------------------- MODULE Orders -------------------------------
(***************************************************************************)
(* Orders and the arithmetic of a match: engine/order.go and Book.process. *)
(* The engine (Book) and the payment of its trades (Settlement) share it.  *)
(*                                                                         *)
(* A number.Integer is the natural number of its smallest units.  The      *)
(* product of an amount and a price has the precision of funds, and Div    *)
(* truncates, so Mul and Div are * and \div.                               *)
(***************************************************************************)
EXTENDS Integers

CONSTANTS
    MaxPrice,         \* the limit processSnapshot puts on a price
    Price,            \* prices of LIMIT orders
    QuoteMinimum,     \* the least funds of an order
    AskAmount,        \* amounts ASK orders are placed with
    BidFunds          \* funds BID orders are placed with

ASSUME PriceAssumption == MaxPrice \in Nat /\ Price \subseteq 1..MaxPrice
ASSUME SizeAssumption ==
    AskAmount \subseteq Nat /\ BidFunds \subseteq Nat /\ QuoteMinimum \in Nat \ {0}

Side == {"ASK", "BID"}
Opposite(s) == IF s = "ASK" THEN "BID" ELSE "ASK"

OrderRecord ==
    [side : Side, type : {"LIMIT", "MARKET"}, price : Nat,
     remainingAmount : Nat, filledAmount : Nat,
     remainingFunds : Nat, filledFunds : Nat]

\* Order.assert: what AttachOrderEvent lets into the channel.
WellFormed(r) ==
    /\ r.side = "ASK" => r.remainingFunds = 0
    /\ r.side = "BID" => r.remainingAmount = 0
    /\ r.type = "LIMIT" => r.price \in Price
    /\ r.type = "MARKET" => r.price = 0

\* The orders processSnapshot lets through: nothing is filled, the funds of a BID
\* and the worth of a LIMIT ASK reach the minimum of the quote asset.
Placement ==
    LET New(s, t, p, a, f) ==
          [side |-> s, type |-> t, price |-> p, remainingAmount |-> a,
           filledAmount |-> 0, remainingFunds |-> f, filledFunds |-> 0]
        any == {New("ASK", "LIMIT", p, a, 0) : p \in Price, a \in AskAmount}
               \cup {New("BID", "LIMIT", p, 0, f) : p \in Price, f \in BidFunds}
               \cup {New("ASK", "MARKET", 0, a, 0) : a \in AskAmount}
               \cup {New("BID", "MARKET", 0, 0, f) : f \in BidFunds}
    IN  {r \in any :
           /\ r.side = "BID" => r.remainingFunds >= QuoteMinimum
           /\ r.side = "ASK" /\ r.type = "LIMIT" => r.price * r.remainingAmount >= QuoteMinimum}

Remaining(r) == IF r.side = "ASK" THEN r.remainingAmount ELSE r.remainingFunds
Filled(r) == Remaining(r) = 0

-----------------------------------------------------------------------------
(* Matching arithmetic: Book.process.                                      *)

\* What an order can give at a price, as an amount and as funds.  Mutant: the
\* amount of a bid is rounded up.
AvailableRoundedUp(r, p) ==
    IF r.side = "ASK"
    THEN [amount |-> r.remainingAmount, funds |-> r.remainingAmount * p]
    ELSE [amount |-> (r.remainingFunds + p - 1) \div p, funds |-> r.remainingFunds]
Available(r, p) ==
    IF r.side = "ASK"
    THEN [amount |-> r.remainingAmount, funds |-> r.remainingAmount * p]
    ELSE [amount |-> r.remainingFunds \div p, funds |-> r.remainingFunds]

\* The maker's price; the maker's pair unless the taker has less of either.
\* Mutant: the maker's pair in any case.
MatchedMaker(t, m) == Available(m, m.price)
Matched(t, m) ==
    LET tp == Available(t, m.price)
        mp == Available(m, m.price)
    IN  IF tp.amount < mp.amount \/ tp.funds < mp.funds THEN tp ELSE mp

Fill(r, x) ==
    [r EXCEPT !.filledAmount = @ + x.amount,
              !.filledFunds = @ + x.funds,
              !.remainingAmount = IF r.side = "ASK" THEN @ - x.amount ELSE @,
              !.remainingFunds = IF r.side = "BID" THEN @ - x.funds ELSE @]

\* The part of a match that entry.Amount or entry.Funds loses.  Mutant: swapped.
LevelPartSwapped(s, x) == IF s = "ASK" THEN x.funds ELSE x.amount
LevelPart(s, x) == IF s = "ASK" THEN x.amount ELSE x.funds

\* The order of entries on a page: entryCompare.
Better(s, p, q) == IF s = "ASK" THEN p < q ELSE p > q
=============================================================================
