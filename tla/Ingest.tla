------------------------------- MODULE Ingest -------------------------------
(***************************************************************************)
(* What becomes of one snapshot: processSnapshot of mixin.go and its       *)
(* helpers.  A snapshot is a transfer somebody made; if it went to one of  *)
(* the brokers with a value and a sender, its memo says what to do.        *)
(*                                                                         *)
(* Decimals are natural numbers of a finest unit.  The precision of a      *)
(* number.Integer is a step: AmountStep finest units of an asset make one  *)
(* unit of an amount, PriceStep[q] finest units of a price one unit of a   *)
(* price in q, FundsStep[q] finest units of q one unit of funds; a unit of *)
(* price times a unit of amount is a unit of funds.  Decimal.Integer       *)
(* truncates to whole units, and NewDecimal(n, precision) is n units.      *)
(***************************************************************************)
EXTENDS Integers

CONSTANTS
    Broker,        \* the brokers AllBrokers returned when the process started
    NoBroker,      \* any other account
    User,
    NoUser,        \* the opponent_id is empty
    Key,           \* public keys, a U of more than 16 bytes
    NoKey,
    Asset,         \* asset ids, "XIN", "BTC" and "USDT" among them
    AmountStep,    \* AmountPrecision
    PriceStep,     \* PriceStep[q]: QuotePrecision
    FundsStep,     \* FundsStep[q]: AmountPrecision + QuotePrecision
    QuoteMin,      \* QuoteMin[q]: QuoteMinimum in units of funds
    MaxPrice,      \* in units of a price
    MaxAmount,     \* in units of an amount
    RefundFee,     \* refundSnapshot keeps RefundFee of FeeScale parts, 1 of 1000
    FeeScale

Quote == {"XIN", "BTC", "USDT"}
NoSnapshot == 0    \* trace id and order id are empty

IngestAssumption ==
    /\ NoBroker \notin Broker /\ NoUser \notin User /\ NoKey \notin Key
    /\ Quote \subseteq Asset
    /\ AmountStep \in Nat \ {0} /\ {MaxPrice, MaxAmount} \subseteq Nat
    /\ {PriceStep, FundsStep} \subseteq [Quote -> Nat \ {0}]
    /\ QuoteMin \in [Quote -> Nat \ {0}]
    /\ FeeScale \in Nat \ {0} /\ RefundFee \in 0..FeeScale

-----------------------------------------------------------------------------
(* A snapshot s: user_id is s.broker; the memo decodes or not, and carries    *)
(* a key, an order to cancel, or an order.                                    *)

\* A type or side that is neither of the two is "".
SnapshotRecord ==
    [broker : Broker \cup {NoBroker}, opponent : User \cup {NoUser}, trace : Nat,
     asset : Asset, amount : Int, decodes : BOOLEAN, key : Key \cup {NoKey},
     cancels : Nat, other : Asset, type : {"LIMIT", "MARKET", ""},
     side : {"ASK", "BID", ""}, price : Nat]

\* Exhausted: nothing is left at the precision of the network.  The payments of a
\* broker are snapshots of a negative amount.
\* Mutant: only zero is exhausted.
ExhaustedZero(x) == x = 0
Exhausted(x) == x <= 0

Ignored(s) ==
    \/ s.broker \notin Broker
    \/ s.opponent = NoUser \/ s.trace = NoSnapshot
    \/ Exhausted(s.amount)

NoPair == [quote |-> "", base |-> ""]

\* One of the two assets of a pair is its quote, whichever side the order is on.
\* Mutant: XIN may quote BTC.
ReversedUSDT(quote, base) == quote \in {"BTC", "XIN"} /\ base = "USDT"
Reversed(quote, base) ==
    \/ quote \in {"BTC", "XIN"} /\ base = "USDT"
    \/ quote = "XIN" /\ base = "BTC"

GetQuoteBasePair(s) ==
    LET quote == IF s.side = "ASK" THEN s.other ELSE s.asset
        base == IF s.side = "ASK" THEN s.asset ELSE s.other
    IN  IF \/ s.side \notin {"ASK", "BID"}
           \/ quote = base \/ quote \notin Quote
           \/ Reversed(quote, base)
        THEN NoPair
        ELSE [quote |-> quote, base |-> base]

\* The integers of the order, for a pair with a quote.
PriceOf(s, q) == s.price \div PriceStep[q]
AmountOf(s) == s.amount \div AmountStep
FundsOf(s, q) == s.amount \div FundsStep[q]

\* An order whose integers would be greater than what 64 bits allow for.
MaxFunds == MaxPrice * MaxAmount
TooMuch(s, q) ==
    \/ s.side = "BID" /\ s.amount > MaxFunds * FundsStep[q]
    \/ s.side = "ASK" /\ s.amount > MaxAmount * AmountStep

\* Less than the minimum of its quote, at its own price.
TooLittle(s, q) ==
    \/ s.side = "BID" /\ FundsOf(s, q) < QuoteMin[q]
    \/ /\ s.side = "ASK" /\ s.type = "LIMIT"
       /\ PriceOf(s, q) * AmountOf(s) < QuoteMin[q]

\* A LIMIT order has a price and a MARKET order has none.
WrongPrice(s, q) == (s.type = "LIMIT") = (PriceOf(s, q) = 0)

Rejected(s) ==
    \/ s.other = s.asset
    \/ s.type \notin {"LIMIT", "MARKET"}
    \/ LET q == GetQuoteBasePair(s).quote
       IN  \/ q = ""
           \/ s.price > MaxPrice * PriceStep[q]
           \/ WrongPrice(s, q)
           \/ TooMuch(s, q)
           \/ TooLittle(s, q)

\* The first test that applies decides.
Outcome(s) ==
    IF Ignored(s) THEN "IGNORED"
    ELSE IF ~ s.decodes THEN "REFUND"
    ELSE IF s.key # NoKey THEN "KEY"
    ELSE IF s.cancels # NoSnapshot THEN "CANCEL"
    ELSE IF Rejected(s) THEN "REFUND" ELSE "ORDER"

\* The engine.Order that CreateOrderAction is given.
NewOrder(s) ==
    LET q == GetQuoteBasePair(s).quote
    IN  [side |-> s.side, type |-> s.type, price |-> PriceOf(s, q),
         remainingAmount |-> IF s.side = "ASK" THEN AmountOf(s) ELSE 0, filledAmount |-> 0,
         remainingFunds |-> IF s.side = "BID" THEN FundsOf(s, q) ELSE 0, filledFunds |-> 0]

\* refundSnapshot.
RefundAmount(s) == (s.amount * (FeeScale - RefundFee)) \div FeeScale
=============================================================================
