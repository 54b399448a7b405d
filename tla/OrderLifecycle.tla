--------------------------- MODULE OrderLifecycle ---------------------------
(***************************************************************************)
(* What the exchange promises a client about one order, whatever else      *)
(* happens: it is accepted once, its escrow only shrinks in trades, every  *)
(* trade uses up one of its two orders, and it ends once, either filled or *)
(* with what is left paid back.  Book implements it in memory; Exchange    *)
(* implements it in the database, crashes included.                        *)
(***************************************************************************)
EXTENDS Integers

CONSTANT Order

VARIABLES
    phase,   \* phase[o]: "new", "open", "filled" or "refunded"
    left     \* left[o]: the part of the escrow that is not traded

Phase == {"new", "open", "filled", "refunded"}

Init ==
    /\ phase = [o \in Order |-> "new"]
    /\ left \in [Order -> Nat]

After(n) == IF n = 0 THEN "filled" ELSE "open"

Accept(o) ==
    /\ phase[o] = "new"
    /\ phase' = [phase EXCEPT ![o] = After(left[o])]
    /\ UNCHANGED left

Trade(a, b) ==
    /\ a # b
    /\ phase[a] = "open" /\ phase[b] = "open"
    /\ \E na \in 0..left[a], nb \in 0..left[b] :
         /\ na = 0 \/ nb = 0
         /\ left' = [left EXCEPT ![a] = na, ![b] = nb]
         /\ phase' = [phase EXCEPT ![a] = After(na), ![b] = After(nb)]

Refund(o) ==
    /\ phase[o] = "open"
    /\ phase' = [phase EXCEPT ![o] = "refunded"]
    /\ UNCHANGED left

Next ==
    \/ \E o \in Order : Accept(o) \/ Refund(o)
    \/ \E a, b \in Order : Trade(a, b)

Spec == Init /\ [][Next]_<<phase, left>>
=============================================================================
