----------------------------- MODULE MCExchange -----------------------------
(***************************************************************************)
(* Small exchanges for TLC.  The ids of orders are interchangeable.        *)
(***************************************************************************)
EXTENDS ExchangeInvariant, TLC

OrderSymmetry == Permutations(Order)
=============================================================================
