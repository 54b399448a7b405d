------------------------------- MODULE MCBook -------------------------------
(***************************************************************************)
(* Small books for TLC.  The ids of orders are interchangeable.            *)
(***************************************************************************)
EXTENDS BookInvariant, TLC

OrderSymmetry == Permutations(Order)
=============================================================================
