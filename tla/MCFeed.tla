------------------------------- MODULE MCFeed -------------------------------
(* Small instances of Feed; clients are interchangeable.                   *)
EXTENDS FeedInvariant, TLC

ClientSymmetry == Permutations(Client)
=============================================================================
