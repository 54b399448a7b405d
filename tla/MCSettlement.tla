---------------------------- MODULE MCSettlement ----------------------------
(***************************************************************************)
(* A market of two orders and two brokers for TLC, with a crash and a lost *)
(* reply.  MCOrderPath has a taker of two makers.                          *)
(***************************************************************************)
EXTENDS SettlementInvariant
=============================================================================
