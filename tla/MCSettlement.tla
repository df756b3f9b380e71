---------------------------- MODULE MCSettlement ----------------------------
(* Settlement on small sets of requests and transactions, for TLC.         *)
EXTENDS SettlementRefinement
=============================================================================
