------------------------ MODULE SettlementRefinement ------------------------
(***************************************************************************)
(* Settlement implements SettlementService: a call is open from the        *)
(* arrival of the request to its answer, and paid is what Blockfrost finds.*)
(***************************************************************************)
EXTENDS Settlement

CallOf(r) ==
  CASE pc[r] = "idle" -> "none"
    [] pc[r] = "done" -> IF reply[r].outcome = "success" THEN "yes" ELSE "no"
    [] OTHER -> "open"

Service == INSTANCE SettlementService WITH
  tx <- tx,
  call <- [r \in Requests |-> CallOf(r)],
  paid <- [t \in Txs |-> chain[t] = "onchain"]

\* Every behaviour of the settlement, crashes and Redis failures included, is
\* one of the service: what it answers, when, and that it answers at all
\* (settle-payment.ts:117-271, routes/settle.ts:38-101).
ImplementsService == Service!FairServiceSpec

=============================================================================
