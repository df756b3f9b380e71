------------------------------ MODULE MCPaygate ------------------------------
(* Paygate with a few layers, clients and facilitators, for TLC.           *)
EXTENDS Paygate

Buyer == [schemes |-> <<"eip155", "solana">>, selector |-> "max",
          prefer |-> "solana", limit |-> 1]
Shop == [version |-> 1, layer |-> <<"solana", "eip155">>, before |-> TRUE,
         duplicates |-> "rejected", client |-> Buyer, timeout |-> FALSE,
         time |-> 0, prices |-> 2, payers |-> 1]

\* One layer meets the clock, one a rotating fee payer, the others prices; two
\* have a time-out for the facilitator.
Shops == {[Shop EXCEPT !.prices = 1, !.time = 3],
          [Shop EXCEPT !.version = 2, !.before = FALSE, !.timeout = TRUE],
          [Shop EXCEPT !.before = FALSE, !.client.selector = "prefer", !.payers = 2],
          [Shop EXCEPT !.version = 2, !.duplicates = "repeated",
                       !.client.selector = "first", !.timeout = TRUE]}

\* Prices rise, so that a facilitator has a reason to refuse.
DearShops == {Shop, [Shop EXCEPT !.before = FALSE]}

SolanaShops == {[Shop EXCEPT !.version = 2, !.layer = <<"solana">>]}
=============================================================================
