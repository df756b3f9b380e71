--------------------------- MODULE MCExactSchemes ----------------------------
(* ExactSchemes with a few wallets, offers and transactions, for TLC.      *)
EXTENDS ExactSchemes

\* A plain account, a smart wallet with code, one that has none yet.
MCWallets == {"e", "d", "c"}
MCForm == [w \in MCWallets |-> CASE w = "e" -> "eoa" [] w = "d" -> "deployed"
                                 [] w = "c" -> "counterfactual"]
MCSpeaks == [w \in MCWallets |-> CASE w = "e" -> {1} [] w = "d" -> {1} [] w = "c" -> {2}]
MCLeads == {0, 2}

\* The offer of version 1 lasts as long as the margin, that of version 2 longer.
Offer(v, network, payee, amount, domain) ==
    [version |-> v, network |-> network, payTo |-> payee, amount |-> amount,
     timeout |-> v, extra |-> domain]
MCOffers == {Offer(1, "base", "shop", 1, TRUE), Offer(2, "base", "shop", 1, TRUE),
             Offer(1, "other", "mall", 2, FALSE)}

SolanaOffer(v, network, payee, amount) ==
    [version |-> v, network |-> network, payTo |-> payee, amount |-> amount,
     asset |-> "usdc", feePayer |-> network = "solana"]
MCSolanaOffers == {SolanaOffer(1, "solana", "shop", 1), SolanaOffer(2, "solana", "shop", 1),
                   SolanaOffer(2, "solana", "mall", 1), SolanaOffer(1, "solana", "shop", 2)}

\* The defaults, polling; a strict websocket; one that takes sponsored programs.
Setting == [allow |-> TRUE, most |-> 4, allowed |-> {"guard", "sponsor"}, blocked |-> {},
            strict |-> TRUE, pubsub |-> TRUE]
MCSettings == {Setting, [Setting EXCEPT !.pubsub = FALSE, !.allow = FALSE],
               [Setting EXCEPT !.most = 3], [Setting EXCEPT !.strict = FALSE, !.blocked = {"guard"}]}
Draft == [shape |-> <<"limit", "price", "transfer">>, units |-> 1, price |-> 1,
          authority |-> "client", complete |-> TRUE]
With(program) == [Draft EXCEPT !.shape = Append(@, program)]
MCDrafts == {Draft, With("guard"), With("sponsor"), With("other"),
             [Draft EXCEPT !.shape = <<"limit", "price", "create", "transfer">>],
             [Draft EXCEPT !.shape = <<"price", "limit">>],
             [Draft EXCEPT !.units = 2], [Draft EXCEPT !.price = 2],
             [Draft EXCEPT !.authority = "facilitator"], [Draft EXCEPT !.complete = FALSE]}

AptosOffer(payee) == [network |-> "aptos:1", asset |-> "usdc", payTo |-> payee, amount |-> 1]
MCAptosOffers == {AptosOffer("shop"), AptosOffer("mall")}
AptosPayment(payee, fn, authenticator) ==
    [accepted |-> AptosOffer("shop"), kind |-> "entry",
     call |-> <<"primary_fungible_store", fn>>, args |-> <<"usdc", payee, 1>>,
     authenticator |-> authenticator, genuine |-> TRUE]
MCAptosPayments ==
    {AptosPayment("shop", "transfer", "ed25519"), AptosPayment("shop", "transfer", "multi"),
     AptosPayment("mall", "transfer", "ed25519"), AptosPayment("shop", "burn", "ed25519"),
     [AptosPayment("shop", "transfer", "ed25519") EXCEPT !.genuine = FALSE]}
=============================================================================
