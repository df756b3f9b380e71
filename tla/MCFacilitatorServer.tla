------------------------- MODULE MCFacilitatorServer -------------------------
(* FacilitatorServer with a few files and requests, for TLC.               *)
EXTENDS FacilitatorServer, TLC

Devnet == "EtWTRABZaYq6iMfeYKouRu166VU2xqa1"
MCNumerals == ("8453" :> "8453") @@ ("08453" :> "8453") @@ ("84532" :> "84532")
              @@ ("7" :> "7") @@ ("1" :> "1")
MCGenesis == {Devnet}

Good == [form |-> "string", text |-> "good"]
Key == [form |-> "env", text |-> "KEY"]
Bare == [form |-> "bare", text |-> "good"]

Chain(key, values) ==
    [key |-> key, values |-> values, signers |-> 1, http |-> TRUE, pubsub |-> FALSE, sponsor |-> FALSE]
Base == Chain(<<"eip155", "8453">>, {Key})
BaseAgain == Chain(<<"eip155", "08453">>, {Good})
Sepolia == Chain(<<"eip155", "84532">>, {Good})
Unnamed == Chain(<<"eip155", "7">>, {Good})
Solana == Chain(<<"solana", Devnet>>, {Good})
Aptos == Chain(<<"aptos", "1">>, {Good})

All(namespace) == [kind |-> "wildcard", namespace |-> namespace, references |-> {}]
These(namespace, references) == [kind |-> "set", namespace |-> namespace, references |-> references]
Scheme(id, pattern) == [id |-> id, enabled |-> TRUE, pattern |-> pattern, config |-> TRUE]
File(cs, schemes) == [readable |-> TRUE, chains |-> cs, schemes |-> schemes]

MCFiles ==
    { \* two spellings of Base, one of them out of a pattern's reach
      File(<<Base, BaseAgain, Sepolia>>,
           <<Scheme("v1-eip155-exact", These("eip155", {"8453", "84532"})),
             Scheme("v2-eip155-exact", These("eip155", {"08453"}))>>),
      \* an unknown scheme, one without a chain, one disabled; a chain without a name
      File(<<Sepolia, Unnamed>>,
           <<Scheme("v3-eip155-exact", All("eip155")), Scheme("v2-aptos-exact", All("aptos")),
             [Scheme("v2-eip155-exact", All("eip155")) EXCEPT !.enabled = FALSE],
             Scheme("v1-eip155-exact", All("eip155"))>>),
      \* Solana by polling; the second entry for it cannot be built
      File(<<Solana, Aptos>>,
           <<Scheme("v2-solana-exact", All("solana")), Scheme("v1-solana-exact", All("solana")),
             [Scheme("v2-solana-exact", All("solana")) EXCEPT !.config = FALSE],
             Scheme("v2-aptos-exact", All("aptos")), Scheme("v1-eip155-exact", All("solana"))>>),
      \* Solana with a websocket, twice
      File(<<[Solana EXCEPT !.pubsub = TRUE]>>,
           <<Scheme("v2-solana-exact", All("solana")),
             Scheme("v2-solana-exact", These("solana", {Devnet}))>>),
      \* files the server does not start with
      File(<<[Aptos EXCEPT !.values = {Bare}]>>, <<>>),
      File(<<[Aptos EXCEPT !.sponsor = TRUE, !.signers = 0]>>, <<>>),
      File(<<[Base EXCEPT !.signers = 0]>>, <<>>),
      File(<<Chain(<<"cardano", "1">>, {Good})>>, <<>>),
      File(<<Base>>, <<Scheme("v2-eip155-exact", These("eip155", {""}))>>),
      [File(<<>>, <<>>) EXCEPT !.readable = FALSE] }

Pay(endpoint, version, network) ==
    [endpoint |-> endpoint, version |-> version, scheme |-> "exact", network |-> network]
MCRequests ==
    { Pay("supported", 2, <<>>), Pay("settle", 3, <<"base">>),
      Pay("verify", 1, <<"base">>), Pay("settle", 1, <<"base-sepolia">>),
      Pay("settle", 2, <<"eip155", "8453">>), Pay("verify", 2, <<"eip155", "08453">>),
      Pay("verify", 2, <<"eip155", "7">>), Pay("settle", 1, <<"solana-devnet">>),
      Pay("settle", 2, <<"solana", Devnet>>), Pay("verify", 2, <<"aptos", "1">>),
      Pay("verify", 2, <<"base">>) }
=============================================================================
