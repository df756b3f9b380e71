------------------------------- MODULE Paygate -------------------------------
(***************************************************************************)
(* A paid request from end to end in Rust: the middleware of x402-reqwest  *)
(* asks, is offered payment requirements with a 402, chooses one, signs    *)
(* and asks once more; the layer of x402-axum verifies the payment, runs   *)
(* the handler and settles, in the one order or the other; its facilitator *)
(* client caches what GET /supported says.                                 *)
(*                                                                         *)
(* The facilitator and the chain are external here: a payment is valid     *)
(* while it covers what is required, names the fee payer the facilitator   *)
(* has now and has not been used; calls and answers may be lost, and a     *)
(* call the gate gave up on goes on.                                       *)
(***************************************************************************)
EXTENDS Naturals, Sequences, FiniteSets

CONSTANTS Requests,     \* requests of applications, each with at most one retry
          Configs,      \* layers with their clients and facilitators, and bounds on
                        \* what may change: time, prices, fee payers
          TTL,          \* lifetime of a cached /supported
          MaxDelay,     \* a /supported answer is at most this long on its way
          Faults        \* subset of {"lost", "crash", "refusal", "stream", "replay"}

ASSUME PaygateAssumption ==
    /\ "nobody" \notin Requests
    /\ \A c \in Configs : /\ c.version \in {1, 2}
                          /\ c.before \in BOOLEAN /\ c.timeout \in BOOLEAN
                          /\ c.layer \in Seq({"eip155", "solana"})
                          /\ c.duplicates \in {"rejected", "repeated"}
                          /\ c.client.selector \in {"first", "prefer", "max"}
                          /\ c.time \in Nat /\ c.prices \in Nat \ {0} /\ c.payers \in Nat \ {0}
    /\ TTL \in Nat /\ MaxDelay \in Nat
    /\ Faults \subseteq {"lost", "crash", "refusal", "stream", "replay"}

VARIABLES
    config,     \* networks and version of the layer, its client, whether it
                \* settles before the handler runs, whether its calls to the
                \* facilitator time out, what its facilitator does with a used
                \* payment: chosen once
    price,      \* what the dynamic price tags say now; 0: the route is free
    payer,      \* fee payer the facilitator has now
    now,
    cache,      \* SupportedCache: what was said, when, and until when it is used
    stage,      \* of each request
    tags,       \* price tags resolved for it
    offer,      \* requirements of the 402 its client holds
    pay,        \* payment its client signed
    due,        \* amount of the price tag the payment matched
    job,        \* call the facilitator has not answered: "none", "verify", "settle"
    wire,       \* answer on its way to the gate
    fetch,      \* answer of GET /supported on its way to the gate
    answer,     \* what its application got
    told,       \* ghost: answers of POST /settle that reached the gate
    chain       \* request whose settlement moved the payment of a request

outside == <<price, payer, now>>
vars == <<config, price, payer, now, cache, stage, tags, offer, pay, due, job,
          wire, fetch, answer, told, chain>>

None == 0
NoPayment == [of |-> "nobody"]
NoCache == [payer |-> None, asOf |-> 0, expires |-> 0]
NoOffer == [accepts |-> <<>>, age |-> 0]

(* What a facilitator answers; what cannot be read as one of these is an    *)
(* error of the call.                                                       *)
VerifyResponse == {"valid", "invalid"}
SettleResponse == {"success", "refusal"}

(* A price tag, and the requirements it makes.  An eip155 tag is complete;  *)
(* a Solana tag lacks the fee payer until the facilitator's capabilities    *)
(* are known.                                                               *)
Tag(network, amount) == [network |-> network, amount |-> amount, extra |-> None]

Resolve == IF price = 0 THEN <<>>
           ELSE [i \in DOMAIN config.layer |-> Tag(config.layer[i], price + i - 1)]

Enriched(tag, known) ==
    IF tag.network = "solana" /\ tag.extra = None /\ known # None
    THEN [tag EXCEPT !.extra = known] ELSE tag

EnrichedAll(ts, known) == [i \in DOMAIN ts |-> Enriched(ts[i], known)]

----------------------------------------------------------------------------
(* The client's choice: every registered scheme, in the order of            *)
(* registration, offers the requirements it accepts as candidates.          *)
Candidates(accepts) ==
    {c \in (DOMAIN config.client.schemes) \X (DOMAIN accepts) :
        accepts[c[2]].network = config.client.schemes[c[1]]}

Before(c, d) == c[1] < d[1] \/ (c[1] = d[1] /\ c[2] <= d[2])
FirstOf(C) == {c \in C : \A d \in C : Before(c, d)}

Preferred(accepts, C) == {c \in C : accepts[c[2]].network = config.client.prefer}

FirstMatch(C) == FirstOf(C)
PreferChain(accepts, C) ==
    IF Preferred(accepts, C) = {} THEN FirstOf(C) ELSE FirstOf(Preferred(accepts, C))

MaxAmount(accepts, C) ==
    FirstOf({c \in C : accepts[c[2]].amount <= config.client.limit})

Selected(accepts) ==
    LET C == Candidates(accepts) IN
    CASE config.client.selector = "first"  -> FirstMatch(C)
      [] config.client.selector = "prefer" -> PreferChain(accepts, C)
      [] config.client.selector = "max"    -> MaxAmount(accepts, C)

\* A signer of the Solana schemes needs the fee payer of the requirements.
Signable(requirements) == requirements.network = "solana" => requirements.extra # None

----------------------------------------------------------------------------
TypeOK ==
    /\ stage \in [Requests -> {"idle", "retry", "refused", "fetching", "offered",
                               "verifying", "inner", "settling", "done"}]
    /\ job \in [Requests -> {"none", "verify", "settle"}]
    /\ wire \in [Requests -> {"none", "error"} \cup VerifyResponse \cup SettleResponse]
    /\ told \in [Requests -> {"none", "error"} \cup SettleResponse]
    /\ answer \in [Requests -> {"none", "free", "paid", "402", "handler", "client"}]
    /\ chain \in [Requests -> Requests \cup {"nobody"}]
    /\ due \in [Requests -> Nat]
    /\ payer \in 1 .. config.payers /\ now \in 0 .. config.time /\ price \in 0 .. config.prices
    /\ cache.expires \in 0 .. config.time + TTL
    /\ \A r \in Requests : fetch[r].payer \in 0 .. config.payers

Init ==
    /\ config \in Configs
    /\ price = 1
    /\ payer = 1
    /\ now = 0
    /\ cache = NoCache
    /\ stage = [r \in Requests |-> "idle"]
    /\ tags = [r \in Requests |-> <<>>]
    /\ offer = [r \in Requests |-> NoOffer]
    /\ pay = [r \in Requests |-> NoPayment]
    /\ due = [r \in Requests |-> 0]
    /\ job = [r \in Requests |-> "none"]
    /\ wire = [r \in Requests |-> "none"]
    /\ fetch = [r \in Requests |-> NoCache]
    /\ answer = [r \in Requests |-> "none"]
    /\ told = [r \in Requests |-> "none"]
    /\ chain = [r \in Requests |-> "nobody"]

Go(r, s) == stage' = [stage EXCEPT ![r] = s]
Finish(r, a) == Go(r, "done") /\ answer' = [answer EXCEPT ![r] = a]

----------------------------------------------------------------------------
(* X402MiddlewareService::call and the first part of handle_request.  The   *)
(* payload of V2 has to equal the requirements of a price tag; that of V1   *)
(* names scheme and network only.  A header that cannot be read is refused  *)
(* like one that matches nothing.                                           *)

FitsV1(tag, p) == tag.network = p.accepted.network
FitsV2(tag, p) == tag = p.accepted
Fits(tag, p) == IF config.version = 1 THEN FitsV1(tag, p) ELSE FitsV2(tag, p)

\* Mutant: the payment is asked for what its payload says it accepted.
MatchingAsAccepted(ts, p) ==
    {[ts[i] EXCEPT !.amount = p.accepted.amount] : i \in {j \in DOMAIN ts : FitsV1(ts[j], p)}}

Matching(ts, p) ==
    LET fits == {i \in DOMAIN ts : Fits(ts[i], p)} IN
    {ts[i] : i \in {j \in fits : \A k \in fits : j <= k}}

Bypass(r) ==
    /\ stage[r] \in {"idle", "retry"}
    /\ Resolve = <<>>
    /\ Finish(r, "free")
    /\ UNCHANGED <<config, outside, cache, tags, offer, pay, due, job, wire, fetch, told, chain>>

AskForPayment(r) ==
    /\ stage[r] = "idle"
    /\ Resolve # <<>>
    /\ tags' = [tags EXCEPT ![r] = Resolve]
    /\ Go(r, "refused")
    /\ UNCHANGED <<config, outside, cache, offer, pay, due, job, wire, fetch, answer, told, chain>>

NoPaymentMatching(r) ==
    /\ stage[r] = "retry"
    /\ Resolve # <<>>
    /\ Matching(Resolve, pay[r]) = {}
    /\ tags' = [tags EXCEPT ![r] = Resolve]
    /\ Go(r, "refused")
    /\ UNCHANGED <<config, outside, cache, offer, pay, due, job, wire, fetch, answer, told, chain>>

\* Mutant: a payment the gate has settled before is not settled again.
TakePaymentRemembered(r) ==
    /\ stage[r] = "retry"
    /\ Resolve # <<>>
    /\ Matching(Resolve, pay[r]) # {}
    /\ tags' = [tags EXCEPT ![r] = Resolve]
    /\ \E t \in Matching(Resolve, pay[r]) : due' = [due EXCEPT ![r] = t.amount]
    /\ IF \E q \in Requests : told[q] = "success" /\ pay[q] = pay[r]
       THEN Finish(r, "paid") /\ UNCHANGED job
       ELSE /\ Go(r, IF config.before THEN "settling" ELSE "verifying")
            /\ job' = [job EXCEPT ![r] = IF config.before THEN "settle" ELSE "verify"]
            /\ UNCHANGED answer
    /\ UNCHANGED <<config, outside, cache, offer, pay, wire, fetch, told, chain>>

TakePayment(r) ==
    /\ stage[r] = "retry"
    /\ Resolve # <<>>
    /\ tags' = [tags EXCEPT ![r] = Resolve]
    /\ \E t \in Matching(Resolve, pay[r]) : due' = [due EXCEPT ![r] = t.amount]
    /\ IF config.before
       THEN Go(r, "settling") /\ job' = [job EXCEPT ![r] = "settle"]
       ELSE Go(r, "verifying") /\ job' = [job EXCEPT ![r] = "verify"]
    /\ UNCHANGED <<config, outside, cache, offer, pay, wire, fetch, answer, told, chain>>

----------------------------------------------------------------------------
(* Every refusal is answered with the price tags enriched by what the       *)
(* facilitator supports: from the cache, or fetched; concurrent misses      *)
(* fetch side by side and each stores what it got.                          *)
Refuse(r, known, asOf) ==
    IF pay[r] = NoPayment
    THEN /\ offer' = [offer EXCEPT ![r] =
                        [accepts |-> EnrichedAll(tags[r], known),
                         age |-> IF known = None THEN 0 ELSE now - asOf]]
         /\ Go(r, "offered")
         /\ UNCHANGED answer
    ELSE Finish(r, "402") /\ UNCHANGED offer

\* Mutant: the time of expiry is not looked at.
AnyCached == cache.payer # None
Cached == cache.payer # None /\ now < cache.expires

CacheHit(r) ==
    /\ stage[r] = "refused"
    /\ Cached
    /\ Refuse(r, cache.payer, cache.asOf)
    /\ UNCHANGED <<config, outside, cache, tags, pay, due, job, wire, fetch, told, chain>>

CacheMiss(r) ==
    /\ stage[r] = "refused"
    /\ ~Cached
    /\ Go(r, "fetching")
    /\ UNCHANGED <<config, outside, cache, tags, offer, pay, due, job, wire, fetch, answer, told, chain>>

\* The facilitator answers GET /supported.
Supported(r) ==
    /\ stage[r] = "fetching"
    /\ fetch[r] = NoCache
    /\ fetch' = [fetch EXCEPT ![r] = [payer |-> payer, asOf |-> now, expires |-> 0]]
    /\ UNCHANGED <<config, outside, cache, stage, tags, offer, pay, due, job, wire, answer, told, chain>>

Fetched(r) ==
    /\ stage[r] = "fetching"
    /\ fetch[r] # NoCache
    /\ cache' = [fetch[r] EXCEPT !.expires = now + TTL]
    /\ Refuse(r, fetch[r].payer, fetch[r].asOf)
    /\ fetch' = [fetch EXCEPT ![r] = NoCache]
    /\ UNCHANGED <<config, outside, tags, pay, due, job, wire, told, chain>>

FetchFails(r) ==
    /\ "lost" \in Faults \/ config.timeout
    /\ stage[r] = "fetching"
    /\ Refuse(r, None, now)
    /\ fetch' = [fetch EXCEPT ![r] = NoCache]
    /\ UNCHANGED <<config, outside, cache, tags, pay, due, job, wire, told, chain>>

----------------------------------------------------------------------------
(* The client's side of handle: sign the selected candidate and ask again,  *)
(* once.  A request whose body cannot be cloned fails after the signing.    *)
Sign(r) ==
    /\ stage[r] = "offered"
    /\ \E c \in Selected(offer[r].accepts) :
        LET q == offer[r].accepts[c[2]] IN
        /\ Signable(q)
        /\ pay' = [pay EXCEPT ![r] = [of |-> r, accepted |-> q]]
    /\ \/ /\ Go(r, "retry") /\ UNCHANGED answer
       \/ /\ "stream" \in Faults /\ Finish(r, "client")
    /\ offer' = [offer EXCEPT ![r] = NoOffer]
    /\ UNCHANGED <<config, outside, cache, tags, due, job, wire, fetch, told, chain>>

CannotPay(r) ==
    /\ stage[r] = "offered"
    /\ \A c \in Selected(offer[r].accepts) : ~Signable(offer[r].accepts[c[2]])
    /\ Finish(r, "client")
    /\ offer' = [offer EXCEPT ![r] = NoOffer]
    /\ UNCHANGED <<config, outside, cache, tags, pay, due, job, wire, fetch, told, chain>>

\* An application sends a payment header it has sent with another request.
Replay(r, q) ==
    /\ "replay" \in Faults
    /\ stage[r] = "idle" /\ r # q
    /\ pay[q] # NoPayment
    /\ pay' = [pay EXCEPT ![r] = pay[q]]
    /\ Go(r, "retry")
    /\ UNCHANGED <<config, outside, cache, tags, offer, due, job, wire, fetch, answer, told, chain>>

----------------------------------------------------------------------------
(* The facilitator.  An answer nobody waits for is dropped.                 *)
Payable(r) == /\ pay[r].accepted.amount >= due[r]
              /\ pay[r].accepted.network = "solana" => pay[r].accepted.extra = payer
Used(r) == chain[pay[r].of] # "nobody"

Reply(r, a, s) == wire' = IF stage[r] = s THEN [wire EXCEPT ![r] = a] ELSE wire

FacilitatorVerify(r) ==
    /\ job[r] = "verify"
    /\ job' = [job EXCEPT ![r] = "none"]
    /\ \/ Payable(r) /\ ~Used(r) /\ Reply(r, "valid", "verifying")
       \/ ~(Payable(r) /\ ~Used(r)) /\ Reply(r, "invalid", "verifying")
       \/ "lost" \in Faults /\ Reply(r, "error", "verifying")
    /\ UNCHANGED <<config, outside, cache, stage, tags, offer, pay, due, fetch, answer, told, chain>>

Move(r) ==
    /\ Payable(r) /\ ~Used(r)
    /\ chain' = [chain EXCEPT ![pay[r].of] = r]
    /\ \/ Reply(r, "success", "settling")
       \/ "lost" \in Faults /\ Reply(r, "error", "settling")

Repeat(r) ==
    /\ Used(r) /\ Payable(r) /\ config.duplicates = "repeated"
    /\ Reply(r, "success", "settling")
    /\ UNCHANGED chain

Decline(r) ==
    /\ \/ ~Payable(r) \/ (Used(r) /\ config.duplicates = "rejected") \/ "lost" \in Faults
    /\ \/ Reply(r, "error", "settling")
       \/ "refusal" \in Faults /\ Reply(r, "refusal", "settling")
    /\ UNCHANGED chain

FacilitatorSettle(r) ==
    /\ job[r] = "settle"
    /\ job' = [job EXCEPT ![r] = "none"]
    /\ Move(r) \/ Repeat(r) \/ Decline(r)
    /\ UNCHANGED <<config, outside, cache, stage, tags, offer, pay, due, fetch, answer, told>>

----------------------------------------------------------------------------
(* The gate's second part: verify, handler, settle, or settle, handler.     *)
Hear(r) == wire' = [wire EXCEPT ![r] = "none"]

Verified(r) ==
    /\ stage[r] = "verifying"
    /\ wire[r] # "none"
    /\ Go(r, IF wire[r] = "valid" THEN "inner" ELSE "refused")
    /\ Hear(r)
    /\ UNCHANGED <<config, outside, cache, tags, offer, pay, due, job, fetch, answer, told, chain>>

\* Mutant: an error of the handler is settled like a success.
CallInnerUnchecked(r) ==
    /\ stage[r] = "inner"
    /\ \E ok \in BOOLEAN :
        IF config.before
        THEN Finish(r, IF ok THEN "paid" ELSE "handler") /\ UNCHANGED job
        ELSE /\ Go(r, "settling") /\ job' = [job EXCEPT ![r] = "settle"]
             /\ answer' = [answer EXCEPT ![r] = IF ok THEN "none" ELSE "handler"]
    /\ UNCHANGED <<config, outside, cache, tags, offer, pay, due, wire, fetch, told, chain>>

CallInner(r) ==
    /\ stage[r] = "inner"
    /\ \E ok \in BOOLEAN :
        IF ok /\ ~config.before
        THEN Go(r, "settling") /\ job' = [job EXCEPT ![r] = "settle"] /\ UNCHANGED answer
        ELSE Finish(r, IF ok THEN "paid" ELSE "handler") /\ UNCHANGED job
    /\ UNCHANGED <<config, outside, cache, tags, offer, pay, due, wire, fetch, told, chain>>

\* Mutant: an error of the call after the handler ran is asked again for ever.
SettledOrAgain(r) ==
    /\ stage[r] = "settling"
    /\ wire[r] # "none"
    /\ told' = [told EXCEPT ![r] = wire[r]]
    /\ Hear(r)
    /\ IF wire[r] = "error" THEN job' = [job EXCEPT ![r] = "settle"] /\ UNCHANGED <<stage, answer>>
       ELSE /\ UNCHANGED job
            /\ IF config.before THEN Go(r, "inner") /\ UNCHANGED answer ELSE Finish(r, "paid")
    /\ UNCHANGED <<config, outside, cache, tags, offer, pay, due, fetch, chain>>

\* Only an error of the call stops the request: an answer that says the
\* settlement failed goes into the header like any other.
Settled(r) ==
    /\ stage[r] = "settling"
    /\ wire[r] # "none"
    /\ told' = [told EXCEPT ![r] = wire[r]]
    /\ Hear(r)
    /\ IF wire[r] = "error" THEN Go(r, "refused") /\ UNCHANGED answer
       ELSE IF config.before THEN Go(r, "inner") /\ UNCHANGED answer
       ELSE Finish(r, "paid")
    /\ UNCHANGED <<config, outside, cache, tags, offer, pay, due, job, fetch, chain>>

\* FacilitatorClient::with_timeout, without which a call is awaited for as long
\* as it takes.  The call goes on at the facilitator.
GiveUp(r) ==
    /\ config.timeout
    /\ stage[r] \in {"verifying", "settling"}
    /\ wire[r] = "none"
    /\ told' = IF stage[r] = "settling" THEN [told EXCEPT ![r] = "error"] ELSE told
    /\ Go(r, "refused")
    /\ UNCHANGED <<config, outside, cache, tags, offer, pay, due, job, wire, fetch, answer, chain>>

----------------------------------------------------------------------------
InGate(r) == stage[r] \notin {"idle", "offered", "retry", "done"}

\* The process of the gate ends and starts again.
Crash ==
    /\ "crash" \in Faults
    /\ \E r \in Requests : InGate(r)
    /\ stage' = [r \in Requests |-> IF InGate(r) THEN "done" ELSE stage[r]]
    /\ answer' = [r \in Requests |-> IF InGate(r) THEN "client" ELSE answer[r]]
    /\ wire' = [r \in Requests |-> "none"]
    /\ fetch' = [r \in Requests |-> NoCache]
    /\ cache' = NoCache
    /\ UNCHANGED <<config, outside, tags, offer, pay, due, job, told, chain>>

\* The facilitator comes back with another fee payer; the application's price
\* rises, or the route becomes free.
Rotate == /\ payer < config.payers /\ payer' = payer + 1
          /\ UNCHANGED <<config, price, now, cache, stage, tags, offer, pay, due, job, wire, fetch, answer, told, chain>>

Reprice == /\ price # 0
           /\ price' = 0 \/ (price < config.prices /\ price' = price + 1)
           /\ UNCHANGED <<config, payer, now, cache, stage, tags, offer, pay, due, job, wire, fetch, answer, told, chain>>

Tick ==
    /\ now < config.time
    /\ \A r \in Requests : fetch[r] = NoCache \/ now - fetch[r].asOf < MaxDelay
    /\ now' = now + 1
    /\ UNCHANGED <<config, price, payer, cache, stage, tags, offer, pay, due, job, wire, fetch, answer, told, chain>>

Gate(r) == \/ Bypass(r) \/ AskForPayment(r) \/ NoPaymentMatching(r) \/ TakePayment(r)
           \/ CacheHit(r) \/ CacheMiss(r) \/ Fetched(r)
           \/ Verified(r) \/ CallInner(r) \/ Settled(r)
Client(r) == Sign(r) \/ CannotPay(r)
Facilitator(r) == Supported(r) \/ FacilitatorVerify(r) \/ FacilitatorSettle(r)
Mishap(r) == FetchFails(r) \/ GiveUp(r) \/ (\E q \in Requests : Replay(r, q))

Next == \/ \E r \in Requests : Gate(r) \/ Client(r) \/ Facilitator(r) \/ Mishap(r)
        \/ Crash \/ Rotate \/ Reprice \/ Tick

\* The processes run, handlers included, and a time-out that was configured
\* strikes.  A facilitator need not answer: a settlement may wait for its chain
\* for ever.  Nothing is assumed of time, prices and mishaps either.
Fairness == \A r \in Requests :
    /\ WF_vars(Gate(r) \/ Client(r))
    /\ WF_vars(GiveUp(r) \/ (config.timeout /\ FetchFails(r)))

Spec == Init /\ [][Next]_vars /\ Fairness

----------------------------------------------------------------------------
Paid(r) == answer[r] = "paid"

(* "PaygateError::Settlement: Payment settlement failed. These errors are   *)
(* automatically converted to appropriate 402 Payment Required responses"   *)
(* (x402-axum/README.md:345-347): who is served has paid.                   *)
ServedHasPaid == \A r \in Requests : Paid(r) => Used(r)

(* A payment that moved for a request which was not served was lost on the  *)
(* way, the answer of its settlement did not reach the gate; or the handler *)
(* failed, and then the layer settles before execution.  After execution a  *)
(* failed handler is not charged (handle_request_fallible).                 *)
UnservedChargeIsLost ==
    \A r \in Requests : (\E p \in Requests : chain[p] = r) =>
        /\ answer[r] = "402" => told[r] = "error" /\ ("lost" \in Faults \/ config.timeout)
        /\ answer[r] = "handler" => config.before

(* Where the facilitator rejects used payments, one payment is served once, *)
(* however often its header is sent: the gate itself remembers nothing.     *)
ServedOncePerPayment ==
    config.duplicates = "rejected" =>
        \A r, q \in Requests :
            /\ Paid(r) /\ Paid(q)
            /\ pay[r] = pay[q]
            /\ told[r] # "refusal" /\ told[q] # "refusal"
            => r = q

(* Whatever happened to the price since the offer, the payment that is      *)
(* settled covers a price tag of the request it is served for.              *)
PaysTheCurrentPrice ==
    \A r \in Requests : Paid(r) /\ told[r] # "refusal" =>
        \E i \in DOMAIN tags[r] :
            /\ tags[r][i].network = pay[r].accepted.network
            /\ pay[r].accepted.amount >= tags[r][i].amount

(* An offer tells of a fee payer the facilitator had at most the lifetime   *)
(* of the cache and one delay ago, also when concurrent misses overwrite    *)
(* each other's answers (SupportedCache, supported).                        *)
OfferFresh == \A r \in Requests : offer[r].age <= TTL + MaxDelay

(* "the accepted requirements must exactly match one of the requirements we *)
(* offered in PaymentRequired.accepts": a payment for requirements a 402 of *)
(* this moment offers is not refused as matching nothing (paygate.rs,       *)
(* make_verify_request of V2).                                              *)
OfferedIsAccepted ==
    \A r \in Requests : stage[r] = "retry" =>
        \A i \in DOMAIN Resolve :
            pay[r].accepted = Enriched(Resolve[i], payer) => Matching(Resolve, pay[r]) # {}

\* A call of r to the facilitator is under way.
Unanswered(r) == \/ stage[r] \in {"verifying", "settling"} /\ wire[r] = "none"
                 \/ stage[r] = "fetching" /\ fetch[r] = NoCache

(* Every request of an application ends, also with a facilitator that does  *)
(* not answer if the client has a time-out; one without, the default, may   *)
(* only be held up by a single call the facilitator never answers           *)
(* (facilitator_client.rs:291, :389, :436).                                 *)
EveryRequestEnds ==
    \A r \in Requests :
        \/ <>[](~config.timeout /\ Unanswered(r))
        \/ stage[r] # "done" ~> stage[r] = "done"
=============================================================================
