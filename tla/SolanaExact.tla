----------------------------- MODULE SolanaExact -----------------------------
(***************************************************************************)
(* The "exact" scheme on Solana, protocol versions 1 and 2: the client     *)
(* builds and signs a token transfer the facilitator pays the fee of; the  *)
(* facilitator checks its instructions, simulates it, adds its signature,  *)
(* sends it and waits: for a notification, where it has a websocket, or    *)
(* polling.  Every await of verify_transaction and send_and_confirm is a   *)
(* step.  A transaction is known by its signature: two settlements of one  *)
(* payment send one transaction.  The cluster is external.                 *)
(***************************************************************************)
EXTENDS Naturals, Sequences, FiniteSets

CONSTANTS Requests,    \* POST /verify and POST /settle
          Offers,      \* payment requirements
          Here,        \* chain of the facilitator's provider
          Networks,    \* networks with a name
          FeePayer,    \* account of the facilitator
          Payer,       \* account of the client
          Opened,      \* payees whose token account exists
          Settings,    \* facilitators: [allow, most, allowed, blocked, strict, pubsub]
          Drafts,      \* what clients and wallets make of a transfer: [shape, units,
                       \* price, authority, complete]
          MaxUnits, MaxPrice,  \* compute units and their price, at most
          Funds,       \* tokens of the payer
          Lifetime,    \* of a blockhash
          MaxTime,     \* bound on the clock
          MaxPayments, \* bound on the payments signed
          Faults       \* subset of {"rpc", "spend", "swap"}

SolanaConstants ==
    /\ Here \in Networks /\ FeePayer # Payer
    /\ \A s \in Settings : /\ s.allow \in BOOLEAN /\ s.strict \in BOOLEAN
                           /\ s.pubsub \in BOOLEAN /\ s.most \in Nat
    /\ \A d \in Drafts : /\ d.shape \in Seq(STRING) /\ d.complete \in BOOLEAN
                         /\ d.units \in Nat /\ d.price \in Nat
                         /\ d.authority \in {FeePayer, Payer}
    /\ MaxUnits \in Nat /\ MaxPrice \in Nat /\ Funds \in Nat
    /\ Lifetime \in Nat /\ MaxTime \in Nat /\ MaxPayments \in Nat
    /\ \A o \in Offers : o.amount \in Nat /\ o.version \in {1, 2}
    /\ Faults \subseteq {"rpc", "spend", "swap"}

VARIABLES
    settings,    \* of this facilitator
    now,
    signed,      \* transactions clients have built
    stage, ask, answer,    \* of each request
    sent,        \* requests that sent their transaction
    subscribed,  \* requests with a signature subscription
    notice,      \* what the subscription of a request has to tell
    pool,        \* cluster: transactions it was sent
    landed, failed,        \* cluster: transactions executed
    tokens       \* cluster: tokens of the payer

cluster == <<pool, landed, failed, tokens>>
vars == <<settings, now, signed, stage, ask, answer, sent, subscribed, notice, cluster>>

NoAsk == [op |-> "none"]

----------------------------------------------------------------------------
(* The client.  Without a fee payer in "extra" it cannot sign.  It asks for *)
(* the compute units its simulation used at the lowest fee paid of late,    *)
(* whatever the facilitator's limits are.  Wallets append instructions, and *)
(* other clients order them in their own way.                               *)
AcceptV1(o) == o.version = 1 /\ o.network \in Networks
AcceptV2(o) == o.version = 2

OwnInstructions == <<"limit", "price", "transfer">>

Transaction(o, d) ==
    [draft |-> d, mint |-> o.asset, to |-> o.payTo, amount |-> o.amount,
     expires |-> now + Lifetime, nonce |-> Cardinality(signed), accepted |-> o]

----------------------------------------------------------------------------
(* verify_transfer: networks first.  Version 1 looks both names up, version *)
(* 2 compares the requirements.                                             *)
WrongOfferV1(p, q) == p.accepted.network # Here \/ q.network # Here
WrongOfferV2(p, q) == p.accepted # q \/ p.accepted.network # Here

(* verify_transaction: what the transaction itself has to look like.        *)
ComputeLimit(p) == Len(p.draft.shape) > 0 /\ p.draft.shape[1] = "limit" /\ p.draft.units <= MaxUnits
ComputePrice(p) == Len(p.draft.shape) > 1 /\ p.draft.shape[2] = "price" /\ p.draft.price <= MaxPrice

Additional(p) == {p.draft.shape[i] : i \in 4 .. Len(p.draft.shape)}

IsBlocked(program) == program \in settings.blocked
IsAllowed(program) == program \in settings.allowed

ValidInstructions(p) ==
    /\ Len(p.draft.shape) >= 3
    /\ Len(p.draft.shape) <= settings.most
    /\ Additional(p) # {} => settings.allow
    /\ \A program \in Additional(p) : ~IsBlocked(program) /\ IsAllowed(program)

\* Mutant: the accounts of the transfer are looked at, not the others'.
FeePayerInTransfer(p) == p.draft.shape[3] = "sponsor"

\* "sponsor" is an instruction of an allowed program that names the fee payer.
FeePayerNamed(p) == \E i \in DOMAIN p.draft.shape : p.draft.shape[i] = "sponsor"

(* verify_transfer_instruction, up to the accounts it reads.                *)
TransferMatches(p, q) ==
    /\ p.draft.shape[3] = "transfer"
    /\ p.draft.authority # FeePayer
    /\ p.mint = q.asset
    /\ p.to = q.payTo

Refused(p, q) ==
    \/ IF p.accepted.version = 1 THEN WrongOfferV1(p, q) ELSE WrongOfferV2(p, q)
    \/ ~ComputeLimit(p) \/ ~ComputePrice(p)
    \/ ~ValidInstructions(p)
    \/ ~TransferMatches(p, q)

\* The payee's account has to be there; the amount is compared last.
AccountsMissing(q) == q.payTo \notin Opened
AmountMatches(p, q) == p.amount = q.amount

\* Is there a signature for every signer?  Not: is it right?
IsFullySigned(p) == p.draft.complete

(* The cluster would execute p now: its simulation looks at no signature.   *)
Executable(p) == /\ p \notin landed \cup failed
                 /\ now <= p.expires
                 /\ p.amount <= tokens

----------------------------------------------------------------------------
TypeOK ==
    /\ now \in 0 .. MaxTime
    /\ stage \in [Requests -> {"idle", "matched", "counted", "simulated", "ready",
                               "waiting", "done"}]
    /\ answer \in [Requests -> {"none", "valid", "success", "400", "500"}]
    /\ sent \subseteq Requests
    /\ subscribed \subseteq IF settings.pubsub THEN Requests ELSE {}
    /\ notice \in [Requests -> {"none", "landed", "failed"}]
    /\ pool \cup landed \cup failed \subseteq signed
    /\ landed \cap failed = {}
    /\ tokens \in 0 .. Funds

Init ==
    /\ settings \in Settings
    /\ now = 0
    /\ signed = {}
    /\ stage = [r \in Requests |-> "idle"]
    /\ ask = [r \in Requests |-> NoAsk]
    /\ answer = [r \in Requests |-> "none"]
    /\ sent = {}
    /\ subscribed = {}
    /\ notice = [r \in Requests |-> "none"]
    /\ pool = {} /\ landed = {} /\ failed = {}
    /\ tokens = Funds

Go(r, s) == stage' = [stage EXCEPT ![r] = s]
Reply(r, a) == Go(r, "done") /\ answer' = [answer EXCEPT ![r] = a]

\* SolanaChainProviderError becomes TransactionSimulation while verifying and
\* OnchainFailure while settling.
TransactionSimulation == "400"
OnchainFailure == "500"

----------------------------------------------------------------------------
Sign(o) ==
    /\ Cardinality(signed) < MaxPayments
    /\ AcceptV1(o) \/ AcceptV2(o)
    /\ o.feePayer
    /\ \E d \in Drafts : signed' = signed \cup {Transaction(o, d)}
    /\ UNCHANGED <<settings, now, stage, ask, answer, sent, subscribed, notice, cluster>>

Arrive(r, p, q) ==
    /\ stage[r] = "idle"
    /\ q = p.accepted \/ ("swap" \in Faults /\ q.version = p.accepted.version)
    /\ \E op \in {"verify", "settle"} : ask' = [ask EXCEPT ![r] = [op |-> op, p |-> p, q |-> q]]
    /\ IF Refused(p, q) THEN Reply(r, TransactionSimulation)
       ELSE Go(r, "matched") /\ UNCHANGED answer
    /\ UNCHANGED <<settings, now, signed, sent, subscribed, notice, cluster>>

GetAccounts(r) ==
    /\ stage[r] = "matched"
    /\ IF \/ AccountsMissing(ask[r].q) \/ ~AmountMatches(ask[r].p, ask[r].q)
          \/ settings.strict /\ FeePayerNamed(ask[r].p)
       THEN Reply(r, TransactionSimulation)
       ELSE Go(r, "counted") /\ UNCHANGED answer
    /\ UNCHANGED <<settings, now, signed, ask, sent, subscribed, notice, cluster>>

\* A copy is signed and simulated; verify ends here.
Simulate(r) ==
    /\ stage[r] = "counted"
    /\ IF ~Executable(ask[r].p) THEN Reply(r, TransactionSimulation)
       ELSE IF ask[r].op = "verify" THEN Reply(r, "valid")
       ELSE Go(r, "simulated") /\ UNCHANGED answer
    /\ UNCHANGED <<settings, now, signed, ask, sent, subscribed, notice, cluster>>

\* settle_transaction signs the client's transaction again, and looks whether
\* a signature is missing: one that is wrong is the cluster's to find.
FullySigned(r) ==
    /\ stage[r] = "simulated"
    /\ IF ~IsFullySigned(ask[r].p) THEN Reply(r, OnchainFailure)
       ELSE Go(r, "ready") /\ UNCHANGED answer
    /\ UNCHANGED <<settings, now, signed, ask, sent, subscribed, notice, cluster>>

Subscribe(r) ==
    /\ stage[r] = "ready" /\ settings.pubsub /\ r \notin subscribed
    /\ subscribed' = subscribed \cup {r}
    /\ UNCHANGED <<settings, now, signed, stage, ask, answer, sent, notice, cluster>>

\* Without preflight, the node takes what it is given.
Deliver(r) ==
    /\ sent' = sent \cup {r}
    /\ pool' = IF ask[r].p \in landed \cup failed THEN pool ELSE pool \cup {ask[r].p}

\* Mutant: the transaction is sent before the subscription is there.
SendAtOnce(r) ==
    /\ stage[r] = "ready"
    /\ Deliver(r)
    /\ Go(r, "waiting")
    /\ UNCHANGED <<settings, now, signed, ask, answer, subscribed, notice, landed, failed, tokens>>

Send(r) ==
    /\ stage[r] = "ready" /\ (settings.pubsub => r \in subscribed)
    /\ Deliver(r)
    /\ Go(r, "waiting")
    /\ UNCHANGED <<settings, now, signed, ask, answer, subscribed, notice, landed, failed, tokens>>

Notified(r) ==
    /\ stage[r] = "waiting" /\ notice[r] # "none"
    /\ Reply(r, IF notice[r] = "landed" THEN "success" ELSE OnchainFailure)
    /\ UNCHANGED <<settings, now, signed, ask, sent, subscribed, notice, cluster>>

\* The loop every 200 ms: a transaction that failed is never confirmed.
Confirmed(r) ==
    /\ stage[r] = "waiting" /\ ~settings.pubsub
    /\ ask[r].p \in landed
    /\ Reply(r, "success")
    /\ UNCHANGED <<settings, now, signed, ask, sent, subscribed, notice, cluster>>

\* Mutant: a lost answer to the submission is reported as a failed verification.
CallFailsAsVerification(r) ==
    /\ "rpc" \in Faults
    /\ \/ stage[r] \in {"matched", "counted", "ready", "waiting"}
          /\ Reply(r, TransactionSimulation) /\ UNCHANGED <<sent, pool>>
       \/ stage[r] = "ready" /\ (settings.pubsub => r \in subscribed)
          /\ Reply(r, TransactionSimulation) /\ Deliver(r)
    /\ UNCHANGED <<settings, now, signed, ask, subscribed, notice, landed, failed, tokens>>

(* Calls that fail: while verifying, at the subscription, at the submission *)
(* (which may have arrived), at a poll or when the stream ends.             *)
CallFails(r) ==
    /\ "rpc" \in Faults
    /\ \/ stage[r] \in {"matched", "counted"} /\ Reply(r, TransactionSimulation)
          /\ UNCHANGED <<sent, pool>>
       \/ stage[r] \in {"ready", "waiting"} /\ Reply(r, OnchainFailure)
          /\ UNCHANGED <<sent, pool>>
       \/ stage[r] = "ready" /\ (settings.pubsub => r \in subscribed)
          /\ Reply(r, OnchainFailure) /\ Deliver(r)
    /\ UNCHANGED <<settings, now, signed, ask, subscribed, notice, landed, failed, tokens>>

----------------------------------------------------------------------------
(* The cluster: it executes a transaction once, tells who has subscribed,   *)
(* and forgets transactions whose blockhash is too old.                     *)
Tell(p, what) ==
    notice' = [r \in Requests |->
                 IF r \in subscribed /\ ask[r].p = p THEN what ELSE notice[r]]

Land(p) ==
    /\ p \in pool
    /\ pool' = pool \ {p}
    /\ IF ~p.draft.complete \/ now > p.expires THEN UNCHANGED <<landed, failed, tokens, notice>>
       ELSE IF p.amount <= tokens
       THEN /\ landed' = landed \cup {p} /\ tokens' = tokens - p.amount
            /\ Tell(p, "landed") /\ UNCHANGED failed
       ELSE /\ failed' = failed \cup {p}
            /\ Tell(p, "failed") /\ UNCHANGED <<landed, tokens>>
    /\ UNCHANGED <<settings, now, signed, stage, ask, answer, sent, subscribed>>

Spend == /\ "spend" \in Faults
         /\ tokens > 0 /\ tokens' = 0
         /\ UNCHANGED <<settings, now, signed, stage, ask, answer, sent, subscribed, notice,
                        pool, landed, failed>>

Tick == /\ now < MaxTime
        /\ now' = now + 1
        /\ UNCHANGED <<settings, signed, stage, ask, answer, sent, subscribed, notice, cluster>>

Handler(r) == \/ GetAccounts(r) \/ Simulate(r) \/ FullySigned(r) \/ Subscribe(r)
              \/ Send(r) \/ Notified(r) \/ Confirmed(r)

Next == \/ \E o \in Offers : Sign(o)
        \/ \E r \in Requests, p \in signed, q \in Offers : Arrive(r, p, q)
        \/ \E r \in Requests : Handler(r) \/ CallFails(r)
        \/ \E p \in signed : Land(p)
        \/ Spend \/ Tick

\* The facilitator's tasks run and the node answers.
Fairness == \A r \in Requests : WF_vars(Handler(r))

Spec == Init /\ [][Next]_vars /\ Fairness
----------------------------------------------------------------------------
(* A settlement answered with success has transferred what its requirements *)
(* ask for, from the client to the payee.                                   *)
SuccessMeansTransferred ==
    \A r \in Requests : answer[r] = "success" =>
        LET p == ask[r].p  q == ask[r].q IN
        /\ p \in landed
        /\ p.amount = q.amount /\ p.to = q.payTo /\ p.mint = q.asset

(* A settlement answered with 400 has sent nothing: also when calls to the  *)
(* node fail, which are answered with 400 before the submission and with    *)
(* 500 from then on.                                                        *)
BadRequestSentNothing == \A r \in Requests : answer[r] = "400" => r \notin sent

(* Whatever clients build and facilitators are set to, the facilitator's    *)
(* account pays fees within the limits for instructions that are allowed,   *)
(* and transfers nothing itself.                                            *)
FeePayerProtected ==
    \A p \in pool \cup landed \cup failed :
        /\ p.draft.authority # FeePayer
        /\ p.draft.units <= MaxUnits /\ p.draft.price <= MaxPrice
        /\ \A i \in DOMAIN p.draft.shape :
            /\ i > 3 => p.draft.shape[i] \in settings.allowed \ settings.blocked
            /\ settings.strict => p.draft.shape[i] # "sponsor"

(* What the client builds for an offer of this chain is not refused unread  *)
(* by any facilitator that takes three instructions and the price of now.   *)
HonestTransferTaken ==
    \A p \in signed :
        /\ p.draft.shape = OwnInstructions /\ p.draft.authority = Payer
        /\ p.accepted.network = Here /\ settings.most >= 3
        /\ p.draft.units <= MaxUnits /\ p.draft.price <= MaxPrice
        => ~Refused(p, p.accepted)

(* A transaction that lands while its only sender waits is answered: the    *)
(* subscription is there before the transaction is (send_and_confirm).      *)
OnlySender(r) == r \in sent /\ \A s \in sent \ {r} : ask[s].p # ask[r].p
LandedIsAnswered ==
    \A r \in Requests :
        OnlySender(r) /\ ask[r].p \in landed ~> stage[r] = "done"
=============================================================================
