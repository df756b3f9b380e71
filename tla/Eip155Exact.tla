----------------------------- MODULE Eip155Exact -----------------------------
(***************************************************************************)
(* The "exact" scheme on an EVM chain, protocol versions 1 and 2: a client *)
(* signs an ERC-3009 authorization for an offer, and the facilitator       *)
(* verifies it, or settles it with a transaction of its own.  Every await  *)
(* of verify_payment, settle_payment and send_transaction is a step (the   *)
(* nonces of send_transaction are NonceManager's); the chain is external.  *)
(*                                                                         *)
(* Seconds are scaled: Margin stands for the 6 s an authorization has to   *)
(* have left, Backdate for the 600 s its start lies in the past.           *)
(***************************************************************************)
EXTENDS Integers, FiniteSets

CONSTANTS Requests,    \* POST /verify and POST /settle
          Offers,      \* payment requirements
          Wallets,     \* payers
          Form,        \* of a wallet: "eoa", "deployed" or "counterfactual"
          Speaks,      \* protocol versions a wallet's client has a scheme for
          Here,        \* network of the facilitator's provider
          Networks,    \* networks with a name
          Leads,       \* how far a client's clock is ahead
          Margin, Backdate,
          Funds,       \* tokens of a wallet
          MaxTime,     \* bound on the clock
          MaxPayments, \* bound on the payments signed
          Faults       \* subset of {"rpc", "timeout", "spend", "deploy", "forge", "swap"}

ASSUME Eip155Assumption ==
    /\ Form \in [Wallets -> {"eoa", "deployed", "counterfactual"}]
    /\ Speaks \in [Wallets -> SUBSET {1, 2}]
    /\ Here \in Networks
    /\ Leads \subseteq Int
    /\ Margin \in Nat /\ Funds \in Nat /\ MaxPayments \in Nat
    /\ MaxTime \in Nat /\ Backdate \in 0 .. MaxTime
    /\ \A o \in Offers : o.amount \in Nat /\ o.timeout \in Nat /\ o.version \in {1, 2}
    /\ Faults \subseteq {"rpc", "timeout", "spend", "deploy", "forge", "swap"}

VARIABLES
    now,
    signed,      \* payments clients have signed
    pending,     \* does the node estimate on the pending block, or on the latest?
    stage, ask,  \* of each request: where it is, what it asks
    call,        \* of each settlement: the call it sends
    tx,          \* of each settlement: its transaction
    answer,      \* of each request
    balance,     \* chain: tokens of the wallets
    code,        \* chain: wallets with code
    moved        \* chain: authorizations used

chain_vars == <<balance, code, moved>>
vars == <<now, signed, pending, stage, ask, call, tx, answer, chain_vars>>

NoAsk == [op |-> "none"]

----------------------------------------------------------------------------
(* The client: which offers of a 402 it can pay, and the authorization it   *)
(* signs.  Without "extra" the domain is signed with an empty name and      *)
(* version, which is no token's domain.                                     *)
AcceptV1(o) == o.version = 1 /\ o.network \in Networks
AcceptV2(o) == o.version = 2
Accept(o) == AcceptV1(o) \/ AcceptV2(o)

SaturatingSub(a, b) == IF a > b THEN a - b ELSE 0

\* Mutant: the authorization starts when it is signed.
AuthorizationFromNow(o, w, time) ==
    [from |-> w, to |-> o.payTo, value |-> o.amount, nonce |-> Cardinality(signed),
     validAfter |-> time, validBefore |-> time + o.timeout]

Authorization(o, w, time) ==
    [from |-> w, to |-> o.payTo, value |-> o.amount, nonce |-> Cardinality(signed),
     validAfter |-> SaturatingSub(time, Backdate), validBefore |-> time + o.timeout]

Payment(o, w, time, genuine) ==
    [authorization |-> Authorization(o, w, time), accepted |-> o,
     domain |-> o.extra, genuine |-> genuine]

----------------------------------------------------------------------------
(* assert_valid_payment: what is checked before any call to the chain, and  *)
(* what is read from it.                                                    *)
OnThisChain(network) == network = Here

\* Version 1 looks both names up, version 2 compares the requirements.
WrongOfferV1(p, q) == ~OnThisChain(p.accepted.network) \/ ~OnThisChain(q.network)
WrongOfferV2(p, q) == p.accepted # q \/ ~OnThisChain(p.accepted.network)

Untimely(a) == a.validBefore < now + Margin \/ a.validAfter > now

Refused(p, q) ==
    \/ IF p.accepted.version = 1 THEN WrongOfferV1(p, q) ELSE WrongOfferV2(p, q)
    \/ p.authorization.to # q.payTo
    \/ Untimely(p.authorization)

Underfunded(p, q) == \/ balance[p.authorization.from] < q.amount
                     \/ p.authorization.value < q.amount

----------------------------------------------------------------------------
(* StructuredSignature: by the suffix, then by who can be recovered.        *)
Recovers(p) == p.genuine /\ p.domain

Structured(p) ==
    IF Form[p.authorization.from] = "counterfactual" THEN "EIP6492"
    ELSE IF Form[p.authorization.from] = "eoa" /\ Recovers(p) THEN "EOA"
    ELSE "EIP1271"

(* What the token does with an authorization: external.  A smart wallet     *)
(* confirms a signature only when it has code.                              *)
Confirmed(p, deployed) ==
    /\ Recovers(p)
    /\ Form[p.authorization.from] # "eoa" => p.authorization.from \in deployed

Transferable(p, deployed, used) ==
    /\ p.authorization.validAfter < now /\ now < p.authorization.validBefore
    /\ p \notin used
    /\ p.authorization.value <= balance[p.authorization.from]
    /\ Confirmed(p, deployed)

\* "transfer" is the call of the token; "deploy" the aggregate of the
\* factory's call, which may fail, and that of the token, which may not.
After(p, c, deployed) ==
    IF c = "deploy" /\ p.genuine THEN deployed \cup {p.authorization.from} ELSE deployed

Succeeds(p, c, deployed, used) == Transferable(p, After(p, c, deployed), used)

\* verify_payment: one simulation; the validator of EIP-6492 deploys inside it.
Simulation(p) ==
    Succeeds(p, IF Structured(p) = "EIP6492" THEN "deploy" ELSE "transfer", code, moved)

\* Mutant: the inner signature is sent whether the wallet has code or not.
CallForInner(p, deployed) == "transfer"

\* settle_payment: the call for a signature, given the code that was read.
CallFor(p, deployed) ==
    IF Structured(p) = "EIP6492" /\ p.authorization.from \notin deployed
    THEN "deploy" ELSE "transfer"

----------------------------------------------------------------------------
TypeOK ==
    /\ now \in 0 .. MaxTime
    /\ pending \in BOOLEAN
    /\ stage \in [Requests -> {"idle", "asserted", "coded", "estimated", "sent", "done"}]
    /\ call \in [Requests -> {"none", "transfer", "deploy"}]
    /\ tx \in [Requests -> {"none", "pool", "ok", "reverted"}]
    /\ answer \in [Requests -> {"none", "valid", "success", "400", "500"}]
    /\ balance \in [Wallets -> 0 .. Funds]
    /\ code \subseteq Wallets
    /\ moved \subseteq signed
    /\ Cardinality(signed) <= MaxPayments
    /\ \A r \in Requests : (stage[r] = "done") = (answer[r] # "none")

Init ==
    /\ now = Backdate
    /\ signed = {}
    /\ pending \in BOOLEAN
    /\ stage = [r \in Requests |-> "idle"]
    /\ ask = [r \in Requests |-> NoAsk]
    /\ call = [r \in Requests |-> "none"]
    /\ tx = [r \in Requests |-> "none"]
    /\ answer = [r \in Requests |-> "none"]
    /\ balance = [w \in Wallets |-> Funds]
    /\ code = {w \in Wallets : Form[w] = "deployed"}
    /\ moved = {}

Go(r, s) == stage' = [stage EXCEPT ![r] = s]
Reply(r, a) == Go(r, "done") /\ answer' = [answer EXCEPT ![r] = a]

\* Eip155ExactError to X402SchemeFacilitatorError, as an HTTP status: failures
\* of calls to the chain are 500, failed verifications 400.
OnchainFailure == "500"
PaymentVerification == "400"

----------------------------------------------------------------------------
Sign(o, w) ==
    /\ Cardinality(signed) < MaxPayments
    /\ Accept(o) /\ o.version \in Speaks[w]
    /\ \E lead \in Leads, genuine \in {TRUE} \cup (IF "forge" \in Faults THEN {FALSE} ELSE {}) :
        signed' = signed \cup {Payment(o, w, now + lead, genuine)}
    /\ UNCHANGED <<now, pending, stage, ask, call, tx, answer, chain_vars>>

(* A request arrives, with the requirements of the payment or, from a       *)
(* resource server that changed its mind, with others.                      *)
Arrive(r, p, q) ==
    /\ stage[r] = "idle"
    /\ q = p.accepted \/ ("swap" \in Faults /\ q.version = p.accepted.version)
    /\ \E op \in {"verify", "settle"} : ask' = [ask EXCEPT ![r] = [op |-> op, p |-> p, q |-> q]]
    /\ IF Refused(p, q) THEN Reply(r, PaymentVerification)
       ELSE Go(r, "asserted") /\ UNCHANGED answer
    /\ UNCHANGED <<now, signed, pending, call, tx, chain_vars>>

\* assert_domain and assert_enough_balance; then what the signature needs.
ReadBalance(r) ==
    /\ stage[r] = "asserted"
    /\ IF Underfunded(ask[r].p, ask[r].q) THEN Reply(r, PaymentVerification)
       ELSE Go(r, "coded") /\ UNCHANGED answer
    /\ UNCHANGED <<now, signed, pending, ask, call, tx, chain_vars>>

Simulate(r) ==
    /\ stage[r] = "coded"
    /\ ask[r].op = "verify"
    /\ Reply(r, IF Simulation(ask[r].p) THEN "valid"
                ELSE IF Structured(ask[r].p) = "EIP6492" THEN PaymentVerification
                ELSE OnchainFailure)
    /\ UNCHANGED <<now, signed, pending, ask, call, tx, chain_vars>>

\* is_contract_deployed is asked for EIP-6492 signatures, and only in settle.
ReadCode(r) ==
    /\ stage[r] = "coded"
    /\ ask[r].op = "settle"
    /\ call[r] = "none"
    /\ call' = [call EXCEPT ![r] = CallFor(ask[r].p, code)]
    /\ UNCHANGED <<now, signed, pending, stage, ask, tx, answer, chain_vars>>

\* Authorizations of the pending block: the pool's, when the node looks there.
InPool == {ask[r].p : r \in {s \in Requests : tx[s] = "pool"}}

EstimateGas(r) ==
    /\ stage[r] = "coded" /\ call[r] # "none"
    /\ IF Succeeds(ask[r].p, call[r], code, IF pending THEN moved \cup InPool ELSE moved)
       THEN Go(r, "estimated") /\ UNCHANGED answer
       ELSE Reply(r, OnchainFailure)
    /\ UNCHANGED <<now, signed, pending, ask, call, tx, chain_vars>>

SendTransaction(r) ==
    /\ stage[r] = "estimated"
    /\ tx' = [tx EXCEPT ![r] = "pool"]
    /\ Go(r, "sent")
    /\ UNCHANGED <<now, signed, pending, ask, call, answer, chain_vars>>

\* Mutant: an authorization that is used is taken for a receipt that says so.
ReceiptOfPayment(r) ==
    /\ stage[r] = "sent"
    /\ tx[r] \in {"ok", "reverted"}
    /\ Reply(r, IF ask[r].p \in moved THEN "success" ELSE OnchainFailure)
    /\ UNCHANGED <<now, signed, pending, ask, call, tx, chain_vars>>

Receipt(r) ==
    /\ stage[r] = "sent"
    /\ tx[r] \in {"ok", "reverted"}
    /\ Reply(r, IF tx[r] = "ok" THEN "success" ELSE OnchainFailure)
    /\ UNCHANGED <<now, signed, pending, ask, call, tx, chain_vars>>

NoReceipt(r) ==
    /\ "timeout" \in Faults
    /\ stage[r] = "sent"
    /\ Reply(r, OnchainFailure)
    /\ UNCHANGED <<now, signed, pending, ask, call, tx, chain_vars>>

\* Any other call to the node fails; a submission that fails may have arrived.
CallFails(r) ==
    /\ "rpc" \in Faults
    /\ stage[r] \in {"asserted", "coded", "estimated"}
    /\ Reply(r, OnchainFailure)
    /\ \/ UNCHANGED tx
       \/ stage[r] = "estimated" /\ tx' = [tx EXCEPT ![r] = "pool"]
    /\ UNCHANGED <<now, signed, pending, ask, call, chain_vars>>

----------------------------------------------------------------------------
(* The chain, and what others do there.                                     *)
\* Mutant: the aggregate is built to fail when the wallet has code already.
MineStrict(r) ==
    /\ tx[r] = "pool"
    /\ LET p == ask[r].p IN
       IF /\ Succeeds(p, call[r], code, moved)
          /\ call[r] = "deploy" => p.authorization.from \notin code
       THEN /\ tx' = [tx EXCEPT ![r] = "ok"]
            /\ moved' = moved \cup {p}
            /\ balance' = [balance EXCEPT ![p.authorization.from] = @ - p.authorization.value]
            /\ code' = After(p, call[r], code)
       ELSE tx' = [tx EXCEPT ![r] = "reverted"] /\ UNCHANGED chain_vars
    /\ UNCHANGED <<now, signed, pending, stage, ask, call, answer>>

Mine(r) ==
    /\ tx[r] = "pool"
    /\ LET p == ask[r].p IN
       IF Succeeds(p, call[r], code, moved)
       THEN /\ tx' = [tx EXCEPT ![r] = "ok"]
            /\ moved' = moved \cup {p}
            /\ balance' = [balance EXCEPT ![p.authorization.from] = @ - p.authorization.value]
            /\ code' = After(p, call[r], code)
       ELSE tx' = [tx EXCEPT ![r] = "reverted"] /\ UNCHANGED chain_vars
    /\ UNCHANGED <<now, signed, pending, stage, ask, call, answer>>

Spend(w) == /\ "spend" \in Faults
            /\ balance[w] > 0
            /\ balance' = [balance EXCEPT ![w] = 0]
            /\ UNCHANGED <<now, signed, pending, stage, ask, call, tx, answer, code, moved>>

Deploy(w) == /\ "deploy" \in Faults
             /\ Form[w] = "counterfactual" /\ w \notin code
             /\ code' = code \cup {w}
             /\ UNCHANGED <<now, signed, pending, stage, ask, call, tx, answer, balance, moved>>

Tick == /\ now < MaxTime
        /\ now' = now + 1
        /\ UNCHANGED <<signed, pending, stage, ask, call, tx, answer, chain_vars>>

Handler(r) == \/ ReadBalance(r) \/ Simulate(r) \/ ReadCode(r) \/ EstimateGas(r)
              \/ SendTransaction(r) \/ Receipt(r)

Next == \/ \E o \in Offers, w \in Wallets : Sign(o, w)
        \/ \E r \in Requests, p \in signed, q \in Offers : Arrive(r, p, q)
        \/ \E r \in Requests : Handler(r) \/ NoReceipt(r) \/ CallFails(r) \/ Mine(r)
        \/ \E w \in Wallets : Spend(w) \/ Deploy(w)
        \/ Tick

\* The facilitator's tasks run, the node answers, and a receipt is waited for
\* no longer than receipt_timeout_secs.
Fairness == \A r \in Requests : WF_vars(Handler(r) \/ NoReceipt(r))

Spec == Init /\ [][Next]_vars /\ Fairness

----------------------------------------------------------------------------
Settling(r) == ask[r].op = "settle"

(* A settlement answered with success moved the authorization, to the payee *)
(* of the requirements it was asked with and for at least their amount.     *)
SuccessMeansTransferred ==
    \A r \in Requests : answer[r] = "success" =>
        /\ ask[r].p \in moved
        /\ ask[r].p.authorization.to = ask[r].q.payTo
        /\ ask[r].p.authorization.value >= ask[r].q.amount

(* However many settlements of one payment run side by side, one of them is *)
(* answered with success: the facilitator keeps no record, the token and    *)
(* the status of the receipt decide.                                        *)
OneSuccessPerPayment ==
    \A r, s \in Requests :
        answer[r] = "success" /\ answer[s] = "success" /\ ask[r].p = ask[s].p => r = s

(* A settlement answered with 400 has sent nothing that may still move      *)
(* funds: its client can pay again.                                         *)
BadRequestMovesNothing ==
    \A r \in Requests : answer[r] = "400" => tx[r] = "none"

(* The facilitator's transactions revert only when nothing could have       *)
(* succeeded then: a wallet deployed by others in the meantime does no harm. *)
RevertsOnlyIfUnpayable ==
    [][\A r \in Requests : tx[r] = "pool" /\ tx'[r] = "reverted" =>
        ~Transferable(ask[r].p, code \cup {ask[r].p.authorization.from}, moved)]_vars

(* verify and settle take different paths to the chain and agree: at any    *)
(* moment what one simulates the call of the other does.                    *)
VerifyAgreesWithSettle ==
    \A p \in signed : Simulation(p) <=> Succeeds(p, CallFor(p, code), code, moved)

(* What a client signs for an offer of this network, with its token's       *)
(* domain, is not refused until its time runs out, if its clock is at most  *)
(* Backdate ahead: an offer has to last longer than the margin.             *)
HonestAuthorizationTaken ==
    \A p \in signed :
        /\ OnThisChain(p.accepted.network)
        /\ now + Margin <= p.authorization.validBefore
        /\ p.authorization.validBefore - p.accepted.timeout <= now + Backdate
        => ~Refused(p, p.accepted)

(* Every request is answered.                                               *)
EveryRequestAnswered == \A r \in Requests : stage[r] # "idle" ~> stage[r] = "done"
=============================================================================
