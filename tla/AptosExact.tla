----------------------------- MODULE AptosExact ------------------------------
(***************************************************************************)
(* The "exact" scheme on Aptos, protocol version 2 only: the facilitator   *)
(* looks at the call and its arguments, adds a fee payer's signature when  *)
(* it sponsors gas, submits and answers with the hash.  It simulates       *)
(* nothing, reads nothing from the chain and waits for no execution.       *)
(* Clients and the chain are external.                                     *)
(***************************************************************************)
EXTENDS Naturals, Sequences, FiniteSets

CONSTANTS Requests,    \* POST /verify and POST /settle
          Payments,    \* transactions of clients: call, arguments, the offer accepted
          Offers,      \* payment requirements
          Here         \* chain of the facilitator's provider

AptosConstants ==
    /\ \A o \in Offers : o.amount \in Nat
    /\ \A p \in Payments : /\ p.accepted \in Offers
                          /\ p.args = [i \in 1 .. Len(p.args) |-> p.args[i]]

VARIABLES
    sponsor,     \* does the facilitator pay for gas?
    stage, ask, answer,    \* of each request
    taken,       \* payments the node took
    executed     \* payments that were executed, with the effect they ask for

vars == <<sponsor, stage, ask, answer, taken, executed>>

NoAsk == [op |-> "none"]

(* verify_transfer.                                                         *)
WrongOffer(p, q) == p.accepted # q \/ p.accepted.network # Here

Decoded(p) == p.kind = "entry"
IsTransfer(p) == p.call = <<"primary_fungible_store", "transfer">>

Arguments(p, q) ==
    /\ Len(p.args) = 3
    /\ p.args[1] = q.asset
    /\ p.args[2] = q.payTo
    /\ p.args[3] = q.amount

Refused(p, q) == WrongOffer(p, q) \/ ~Decoded(p) \/ ~IsTransfer(p) \/ ~Arguments(p, q)

\* settle_transaction, before the submission.  A sponsor has a key: from_config
\* refuses to start without one.
Signable(p) == sponsor \/ p.authenticator = "ed25519"

----------------------------------------------------------------------------
TypeOK ==
    /\ stage \in [Requests -> {"idle", "signing", "submitting", "done"}]
    /\ answer \in [Requests -> {"none", "valid", "success", "400"}]
    /\ executed \subseteq taken /\ taken \subseteq Payments
    /\ \A r \in Requests : (stage[r] = "done") = (answer[r] # "none")

Init ==
    /\ sponsor \in BOOLEAN
    /\ stage = [r \in Requests |-> "idle"]
    /\ ask = [r \in Requests |-> NoAsk]
    /\ answer = [r \in Requests |-> "none"]
    /\ taken = {}
    /\ executed = {}

Go(r, s) == stage' = [stage EXCEPT ![r] = s]
Reply(r, a) == Go(r, "done") /\ answer' = [answer EXCEPT ![r] = a]

Arrive(r, op, p, q) ==
    /\ stage[r] = "idle"
    /\ ask' = [ask EXCEPT ![r] = [op |-> op, p |-> p, q |-> q]]
    /\ IF Refused(p, q) THEN Reply(r, "400")
       ELSE IF op = "verify" THEN Reply(r, "valid")
       ELSE Go(r, "signing") /\ UNCHANGED answer
    /\ UNCHANGED <<sponsor, taken, executed>>

SignTransaction(r) ==
    /\ stage[r] = "signing"
    /\ IF Signable(ask[r].p) THEN Go(r, "submitting") /\ UNCHANGED answer
       ELSE Reply(r, "400")
    /\ UNCHANGED <<sponsor, ask, taken, executed>>

\* Mutant: the answer of the node is not looked at.
RejectedAnyhow(r) ==
    /\ stage[r] = "submitting"
    /\ Reply(r, "success")
    /\ UNCHANGED <<sponsor, ask, taken, executed>>

(* submit_bcs: the node takes the transaction and says so; or it takes it   *)
(* and its answer is lost; or it rejects it.                                *)
Submitted(r) ==
    /\ stage[r] = "submitting"
    /\ ask[r].p.genuine
    /\ taken' = taken \cup {ask[r].p}
    /\ Reply(r, "success")
    /\ UNCHANGED <<sponsor, ask, executed>>

AnswerLost(r) ==
    /\ stage[r] = "submitting"
    /\ ask[r].p.genuine
    /\ taken' = taken \cup {ask[r].p}
    /\ Reply(r, "400")
    /\ UNCHANGED <<sponsor, ask, executed>>

Rejected(r) ==
    /\ stage[r] = "submitting"
    /\ Reply(r, "400")
    /\ UNCHANGED <<sponsor, ask, taken, executed>>

\* A sequence number is used once; a transaction that is aborted has no effect.
Execute(p) ==
    /\ p \in taken
    /\ executed' = executed \cup {p}
    /\ UNCHANGED <<sponsor, stage, ask, answer, taken>>

Handler(r) == SignTransaction(r) \/ Submitted(r) \/ Rejected(r)

Next == \/ \E r \in Requests, op \in {"verify", "settle"}, p \in Payments, q \in Offers :
             Arrive(r, op, p, q)
        \/ \E r \in Requests : Handler(r) \/ AnswerLost(r)
        \/ \E p \in Payments : Execute(p)

Spec == Init /\ [][Next]_vars /\ \A r \in Requests : WF_vars(Handler(r))

----------------------------------------------------------------------------
(* A settlement answered with success has given the node a transfer of what *)
(* was required: it may still be aborted.                                   *)
SuccessMeansTaken ==
    \A r \in Requests : answer[r] = "success" =>
        LET p == ask[r].p  q == ask[r].q IN
        /\ p \in taken
        /\ IsTransfer(p) /\ p.args = <<q.asset, q.payTo, q.amount>>

(* Nothing reaches the chain but transfers somebody asked to settle, for an *)
(* offer of this chain: POST /verify submits nothing, and a facilitator     *)
(* that sponsors gas pays for no other call.                                *)
OnlySettledTransfers ==
    \A p \in taken : \E r \in Requests :
        /\ ask[r].op = "settle" /\ ask[r].p = p
        /\ IsTransfer(p) /\ p.accepted.network = Here
        /\ p.args = <<p.accepted.asset, p.accepted.payTo, p.accepted.amount>>
=============================================================================
