----------------------------- MODULE ExactSchemes ----------------------------
(***************************************************************************)
(* The handlers of the "exact" scheme one facilitator has for the chains   *)
(* it serves.  FacilitatorLocal finds the handler by the chain, version    *)
(* and scheme of a request; handlers of different chains share no state,   *)
(* so a behaviour is that of one chain, chosen once.  The modules of the   *)
(* chains hold the handlers; FacilitatorServer has the way to them.        *)
(***************************************************************************)
EXTENDS Eip155Exact, Sequences

CONSTANTS
    SolanaOffers, SolanaHere, FeePayer, Payer, Opened, Settings, Drafts,
    MaxUnits, MaxPrice, Lifetime, SolanaMaxTime, SolanaFaults,
    AptosOffers, AptosPayments, AptosHere

VARIABLES
    chain,      \* the chain of this behaviour
    settings, clock, built, step, wants, reply, sent, subscribed, notice,
    pool, landed, failed, tokens,       \* SolanaExact
    sponsor, place, request, status, taken, executed    \* AptosExact

Solana == INSTANCE SolanaExact WITH
    Offers <- SolanaOffers, Here <- SolanaHere, Faults <- SolanaFaults,
    MaxTime <- SolanaMaxTime,
    now <- clock, signed <- built, stage <- step, ask <- wants, answer <- reply

Aptos == INSTANCE AptosExact WITH
    Offers <- AptosOffers, Payments <- AptosPayments, Here <- AptosHere,
    stage <- place, ask <- request, answer <- status

ASSUME ExactAssumption == Solana!SolanaConstants /\ Aptos!AptosConstants

solana_vars == <<settings, clock, built, step, wants, reply, sent, subscribed, notice,
                 pool, landed, failed, tokens>>
aptos_vars == <<sponsor, place, request, status, taken, executed>>
all_vars == <<chain, vars, solana_vars, aptos_vars>>

ExactInit == /\ chain \in {"eip155", "solana", "aptos"}
             /\ Init /\ (chain # "eip155" => pending)
             /\ Solana!Init /\ (chain # "solana" => settings = CHOOSE s \in Settings : TRUE)
             /\ Aptos!Init /\ (chain # "aptos" => sponsor)

OnEip155(A) == chain = "eip155" /\ A /\ UNCHANGED <<chain, solana_vars, aptos_vars>>
OnSolana(A) == chain = "solana" /\ A /\ UNCHANGED <<chain, vars, aptos_vars>>
OnAptos(A) == chain = "aptos" /\ A /\ UNCHANGED <<chain, vars, solana_vars>>

ExactNext == OnEip155(Next) \/ OnSolana(Solana!Next) \/ OnAptos(Aptos!Next)

Task(r) == \/ OnEip155(Handler(r) \/ NoReceipt(r))
           \/ OnSolana(Solana!Handler(r))
           \/ OnAptos(Aptos!Handler(r))

ExactSpec == /\ ExactInit /\ [][ExactNext]_all_vars
             /\ \A r \in Requests : WF_all_vars(Task(r))

----------------------------------------------------------------------------
(* What the schemes promise alike, each in its own words.                   *)
TypesOK == TypeOK /\ Solana!TypeOK /\ Aptos!TypeOK

(* A settlement answered with success has transferred to the payee what its *)
(* requirements ask for.  On Aptos it has handed in a transfer that does.   *)
SuccessMeansPaid ==
    SuccessMeansTransferred /\ Solana!SuccessMeansTransferred /\ Aptos!SuccessMeansTaken

(* A settlement answered with 400 has sent nothing: its client can pay      *)
(* again.  Also when calls fail or are not answered in time, except on      *)
(* Aptos, whose provider cannot tell (README, 3.3).                         *)
BadRequestSentNothing == BadRequestMovesNothing /\ Solana!BadRequestSentNothing

(* What an honest client makes of an offer of this chain passes the checks  *)
(* that come before any call to the chain.                                  *)
HonestPaymentTaken == HonestAuthorizationTaken /\ Solana!HonestTransferTaken

(* The account that pays the fees pays for nothing else, whatever clients   *)
(* put into the transactions they ask it to sign.                           *)
SponsorProtected == Solana!FeePayerProtected /\ Aptos!OnlySettledTransfers

(* Requests are answered: on the EVM whatever happens, on Solana where the  *)
(* transaction lands.                                                       *)
RequestsAnswered == EveryRequestAnswered /\ Solana!LandedIsAnswered
=============================================================================
