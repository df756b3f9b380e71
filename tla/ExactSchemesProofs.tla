------------------------- MODULE ExactSchemesProofs --------------------------
(***************************************************************************)
(* What the answers of the three families of handlers say of their chains  *)
(* is so: for any requests, offers, wallets, drafts, settings and bounds,  *)
(* with failing calls, time-outs and whatever else happens on the chain.   *)
(***************************************************************************)
EXTENDS ExactSchemes, FiniteSetTheorems, TLAPS

(* The EVM handlers.                                                        *)
\* What the payments a request may be about look like.
EvmPayments ==
    /\ IsFiniteSet(signed)
    /\ \A p \in signed : p.authorization.from \in Wallets /\ p.authorization.value \in Nat
    /\ ask = [r \in Requests |-> ask[r]]
    /\ \A r \in Requests : stage[r] # "idle" => ask[r].p \in signed /\ ask[r].q \in Offers

\* What has been checked of a request by the time it is at a stage, and what
\* its transaction and its answer say.
Addressed(r) == ask[r].p.authorization.to = ask[r].q.payTo
Covered(r) == ask[r].p.authorization.value >= ask[r].q.amount

EvmChecked(r) ==
    /\ stage[r] \in {"asserted", "coded", "estimated", "sent"} => Addressed(r)
    /\ stage[r] \in {"coded", "estimated", "sent"} => Covered(r)
    /\ tx[r] # "none" => stage[r] \in {"sent", "done"} /\ Addressed(r) /\ Covered(r)
    /\ answer[r] = "success" => tx[r] = "ok"
    /\ answer[r] = "400" => tx[r] = "none"
    /\ tx[r] = "ok" => ask[r].p \in moved

\* A token takes an authorization once.
EvmMovedOnce ==
    \A r, s \in Requests : tx[r] = "ok" /\ tx[s] = "ok" /\ ask[r].p = ask[s].p => r = s

EvmInv == TypeOK /\ EvmPayments /\ (\A r \in Requests : EvmChecked(r)) /\ EvmMovedOnce

LEMMA EvmInit == ASSUME Init PROVE EvmInv
  <1>1. IsFiniteSet(signed) /\ Cardinality(signed) = 0
    BY FS_EmptySet DEF Init
  <1>2. TypeOK
    BY <1>1, Eip155Assumption DEF Init, TypeOK
  <1>3. EvmPayments
    BY <1>1 DEF Init, EvmPayments
  <1>4. EvmMovedOnce /\ \A r \in Requests : EvmChecked(r)
    BY DEF Init, EvmMovedOnce, EvmChecked
  <1> QED BY <1>2, <1>3, <1>4 DEF EvmInv

\* Signing adds one well-formed payment and touches nothing else.
LEMMA EvmSign ==
  ASSUME EvmInv, NEW o \in Offers, NEW w \in Wallets, Sign(o, w)
  PROVE  EvmInv'
  <1>1. PICK p : /\ signed' = signed \cup {p}
                 /\ p.authorization.from \in Wallets /\ p.authorization.value \in Nat
    <2>1. PICK lead \in Leads, genuine \in {TRUE, FALSE} :
            signed' = signed \cup {Payment(o, w, now + lead, genuine)}
      BY DEF Sign
    <2>2. /\ Payment(o, w, now + lead, genuine).authorization.from = w
          /\ Payment(o, w, now + lead, genuine).authorization.value = o.amount
      BY DEF Payment, Authorization
    <2> QED BY <2>1, <2>2, Eip155Assumption
  <1>2. IsFiniteSet(signed') /\ Cardinality(signed') <= MaxPayments
    <2>1. IsFiniteSet(signed) /\ Cardinality(signed) \in Nat
      BY FS_CardinalityType DEF EvmInv, EvmPayments
    <2>2. /\ IsFiniteSet(signed \cup {p})
          /\ \/ Cardinality(signed \cup {p}) = Cardinality(signed)
             \/ Cardinality(signed \cup {p}) = Cardinality(signed) + 1
      BY <2>1, FS_AddElement
    <2>3. Cardinality(signed) < MaxPayments
      BY DEF Sign
    <2>4. MaxPayments \in Nat
      BY Eip155Assumption
    <2> QED BY <1>1, <2>1, <2>2, <2>3, <2>4
  <1>3. UNCHANGED <<now, pending, stage, ask, call, tx, answer, balance, code, moved>>
    BY DEF Sign, chain_vars
  <1>4. TypeOK'
    BY <1>1, <1>2, <1>3 DEF EvmInv, TypeOK
  <1>5. EvmPayments'
    BY <1>1, <1>2, <1>3 DEF EvmInv, EvmPayments
  <1>6. EvmMovedOnce' /\ \A r \in Requests : EvmChecked(r)'
    BY <1>3 DEF EvmInv, EvmMovedOnce, EvmChecked, Addressed, Covered
  <1> QED BY <1>4, <1>5, <1>6 DEF EvmInv

\* A request arrives.
LEMMA EvmArrive ==
  ASSUME EvmInv, NEW r \in Requests, NEW p \in signed, NEW q \in Offers, Arrive(r, p, q)
  PROVE  EvmInv'
  <1> USE DEF Go, Reply, PaymentVerification
  <1>1. /\ UNCHANGED <<now, signed, pending, call, tx, balance, code, moved>>
        /\ stage[r] = "idle" /\ tx[r] = "none" /\ answer[r] = "none"
    BY DEF Arrive, EvmInv, TypeOK, EvmChecked, chain_vars
  <1>2. PICK op \in {"verify", "settle"} : ask' = [ask EXCEPT ![r] = [op |-> op, p |-> p, q |-> q]]
    BY DEF Arrive
  <1>3. /\ ask'[r].p = p /\ ask'[r].q = q
        /\ \A s \in Requests \ {r} : ask'[s] = ask[s]
        /\ ask' = [s \in Requests |-> ask'[s]]
    BY <1>2 DEF EvmInv, EvmPayments
  <1>4. /\ \A s \in Requests \ {r} : stage'[s] = stage[s] /\ answer'[s] = answer[s]
        /\ \/ stage'[r] = "asserted" /\ answer'[r] = "none" /\ ~Refused(p, q)
           \/ stage'[r] = "done" /\ answer'[r] = "400"
        /\ stage' \in [Requests -> {"idle", "asserted", "coded", "estimated", "sent", "done"}]
        /\ answer' \in [Requests -> {"none", "valid", "success", "400", "500"}]
    BY <1>1 DEF Arrive, EvmInv, TypeOK
  <1>5. TypeOK'
    BY <1>1, <1>4 DEF EvmInv, TypeOK
  <1>6. EvmPayments'
    BY <1>1, <1>3, <1>4 DEF EvmInv, EvmPayments
  <1>7. \A s \in Requests : EvmChecked(s)'
    BY <1>1, <1>3, <1>4 DEF EvmInv, EvmChecked, Addressed, Covered, Refused
  <1>8. EvmMovedOnce'
    BY <1>1, <1>3 DEF EvmInv, EvmMovedOnce
  <1> QED BY <1>5, <1>6, <1>7, <1>8 DEF EvmInv

\* A step of one request at the facilitator: it is enough to look at that request.
LEMMA EvmStepOf ==
  ASSUME EvmInv, NEW r \in Requests, stage[r] # "idle",
         UNCHANGED <<now, signed, pending, ask, balance, code, moved>>,
         stage' = [stage EXCEPT ![r] = stage'[r]], answer' = [answer EXCEPT ![r] = answer'[r]],
         call' = [call EXCEPT ![r] = call'[r]], tx' = [tx EXCEPT ![r] = tx'[r]],
         stage'[r] \in {"asserted", "coded", "estimated", "sent", "done"},
         answer'[r] \in {"none", "valid", "success", "400", "500"},
         call'[r] \in {"none", "transfer", "deploy"},
         tx'[r] \in {"none", "pool", "ok", "reverted"},
         (stage'[r] = "done") = (answer'[r] # "none"),
         tx'[r] = "ok" => tx[r] = "ok",
         EvmChecked(r)'
  PROVE  EvmInv'
  <1>1. TypeOK'
    BY DEF EvmInv, TypeOK
  <1>2. EvmPayments'
    BY DEF EvmInv, EvmPayments, TypeOK
  <1>3. \A s \in Requests : EvmChecked(s)'
    BY DEF EvmInv, EvmChecked, TypeOK, Addressed, Covered
  <1>4. EvmMovedOnce'
    BY DEF EvmInv, EvmMovedOnce, TypeOK
  <1> QED BY <1>1, <1>2, <1>3, <1>4 DEF EvmInv

\* The steps of a request's handler, an error of a call among them.
LEMMA EvmHandler ==
  ASSUME EvmInv, NEW r \in Requests, Handler(r) \/ NoReceipt(r) \/ CallFails(r)
  PROVE  EvmInv'
  <1> USE DEF Go, Reply, PaymentVerification, OnchainFailure, chain_vars
  <1>t. /\ stage \in [Requests -> {"idle", "asserted", "coded", "estimated", "sent", "done"}]
        /\ call \in [Requests -> {"none", "transfer", "deploy"}]
        /\ tx \in [Requests -> {"none", "pool", "ok", "reverted"}]
        /\ answer \in [Requests -> {"none", "valid", "success", "400", "500"}]
        /\ (stage[r] = "done") = (answer[r] # "none")
        /\ EvmChecked(r)
    BY DEF EvmInv, TypeOK
  <1>1. CASE ReadBalance(r)
    <2>1. ask[r].p.authorization.value \in Int /\ ask[r].q.amount \in Int
      BY <1>1, Eip155Assumption DEF ReadBalance, EvmInv, EvmPayments
    <2>2. stage'[r] = "coded" => Covered(r)
      BY <1>1, <1>t, <2>1 DEF ReadBalance, Underfunded, Covered
    <2> QED BY <1>1, <1>t, <2>2, EvmStepOf DEF ReadBalance, EvmChecked, Addressed, Covered
  <1>2. CASE Simulate(r)
    BY <1>2, <1>t, EvmStepOf DEF Simulate, EvmChecked, Addressed, Covered
  <1>3. CASE ReadCode(r)
    <2>1. CallFor(ask[r].p, code) \in {"transfer", "deploy"}
      BY DEF CallFor
    <2> QED BY <1>3, <1>t, <2>1, EvmStepOf DEF ReadCode, EvmChecked, Addressed, Covered
  <1>4. CASE EstimateGas(r)
    BY <1>4, <1>t, EvmStepOf DEF EstimateGas, EvmChecked, Addressed, Covered
  <1>5. CASE SendTransaction(r)
    BY <1>5, <1>t, EvmStepOf DEF SendTransaction, EvmChecked, Addressed, Covered
  <1>6. CASE Receipt(r)
    BY <1>6, <1>t, EvmStepOf DEF Receipt, EvmChecked, Addressed, Covered
  <1>7. CASE NoReceipt(r)
    BY <1>7, <1>t, EvmStepOf DEF NoReceipt, EvmChecked, Addressed, Covered
  <1>8. CASE CallFails(r)
    BY <1>8, <1>t, EvmStepOf DEF CallFails, EvmChecked, Addressed, Covered
  <1> QED BY <1>1, <1>2, <1>3, <1>4, <1>5, <1>6, <1>7, <1>8 DEF Handler

\* A block: the transaction moves a payment nobody has moved, or reverts.
LEMMA EvmMine ==
  ASSUME EvmInv, NEW r \in Requests, Mine(r)
  PROVE  EvmInv'
  <1> DEFINE p == ask[r].p
  <1>1. /\ UNCHANGED <<now, signed, pending, stage, ask, call, answer>>
        /\ tx[r] = "pool" /\ stage[r] \in {"sent", "done"} /\ p \in signed
        /\ p.authorization.from \in Wallets /\ p.authorization.value \in Nat
    BY DEF Mine, EvmInv, EvmChecked, EvmPayments
  <1>2. CASE Succeeds(p, call[r], code, moved)
    <2>1. /\ tx' = [tx EXCEPT ![r] = "ok"]
          /\ moved' = moved \cup {p}
          /\ balance' = [balance EXCEPT ![p.authorization.from] = @ - p.authorization.value]
          /\ code' = After(p, call[r], code)
      BY <1>2 DEF Mine
    <2>2. p \notin moved /\ p.authorization.value <= balance[p.authorization.from]
      BY <1>2 DEF Succeeds, Transferable
    <2>3. code' \subseteq Wallets
      BY <1>1, <2>1 DEF After, EvmInv, TypeOK
    <2>4. balance' \in [Wallets -> 0 .. Funds]
      <3>1. balance[p.authorization.from] - p.authorization.value \in 0 .. Funds
        BY <1>1, <2>2, Eip155Assumption DEF EvmInv, TypeOK
      <3> QED BY <1>1, <2>1, <3>1 DEF EvmInv, TypeOK
    <2>5. TypeOK'
      BY <1>1, <2>1, <2>3, <2>4 DEF EvmInv, TypeOK
    <2>6. EvmPayments' /\ \A s \in Requests : EvmChecked(s)'
      BY <1>1, <2>1 DEF EvmInv, EvmPayments, EvmChecked, Addressed, Covered, TypeOK
    <2>7. EvmMovedOnce'
      BY <1>1, <2>1, <2>2 DEF EvmInv, EvmMovedOnce, EvmChecked, TypeOK
    <2> QED BY <2>5, <2>6, <2>7 DEF EvmInv
  <1>3. CASE ~Succeeds(p, call[r], code, moved)
    <2>1. tx' = [tx EXCEPT ![r] = "reverted"] /\ UNCHANGED <<balance, code, moved>>
      BY <1>3 DEF Mine, chain_vars
    <2>2. EvmChecked(r)'
      BY <1>1, <2>1 DEF EvmInv, TypeOK, EvmChecked, Addressed, Covered
    <2>3. /\ stage' = [stage EXCEPT ![r] = stage'[r]] /\ answer' = [answer EXCEPT ![r] = answer'[r]]
          /\ call' = [call EXCEPT ![r] = call'[r]] /\ tx' = [tx EXCEPT ![r] = tx'[r]]
          /\ tx'[r] = "reverted"
      BY <1>1, <2>1 DEF EvmInv, TypeOK
    <2>4. /\ stage'[r] \in {"asserted", "coded", "estimated", "sent", "done"}
          /\ answer'[r] \in {"none", "valid", "success", "400", "500"}
          /\ call'[r] \in {"none", "transfer", "deploy"}
          /\ (stage'[r] = "done") = (answer'[r] # "none")
      BY <1>1, <2>1 DEF EvmInv, TypeOK
    <2> QED BY <1>1, <2>1, <2>2, <2>3, <2>4, EvmStepOf
  <1> QED BY <1>2, <1>3

\* EvmInv holds for good.
LEMMA EvmStep == ASSUME EvmInv, [Next]_vars PROVE EvmInv'
  <1>1. ASSUME NEW o \in Offers, NEW w \in Wallets, Sign(o, w)
        PROVE  EvmInv'
    BY <1>1, EvmSign
  <1>2. ASSUME NEW r \in Requests, NEW p \in signed, NEW q \in Offers, Arrive(r, p, q)
        PROVE  EvmInv'
    BY <1>2, EvmArrive
  <1>3. ASSUME NEW r \in Requests, Handler(r) \/ NoReceipt(r) \/ CallFails(r)
        PROVE  EvmInv'
    BY <1>3, EvmHandler
  <1>4. ASSUME NEW r \in Requests, Mine(r)
        PROVE  EvmInv'
    BY <1>4, EvmMine
  <1>5. ASSUME NEW w \in Wallets, Spend(w) \/ Deploy(w)
        PROVE  EvmInv'
    <2>1. /\ UNCHANGED <<now, signed, pending, stage, ask, call, tx, answer, moved>>
          /\ balance' \in [Wallets -> 0 .. Funds] /\ code' \subseteq Wallets
      BY <1>5, Eip155Assumption DEF Spend, Deploy, EvmInv, TypeOK
    <2> QED BY <2>1 DEF EvmInv, TypeOK, EvmPayments, EvmChecked, EvmMovedOnce, Addressed, Covered
  <1>6. CASE Tick
    <2>1. now' \in 0 .. MaxTime
      BY <1>6, Eip155Assumption DEF Tick, EvmInv, TypeOK
    <2>2. UNCHANGED <<signed, pending, stage, ask, call, tx, answer, balance, code, moved>>
      BY <1>6 DEF Tick, chain_vars
    <2> QED BY <2>1, <2>2 DEF EvmInv, TypeOK, EvmPayments, EvmChecked, EvmMovedOnce, Addressed, Covered
  <1>7. CASE UNCHANGED vars
    BY <1>7 DEF vars, chain_vars, EvmInv, TypeOK, EvmPayments, EvmChecked, EvmMovedOnce, Addressed, Covered
  <1> QED BY <1>1, <1>2, <1>3, <1>4, <1>5, <1>6, <1>7 DEF Next

----------------------------------------------------------------------------
(* The Solana handlers.                                                     *)
SolPayments ==
    /\ settings \in Settings
    /\ \A p \in built : p.draft \in Drafts /\ p.amount \in Nat
    /\ wants = [r \in Requests |-> wants[r]]
    /\ \A r \in Requests : step[r] # "idle" => wants[r].p \in built
    /\ pool \cap (landed \cup failed) = {}

\* verify_transaction has passed the transaction of r, but for the accounts.
Matched(r) ==
    LET p == wants[r].p  q == wants[r].q IN
    /\ Solana!ComputeLimit(p) /\ Solana!ComputePrice(p)
    /\ Solana!ValidInstructions(p) /\ Solana!TransferMatches(p, q)

Counted(r) ==
    /\ Solana!AmountMatches(wants[r].p, wants[r].q)
    /\ settings.strict => ~Solana!FeePayerNamed(wants[r].p)

SolChecked(r) ==
    /\ step[r] \in {"matched", "counted", "simulated", "ready", "waiting"} => Matched(r)
    /\ step[r] \in {"counted", "simulated", "ready", "waiting"} => Counted(r)
    /\ r \in sent => step[r] \in {"waiting", "done"} /\ reply[r] # "400"
    /\ step[r] # "done" => reply[r] = "none"
    /\ r \in subscribed => step[r] # "idle"
    /\ notice[r] = "landed" => r \in subscribed /\ wants[r].p \in landed
    /\ reply[r] = "success" => Matched(r) /\ Counted(r) /\ wants[r].p \in landed

SolInv == /\ Solana!TypeOK /\ SolPayments /\ Solana!FeePayerProtected
          /\ \A r \in Requests : SolChecked(r)

LEMMA SolInit == ASSUME Solana!Init PROVE SolInv
  <1>1. Funds \in Nat /\ SolanaMaxTime \in Nat
    BY ExactAssumption DEF Solana!SolanaConstants
  <1>2. Solana!TypeOK
    BY <1>1 DEF Solana!Init, Solana!TypeOK
  <1>3. SolPayments /\ Solana!FeePayerProtected
    BY DEF Solana!Init, SolPayments, Solana!FeePayerProtected
  <1>4. \A r \in Requests : SolChecked(r)
    BY DEF Solana!Init, SolChecked
  <1> QED BY <1>2, <1>3, <1>4 DEF SolInv

\* What passes the checks is safe for the account that pays the fees.
LEMMA CheckedIsProtected ==
  ASSUME SolInv, NEW r \in Requests, step[r] # "idle", Matched(r), Counted(r)
  PROVE  LET p == wants[r].p IN
         /\ p.draft.authority # FeePayer
         /\ p.draft.units <= MaxUnits /\ p.draft.price <= MaxPrice
         /\ \A i \in DOMAIN p.draft.shape :
             /\ i > 3 => p.draft.shape[i] \in settings.allowed \ settings.blocked
             /\ settings.strict => p.draft.shape[i] # "sponsor"
  <1> DEFINE d == wants[r].p.draft
  <1>1. d.shape \in Seq(STRING)
    BY ExactAssumption DEF Solana!SolanaConstants, SolInv, SolPayments
  <1>2. d.authority # FeePayer /\ d.units <= MaxUnits /\ d.price <= MaxPrice
    BY DEF Matched, Solana!ComputeLimit, Solana!ComputePrice, Solana!TransferMatches
  <1>3. ASSUME NEW i \in DOMAIN d.shape, i > 3
        PROVE  d.shape[i] \in settings.allowed \ settings.blocked
    <2>1. i \in 4 .. Len(d.shape)
      BY <1>1, <1>3
    <2> QED BY <2>1 DEF Matched, Solana!ValidInstructions, Solana!Additional,
                        Solana!IsAllowed, Solana!IsBlocked
  <1>4. ASSUME NEW i \in DOMAIN d.shape, settings.strict
        PROVE  d.shape[i] # "sponsor"
    BY <1>4 DEF Counted, Solana!FeePayerNamed
  <1> QED BY <1>2, <1>3, <1>4

\* The checks are of a request's own payment and of settings nobody changes.
LEMMA ChecksKept ==
  ASSUME NEW r \in Requests, wants'[r] = wants[r], settings' = settings
  PROVE  Matched(r)' = Matched(r) /\ Counted(r)' = Counted(r)
  BY DEF Matched, Counted, Solana!ComputeLimit, Solana!ComputePrice,
         Solana!ValidInstructions, Solana!TransferMatches, Solana!AmountMatches,
         Solana!FeePayerNamed, Solana!Additional, Solana!IsAllowed, Solana!IsBlocked

LEMMA SolSign ==
  ASSUME SolInv, NEW o \in SolanaOffers, Solana!Sign(o)
  PROVE  SolInv'
  <1>1. PICK d \in Drafts : built' = built \cup {Solana!Transaction(o, d)}
    BY DEF Solana!Sign
  <1>2. /\ Solana!Transaction(o, d).draft = d
        /\ Solana!Transaction(o, d).amount = o.amount /\ o.amount \in Nat
    BY ExactAssumption DEF Solana!Transaction, Solana!SolanaConstants
  <1>3. UNCHANGED <<settings, clock, step, wants, reply, sent, subscribed, notice,
                    pool, landed, failed, tokens>>
    BY DEF Solana!Sign, Solana!cluster
  <1>4. Solana!TypeOK'
    BY <1>1, <1>3 DEF SolInv, Solana!TypeOK
  <1>5. SolPayments'
    BY <1>1, <1>2, <1>3 DEF SolInv, SolPayments
  <1>6. Solana!FeePayerProtected'
    BY <1>3 DEF SolInv, Solana!FeePayerProtected
  <1>7. \A r \in Requests : SolChecked(r)'
    <2>1. \A r \in Requests : Matched(r)' = Matched(r) /\ Counted(r)' = Counted(r)
      BY <1>3, ChecksKept
    <2> QED BY <1>3, <2>1 DEF SolInv, SolChecked
  <1> QED BY <1>4, <1>5, <1>6, <1>7 DEF SolInv

LEMMA SolArrive ==
  ASSUME SolInv, NEW r \in Requests, NEW p \in built, NEW q \in SolanaOffers,
         Solana!Arrive(r, p, q)
  PROVE  SolInv'
  <1> USE DEF Solana!Go, Solana!Reply, Solana!TransactionSimulation
  <1>1. /\ UNCHANGED <<settings, clock, built, sent, subscribed, notice, pool, landed,
                       failed, tokens>>
        /\ step[r] = "idle" /\ r \notin sent /\ r \notin subscribed /\ reply[r] = "none"
        /\ notice[r] # "landed"
    BY DEF Solana!Arrive, Solana!cluster, SolInv, SolChecked
  <1>2. PICK op \in {"verify", "settle"} :
          wants' = [wants EXCEPT ![r] = [op |-> op, p |-> p, q |-> q]]
    BY DEF Solana!Arrive
  <1>3. /\ wants'[r].p = p /\ wants'[r].q = q
        /\ \A s \in Requests \ {r} : wants'[s] = wants[s]
        /\ wants' = [s \in Requests |-> wants'[s]]
    BY <1>2 DEF SolInv, SolPayments
  <1>4. /\ \A s \in Requests \ {r} : step'[s] = step[s] /\ reply'[s] = reply[s]
        /\ \/ step'[r] = "matched" /\ reply'[r] = "none" /\ ~Solana!Refused(p, q)
           \/ step'[r] = "done" /\ reply'[r] = "400"
        /\ step' \in [Requests -> {"idle", "matched", "counted", "simulated", "ready",
                                   "waiting", "done"}]
        /\ reply' \in [Requests -> {"none", "valid", "success", "400", "500"}]
    BY <1>1 DEF Solana!Arrive, SolInv, Solana!TypeOK
  <1>5. Solana!TypeOK'
    BY <1>1, <1>4 DEF SolInv, Solana!TypeOK
  <1>6. SolPayments'
    BY <1>1, <1>3, <1>4 DEF SolInv, SolPayments
  <1>7. Solana!FeePayerProtected'
    BY <1>1 DEF SolInv, Solana!FeePayerProtected
  <1>8. SolChecked(r)'
    <2>1. ASSUME ~Solana!Refused(p, q) PROVE Matched(r)'
      <3>1. /\ Solana!ComputeLimit(p) /\ Solana!ComputePrice(p)
            /\ Solana!ValidInstructions(p) /\ Solana!TransferMatches(p, q)
        BY <2>1 DEF Solana!Refused
      <3>2. wants'[r].p = p /\ wants'[r].q = q /\ settings' = settings
        BY <1>1, <1>3
      <3> QED BY <3>1, <3>2 DEF Matched, Solana!ComputeLimit, Solana!ComputePrice,
                 Solana!ValidInstructions, Solana!TransferMatches, Solana!Additional,
                 Solana!IsAllowed, Solana!IsBlocked
    <2> QED BY <1>1, <1>4, <2>1 DEF SolChecked
  <1>9. ASSUME NEW s \in Requests \ {r} PROVE SolChecked(s)'
    BY <1>1, <1>3, <1>4, ChecksKept DEF SolInv, SolChecked
  <1> QED BY <1>5, <1>6, <1>7, <1>8, <1>9 DEF SolInv

\* A step of one request at the facilitator: it is enough to look at that request.
LEMMA SolStepOf ==
  ASSUME SolInv, NEW r \in Requests, step[r] # "idle",
         UNCHANGED <<settings, clock, built, wants, notice, landed, failed, tokens>>,
         step' = [step EXCEPT ![r] = step'[r]], reply' = [reply EXCEPT ![r] = reply'[r]],
         sent' \in {sent, sent \cup {r}},
         subscribed' \in {subscribed, IF settings.pubsub THEN subscribed \cup {r} ELSE subscribed},
         pool' = pool \/ (/\ pool' = pool \cup {wants[r].p}
                          /\ wants[r].p \notin landed \cup failed
                          /\ Matched(r) /\ Counted(r)),
         step'[r] \in {"counted", "simulated", "ready", "waiting", "done"},
         reply'[r] \in {"none", "valid", "success", "400", "500"},
         SolChecked(r)'
  PROVE  SolInv'
  <1>1. Solana!TypeOK'
    BY DEF SolInv, Solana!TypeOK, SolPayments
  <1>2. SolPayments'
    BY DEF SolInv, SolPayments, Solana!TypeOK
  <1>3. Solana!FeePayerProtected'
    <2>1. CASE pool' = pool
      BY <2>1 DEF SolInv, Solana!FeePayerProtected
    <2>2. CASE pool' = pool \cup {wants[r].p} /\ Matched(r) /\ Counted(r)
      BY <2>2, CheckedIsProtected DEF SolInv, Solana!FeePayerProtected
    <2> QED BY <2>1, <2>2
  <1>4. ASSUME NEW s \in Requests \ {r} PROVE SolChecked(s)'
    BY ChecksKept DEF SolInv, SolChecked, Solana!TypeOK
  <1> QED BY <1>1, <1>2, <1>3, <1>4 DEF SolInv

LEMMA SolHandler ==
  ASSUME SolInv, NEW r \in Requests, Solana!Handler(r) \/ Solana!CallFails(r)
  PROVE  SolInv'
  <1> USE DEF Solana!Go, Solana!Reply, Solana!TransactionSimulation, Solana!OnchainFailure,
              Solana!cluster
  <1>t. /\ step \in [Requests -> {"idle", "matched", "counted", "simulated", "ready",
                                  "waiting", "done"}]
        /\ reply \in [Requests -> {"none", "valid", "success", "400", "500"}]
        /\ SolChecked(r)
    BY DEF SolInv, Solana!TypeOK
  <1>1. CASE Solana!GetAccounts(r)
    <2>1. step'[r] = "counted" => Counted(r)
      BY <1>1, <1>t DEF Solana!GetAccounts, Counted
    <2> QED BY <1>1, <1>t, <2>1, ChecksKept, SolStepOf DEF Solana!GetAccounts, SolChecked
  <1>2. CASE Solana!Simulate(r)
    BY <1>2, <1>t, ChecksKept, SolStepOf DEF Solana!Simulate, SolChecked
  <1>3. CASE Solana!FullySigned(r)
    BY <1>3, <1>t, ChecksKept, SolStepOf DEF Solana!FullySigned, SolChecked
  <1>4. CASE Solana!Subscribe(r)
    BY <1>4, <1>t, ChecksKept, SolStepOf DEF Solana!Subscribe, SolChecked
  <1>5. CASE Solana!Send(r)
    BY <1>5, <1>t, ChecksKept, SolStepOf DEF Solana!Send, Solana!Deliver, SolChecked
  <1>6. CASE Solana!Notified(r)
    BY <1>6, <1>t, ChecksKept, SolStepOf DEF Solana!Notified, SolChecked
  <1>7. CASE Solana!Confirmed(r)
    BY <1>7, <1>t, ChecksKept, SolStepOf DEF Solana!Confirmed, SolChecked
  <1>8. CASE Solana!CallFails(r)
    BY <1>8, <1>t, ChecksKept, SolStepOf DEF Solana!CallFails, Solana!Deliver, SolChecked
  <1> QED BY <1>1, <1>2, <1>3, <1>4, <1>5, <1>6, <1>7, <1>8 DEF Solana!Handler

\* The cluster executes a transaction it has not executed, and tells of it.
LEMMA SolLand ==
  ASSUME SolInv, NEW p \in built, Solana!Land(p)
  PROVE  SolInv'
  <1>1. /\ UNCHANGED <<settings, clock, built, step, wants, reply, sent, subscribed>>
        /\ p \in pool /\ pool' = pool \ {p} /\ p.amount \in Nat
        /\ p \notin landed /\ p \notin failed
    BY DEF Solana!Land, SolInv, SolPayments
  <1>2. /\ landed' \in {landed, landed \cup {p}} /\ failed' \in {failed, failed \cup {p}}
        /\ landed' = landed \/ failed' = failed
    BY DEF Solana!Land
  <1>3. tokens' \in 0 .. Funds
    <2>1. Funds \in Nat /\ tokens \in 0 .. Funds
      BY ExactAssumption DEF Solana!SolanaConstants, SolInv, Solana!TypeOK
    <2> QED BY <1>1, <2>1 DEF Solana!Land
  <1>4. /\ notice' \in [Requests -> {"none", "landed", "failed"}]
        /\ \A r \in Requests :
             notice'[r] = "landed" => \/ notice[r] = "landed"
                                      \/ r \in subscribed /\ wants[r].p \in landed'
    BY DEF Solana!Land, Solana!Tell, SolInv, Solana!TypeOK
  <1>5. Solana!TypeOK'
    BY <1>1, <1>2, <1>3, <1>4 DEF SolInv, Solana!TypeOK
  <1>6. SolPayments'
    BY <1>1, <1>2 DEF SolInv, SolPayments
  <1>7. Solana!FeePayerProtected'
    BY <1>1, <1>2 DEF SolInv, Solana!FeePayerProtected
  <1>8. ASSUME NEW r \in Requests PROVE SolChecked(r)'
    BY <1>1, <1>2, <1>4, ChecksKept DEF SolInv, SolChecked
  <1> QED BY <1>5, <1>6, <1>7, <1>8 DEF SolInv

\* SolInv holds for good.
LEMMA SolStep == ASSUME SolInv, [Solana!Next]_solana_vars PROVE SolInv'
  <1>1. ASSUME NEW o \in SolanaOffers, Solana!Sign(o) PROVE SolInv'
    BY <1>1, SolSign
  <1>2. ASSUME NEW r \in Requests, NEW p \in built, NEW q \in SolanaOffers,
               Solana!Arrive(r, p, q)
        PROVE  SolInv'
    BY <1>2, SolArrive
  <1>3. ASSUME NEW r \in Requests, Solana!Handler(r) \/ Solana!CallFails(r) PROVE SolInv'
    BY <1>3, SolHandler
  <1>4. ASSUME NEW p \in built, Solana!Land(p) PROVE SolInv'
    BY <1>4, SolLand
  <1>5. CASE Solana!Spend \/ Solana!Tick \/ UNCHANGED solana_vars
    <2>1. /\ UNCHANGED <<settings, built, step, wants, reply, sent, subscribed, notice,
                         pool, landed, failed>>
          /\ tokens' \in 0 .. Funds /\ clock' \in 0 .. SolanaMaxTime
      BY <1>5, ExactAssumption DEF Solana!Spend, Solana!Tick, Solana!cluster, solana_vars,
         Solana!SolanaConstants, SolInv, Solana!TypeOK
    <2>2. Solana!TypeOK' /\ SolPayments' /\ Solana!FeePayerProtected'
      BY <2>1 DEF SolInv, Solana!TypeOK, SolPayments, Solana!FeePayerProtected
    <2>3. ASSUME NEW r \in Requests PROVE SolChecked(r)'
      BY <2>1, ChecksKept DEF SolInv, SolChecked
    <2> QED BY <2>2, <2>3 DEF SolInv
  <1> QED BY <1>1, <1>2, <1>3, <1>4, <1>5 DEF Solana!Next

----------------------------------------------------------------------------
(* The Aptos handler.                                                       *)
AptChecked(r) ==
    LET p == request[r].p  q == request[r].q IN
    /\ place[r] # "idle" => p \in AptosPayments
    /\ place[r] \in {"signing", "submitting"} =>
         request[r].op = "settle" /\ ~Aptos!Refused(p, q)
    /\ status[r] = "success" => p \in taken /\ ~Aptos!Refused(p, q)

\* Requests that ask to settle p, and did not have it refused.
AskedFor(p) ==
    \E r \in Requests : /\ place[r] # "idle" /\ request[r].op = "settle"
                        /\ request[r].p = p /\ ~Aptos!Refused(p, request[r].q)

AptInv == /\ Aptos!TypeOK
          /\ request = [r \in Requests |-> request[r]]
          /\ \A r \in Requests : AptChecked(r)
          /\ \A p \in taken : AskedFor(p)

LEMMA AptInit == ASSUME Aptos!Init PROVE AptInv
  BY DEF Aptos!Init, AptInv, Aptos!TypeOK, AptChecked, AskedFor

\* A payment that is not refused is a transfer of what was required.
LEMMA NotRefusedTransfers ==
  ASSUME NEW p \in AptosPayments, NEW q, ~Aptos!Refused(p, q)
  PROVE  /\ Aptos!IsTransfer(p) /\ p.accepted = q /\ p.accepted.network = AptosHere
         /\ p.args = <<q.asset, q.payTo, q.amount>>
  <1>1. p.args = [i \in 1 .. Len(p.args) |-> p.args[i]]
    BY ExactAssumption DEF Aptos!AptosConstants
  <1> QED BY <1>1 DEF Aptos!Refused, Aptos!WrongOffer, Aptos!Arguments

LEMMA AptArrive ==
  ASSUME AptInv, NEW r \in Requests, NEW op \in {"verify", "settle"},
         NEW p \in AptosPayments, NEW q \in AptosOffers, Aptos!Arrive(r, op, p, q)
  PROVE  AptInv'
  <1> USE DEF Aptos!Go, Aptos!Reply
  <1>1. /\ UNCHANGED <<sponsor, taken, executed>> /\ place[r] = "idle" /\ status[r] = "none"
        /\ request'[r] = [op |-> op, p |-> p, q |-> q]
        /\ \A s \in Requests \ {r} : request'[s] = request[s]
        /\ request' = [s \in Requests |-> request'[s]]
    BY DEF Aptos!Arrive, AptInv, Aptos!TypeOK
  <1>2. /\ place' = [place EXCEPT ![r] = place'[r]]
        /\ status' = [status EXCEPT ![r] = status'[r]]
        /\ \/ place'[r] = "signing" /\ status'[r] = "none" /\ ~Aptos!Refused(p, q) /\ op = "settle"
           \/ place'[r] = "done" /\ status'[r] \in {"400", "valid"}
    BY <1>1 DEF Aptos!Arrive, AptInv, Aptos!TypeOK
  <1>3. Aptos!TypeOK'
    BY <1>1, <1>2 DEF AptInv, Aptos!TypeOK
  <1>4. \A x, y : Aptos!Refused(x, y)' = Aptos!Refused(x, y)
    BY DEF Aptos!Refused, Aptos!WrongOffer, Aptos!Decoded, Aptos!IsTransfer, Aptos!Arguments
  <1>5. \A s \in Requests : AptChecked(s)'
    BY <1>1, <1>2, <1>4 DEF AptInv, AptChecked, Aptos!TypeOK
  <1>6. \A x \in taken' : AskedFor(x)'
    BY <1>1, <1>2, <1>4 DEF AptInv, AskedFor, Aptos!TypeOK
  <1> QED BY <1>1, <1>3, <1>5, <1>6 DEF AptInv

LEMMA AptHandler ==
  ASSUME AptInv, NEW r \in Requests, Aptos!Handler(r) \/ Aptos!AnswerLost(r)
  PROVE  AptInv'
  <1> USE DEF Aptos!Go, Aptos!Reply
  <1>1. /\ UNCHANGED <<sponsor, request, executed>>
        /\ place[r] \in {"signing", "submitting"} /\ status[r] = "none"
        /\ place' = [place EXCEPT ![r] = place'[r]]
        /\ status' = [status EXCEPT ![r] = status'[r]]
        /\ taken' = taken \/ taken' = taken \cup {request[r].p}
        /\ \/ place'[r] = "submitting" /\ status'[r] = "none"
           \/ place'[r] = "done" /\ status'[r] = "400"
           \/ place'[r] = "done" /\ status'[r] = "success" /\ request[r].p \in taken'
    BY DEF Aptos!Handler, Aptos!SignTransaction, Aptos!Submitted, Aptos!Rejected,
           Aptos!AnswerLost, AptInv, Aptos!TypeOK
  <1>2. request[r].p \in AptosPayments
    BY <1>1 DEF AptInv, AptChecked
  <1>3. Aptos!TypeOK'
    BY <1>1, <1>2 DEF AptInv, Aptos!TypeOK
  <1>4. \A x, y : Aptos!Refused(x, y)' = Aptos!Refused(x, y)
    BY DEF Aptos!Refused, Aptos!WrongOffer, Aptos!Decoded, Aptos!IsTransfer, Aptos!Arguments
  <1>5. \A s \in Requests : AptChecked(s)'
    BY <1>1, <1>4 DEF AptInv, AptChecked, Aptos!TypeOK
  <1>6. AskedFor(request[r].p)
    BY <1>1 DEF AptInv, AptChecked, AskedFor
  <1>7. \A x \in taken' : AskedFor(x)'
    BY <1>1, <1>4, <1>6 DEF AptInv, AskedFor, Aptos!TypeOK
  <1> QED BY <1>1, <1>3, <1>5, <1>7 DEF AptInv

LEMMA AptStep == ASSUME AptInv, [Aptos!Next]_aptos_vars PROVE AptInv'
  <1>1. ASSUME NEW r \in Requests, NEW op \in {"verify", "settle"},
               NEW p \in AptosPayments, NEW q \in AptosOffers, Aptos!Arrive(r, op, p, q)
        PROVE  AptInv'
    BY <1>1, AptArrive
  <1>2. ASSUME NEW r \in Requests, Aptos!Handler(r) \/ Aptos!AnswerLost(r) PROVE AptInv'
    BY <1>2, AptHandler
  <1>3. ASSUME UNCHANGED <<sponsor, place, request, status, taken>>, executed' \subseteq taken
        PROVE  AptInv'
    BY <1>3 DEF AptInv, Aptos!TypeOK, AptChecked, AskedFor, Aptos!Refused, Aptos!WrongOffer,
                Aptos!Decoded, Aptos!IsTransfer, Aptos!Arguments
  <1>4. ASSUME NEW p \in AptosPayments, Aptos!Execute(p) PROVE AptInv'
    BY <1>3, <1>4 DEF Aptos!Execute, AptInv, Aptos!TypeOK
  <1>5. CASE UNCHANGED aptos_vars
    BY <1>3, <1>5 DEF aptos_vars, AptInv, Aptos!TypeOK
  <1> QED BY <1>1, <1>2, <1>4, <1>5 DEF Aptos!Next

----------------------------------------------------------------------------
(* The facilitator: a step is one of its chain's and leaves the others be.  *)
ExactInv == EvmInv /\ SolInv /\ AptInv

LEMMA ExactInductive == ExactSpec => []ExactInv
  <1>1. ExactInit => ExactInv
    BY EvmInit, SolInit, AptInit DEF ExactInit, ExactInv
  <1>2. ASSUME ExactInv, [ExactNext]_all_vars PROVE ExactInv'
    <2>1. [Next]_vars /\ [Solana!Next]_solana_vars /\ [Aptos!Next]_aptos_vars
      BY <1>2 DEF ExactNext, OnEip155, OnSolana, OnAptos, all_vars
    <2> QED BY <1>2, <2>1, EvmStep, SolStep, AptStep DEF ExactInv
  <1> QED BY <1>1, <1>2, PTL DEF ExactSpec

\* Requests, answers and chains keep their types: of a balance nothing is moved
\* that is not there, no transaction has two results, an answer ends a request.
THEOREM TypeCorrect == ExactSpec => []TypesOK
  <1>1. ExactInv => TypesOK
    BY DEF ExactInv, EvmInv, SolInv, AptInv, TypesOK
  <1> QED BY <1>1, ExactInductive, PTL

\* A settlement answered with success has moved what its requirements ask for
\* to the payee they name (on Aptos: given the node a transfer that does).
THEOREM SuccessIsPaid == ExactSpec => []SuccessMeansPaid
  <1>1. ASSUME ExactInv PROVE SuccessMeansTransferred
    <2> SUFFICES ASSUME NEW r \in Requests, answer[r] = "success"
                 PROVE  /\ ask[r].p \in moved
                        /\ ask[r].p.authorization.to = ask[r].q.payTo
                        /\ ask[r].p.authorization.value >= ask[r].q.amount
      BY DEF SuccessMeansTransferred
    <2> QED BY <1>1 DEF ExactInv, EvmInv, EvmChecked, Addressed, Covered
  <1>2. ASSUME ExactInv PROVE Solana!SuccessMeansTransferred
    BY <1>2 DEF ExactInv, SolInv, SolChecked, Matched, Counted, Solana!TransferMatches,
                Solana!AmountMatches, Solana!SuccessMeansTransferred
  <1>3. ASSUME ExactInv PROVE Aptos!SuccessMeansTaken
    <2> SUFFICES ASSUME NEW r \in Requests, status[r] = "success"
                 PROVE  LET p == request[r].p  q == request[r].q IN
                        /\ p \in taken
                        /\ Aptos!IsTransfer(p) /\ p.args = <<q.asset, q.payTo, q.amount>>
      BY DEF Aptos!SuccessMeansTaken
    <2>1. /\ request[r].p \in taken /\ request[r].p \in AptosPayments
          /\ ~Aptos!Refused(request[r].p, request[r].q)
      BY <1>3 DEF ExactInv, AptInv, AptChecked, Aptos!TypeOK
    <2> QED BY <2>1, NotRefusedTransfers
  <1>4. ExactInv => SuccessMeansPaid
    BY <1>1, <1>2, <1>3 DEF SuccessMeansPaid
  <1> QED BY <1>4, ExactInductive, PTL

\* However many settlements of one authorization run side by side, one at most
\* is answered with success, though the facilitator keeps no record of them.
THEOREM OneSuccess == ExactSpec => []OneSuccessPerPayment
  <1>1. ExactInv => OneSuccessPerPayment
    BY DEF ExactInv, EvmInv, EvmChecked, EvmMovedOnce, OneSuccessPerPayment
  <1> QED BY <1>1, ExactInductive, PTL

\* A settlement answered with 400 has sent nothing, whichever call failed.
THEOREM BadRequestIsHarmless == ExactSpec => []BadRequestSentNothing
  <1>1. ExactInv => BadRequestSentNothing
    BY DEF ExactInv, EvmInv, EvmChecked, SolInv, SolChecked, BadRequestSentNothing,
           BadRequestMovesNothing, Solana!BadRequestSentNothing
  <1> QED BY <1>1, ExactInductive, PTL

\* The accounts that pay fees pay for nothing but payments that passed the
\* checks: for any transaction clients build and any settings.
THEOREM SponsorIsProtected == ExactSpec => []SponsorProtected
  <1>1. ASSUME ExactInv, NEW p \in taken
        PROVE  \E r \in Requests :
                 /\ request[r].op = "settle" /\ request[r].p = p
                 /\ Aptos!IsTransfer(p) /\ p.accepted.network = AptosHere
                 /\ p.args = <<p.accepted.asset, p.accepted.payTo, p.accepted.amount>>
    <2>1. p \in AptosPayments /\ AskedFor(p)
      BY <1>1 DEF ExactInv, AptInv, Aptos!TypeOK
    <2> QED BY <2>1, NotRefusedTransfers DEF AskedFor
  <1>2. ExactInv => SponsorProtected
    BY <1>1 DEF SponsorProtected, Aptos!OnlySettledTransfers, ExactInv, SolInv
  <1> QED BY <1>2, ExactInductive, PTL

\* Whatever its form, whatever the chain has become: what verify_payment
\* simulates says of a payment what the call settle_payment picks would do.
THEOREM VerifyAgrees == ExactSpec => []VerifyAgreesWithSettle
  <1>1. VerifyAgreesWithSettle
    <2> SUFFICES ASSUME NEW p \in signed
                 PROVE  Simulation(p) <=> Succeeds(p, CallFor(p, code), code, moved)
      BY DEF VerifyAgreesWithSettle
    <2>1. CASE Structured(p) = "EIP6492" /\ p.authorization.from \in code
      <3>1. After(p, "deploy", code) = code /\ After(p, "transfer", code) = code
        BY <2>1 DEF After
      <3> QED BY <2>1, <3>1 DEF Simulation, Succeeds, CallFor
    <2>2. CASE ~(Structured(p) = "EIP6492" /\ p.authorization.from \in code)
      BY <2>2 DEF Simulation, Succeeds, CallFor
    <2> QED BY <2>1, <2>2
  <1> QED BY <1>1, PTL

----------------------------------------------------------------------------
(* A call was picked for the code there was, and code only grows.           *)
EvmCalls ==
    /\ \A w \in Wallets : Form[w] = "deployed" => w \in code
    /\ \A r \in Requests :
        /\ call[r] # "none" => stage[r] # "idle"
        /\ stage[r] = "estimated" \/ tx[r] # "none" => call[r] # "none"
        /\ call[r] = "transfer" /\ Form[ask[r].p.authorization.from] = "counterfactual"
             => ask[r].p.authorization.from \in code

LEMMA EvmCallsStep == ASSUME EvmInv, EvmCalls, [Next]_vars PROVE EvmCalls'
  <1> USE DEF Go, Reply, chain_vars
  <1>t. /\ stage \in [Requests -> {"idle", "asserted", "coded", "estimated", "sent", "done"}]
        /\ call \in [Requests -> {"none", "transfer", "deploy"}]
        /\ tx \in [Requests -> {"none", "pool", "ok", "reverted"}]
        /\ \A r \in Requests : tx[r] # "none" => stage[r] \in {"sent", "done"}
    BY DEF EvmInv, TypeOK, EvmChecked
  <1>1. ASSUME NEW o \in Offers, NEW w \in Wallets, Sign(o, w) PROVE EvmCalls'
    BY <1>1 DEF Sign, EvmCalls
  <1>2. ASSUME NEW r \in Requests, NEW p \in signed, NEW q \in Offers, Arrive(r, p, q)
        PROVE  EvmCalls'
    <2>1. /\ UNCHANGED <<call, tx, code>> /\ stage[r] = "idle" /\ call[r] = "none"
          /\ \A s \in Requests \ {r} : ask'[s] = ask[s] /\ stage'[s] = stage[s]
          /\ stage'[r] \in {"asserted", "done"}
      BY <1>2, <1>t DEF Arrive, EvmCalls, EvmInv, EvmPayments
    <2> QED BY <1>t, <2>1 DEF EvmCalls
  <1>3. ASSUME NEW r \in Requests, Handler(r) \/ NoReceipt(r) \/ CallFails(r) PROVE EvmCalls'
    <2>1. UNCHANGED <<ask, code>>
      BY <1>3 DEF Handler, ReadBalance, Simulate, ReadCode, EstimateGas, SendTransaction,
                  Receipt, NoReceipt, CallFails
    <2>2. CASE ReadCode(r)
      <3>1. /\ UNCHANGED <<stage, tx>> /\ stage[r] = "coded"
            /\ call' = [call EXCEPT ![r] = CallFor(ask[r].p, code)]
        BY <2>2 DEF ReadCode
      <3>2. /\ CallFor(ask[r].p, code) # "none"
            /\ CallFor(ask[r].p, code) = "transfer"
               /\ Form[ask[r].p.authorization.from] = "counterfactual"
                 => ask[r].p.authorization.from \in code
        BY DEF CallFor, Structured
      <3> QED BY <1>t, <2>1, <3>1, <3>2 DEF EvmCalls
    <2>3. CASE ~ReadCode(r)
      <3>1. /\ UNCHANGED call /\ stage[r] # "idle"
            /\ \A s \in Requests \ {r} : stage'[s] = stage[s] /\ tx'[s] = tx[s]
            /\ stage'[r] # "idle"
            /\ stage'[r] = "estimated" \/ tx'[r] # "none" => call[r] # "none"
        BY <1>3, <1>t, <2>3 DEF Handler, ReadBalance, Simulate, EstimateGas, SendTransaction,
                                Receipt, NoReceipt, CallFails, EvmCalls
      <3> QED BY <1>t, <2>1, <3>1 DEF EvmCalls
    <2> QED BY <2>2, <2>3
  <1>4. ASSUME NEW r \in Requests, Mine(r) PROVE EvmCalls'
    <2>1. /\ UNCHANGED <<stage, ask, call>> /\ code \subseteq code'
          /\ \A s \in Requests : tx'[s] # "none" <=> tx[s] # "none"
      BY <1>4, <1>t DEF Mine, After
    <2> QED BY <2>1 DEF EvmCalls
  <1>5. ASSUME NEW w \in Wallets, Spend(w) \/ Deploy(w) PROVE EvmCalls'
    <2>1. UNCHANGED <<stage, ask, call, tx>> /\ code \subseteq code'
      BY <1>5 DEF Spend, Deploy
    <2> QED BY <2>1 DEF EvmCalls
  <1>6. CASE Tick \/ UNCHANGED vars
    BY <1>6 DEF Tick, vars, EvmCalls
  <1> QED BY <1>1, <1>2, <1>3, <1>4, <1>5, <1>6 DEF Next

\* What could be paid is: the call of a settlement, however long ago it was
\* picked, does what a call picked now would.
LEMMA CallStillGood ==
  ASSUME EvmInv, EvmCalls, NEW r \in Requests, tx[r] = "pool",
         Transferable(ask[r].p, code \cup {ask[r].p.authorization.from}, moved)
  PROVE  Succeeds(ask[r].p, call[r], code, moved)
  <1> DEFINE p == ask[r].p
             w == p.authorization.from
  <1>1. w \in Wallets
    BY DEF EvmInv, EvmChecked, EvmPayments
  <1>2. call[r] \in {"transfer", "deploy"}
    BY DEF EvmCalls, EvmInv, TypeOK
  <1>3. Recovers(p) /\ p.genuine
    BY DEF Transferable, Confirmed, Recovers
  <1>4. Form[w] # "eoa" => w \in After(p, call[r], code)
    BY <1>1, <1>2, <1>3, Eip155Assumption DEF After, EvmCalls
  <1> QED BY <1>3, <1>4 DEF Succeeds, Transferable, Confirmed

\* A transaction of the facilitator reverts only where no call could have
\* succeeded: a wallet somebody else deploys in the meantime does no harm.
THEOREM RevertsAreDeserved == ExactSpec => RevertsOnlyIfUnpayable
  <1>1. ExactInit => EvmCalls
    BY DEF ExactInit, Init, EvmCalls
  <1>2. ASSUME ExactInv, EvmCalls, [ExactNext]_all_vars PROVE EvmCalls'
    <2>1. [Next]_vars
      BY <1>2 DEF ExactNext, OnEip155, OnSolana, OnAptos, all_vars
    <2> QED BY <1>2, <2>1, EvmCallsStep DEF ExactInv
  <1>3. ASSUME ExactInv, EvmCalls, [ExactNext]_all_vars
        PROVE  [\A r \in Requests : tx[r] = "pool" /\ tx'[r] = "reverted" =>
                  ~Transferable(ask[r].p, code \cup {ask[r].p.authorization.from}, moved)]_vars
    <2> SUFFICES ASSUME NEW r \in Requests, tx[r] = "pool", tx'[r] = "reverted", Next
                 PROVE  ~Succeeds(ask[r].p, call[r], code, moved)
      <3>1. [Next]_vars
        BY <1>3 DEF ExactNext, OnEip155, OnSolana, OnAptos, all_vars
      <3> QED BY <1>3, <3>1, CallStillGood DEF ExactInv
    <2>1. tx \in [Requests -> {"none", "pool", "ok", "reverted"}] /\ EvmChecked(r)
      BY <1>3 DEF ExactInv, EvmInv, TypeOK
    <2>2. \E s \in Requests : Mine(s)
      BY <2>1 DEF Next, Sign, Arrive, Handler, ReadBalance, Simulate, ReadCode, EstimateGas,
         SendTransaction, Receipt, NoReceipt, CallFails, Spend, Deploy, Tick, EvmChecked
    <2> QED BY <2>1, <2>2 DEF Mine
  <1> QED BY <1>1, <1>2, <1>3, ExactInductive, PTL DEF ExactSpec, RevertsOnlyIfUnpayable
----------------------------------------------------------------------------
(* What honest clients make of an offer: a payment keeps what its client    *)
(* read off the offer and off its clock, on either chain.                   *)
SignedAt(p) == p.authorization.validBefore - p.accepted.timeout

SignedAsOffered ==
    \A p \in signed :
        /\ p.authorization.to = p.accepted.payTo
        /\ p.accepted.timeout \in Nat /\ SignedAt(p) \in Int
        /\ p.authorization.validBefore = SignedAt(p) + p.accepted.timeout
        /\ p.authorization.validAfter = SaturatingSub(SignedAt(p), Backdate)

BuiltAsOffered == \A p \in built : p.mint = p.accepted.asset /\ p.to = p.accepted.payTo

LEMMA SignedAsOfferedStep ==
  ASSUME EvmInv, SignedAsOffered, [Next]_vars PROVE SignedAsOffered'
  <1>1. ASSUME NEW o \in Offers, NEW w \in Wallets, Sign(o, w) PROVE SignedAsOffered'
    <2>1. PICK lead \in Leads, genuine \in BOOLEAN :
            signed' = signed \cup {Payment(o, w, now + lead, genuine)}
      BY <1>1 DEF Sign
    <2> DEFINE p == Payment(o, w, now + lead, genuine)
    <2>2. /\ p.accepted = o /\ p.authorization.to = o.payTo
          /\ p.authorization.validBefore = now + lead + o.timeout
          /\ p.authorization.validAfter = SaturatingSub(now + lead, Backdate)
      BY DEF Payment, Authorization
    <2>3. now + lead \in Int /\ o.timeout \in Nat
      BY Eip155Assumption DEF EvmInv, TypeOK
    <2>4. SignedAt(p) = now + lead
      BY <2>2, <2>3 DEF SignedAt
    <2> HIDE DEF p
    <2> QED BY <2>1, <2>2, <2>3, <2>4 DEF SignedAsOffered, p, SignedAt
  <1>2. signed' = signed => SignedAsOffered'
    BY DEF SignedAsOffered, SignedAt
  <1>3. (\E o \in Offers, w \in Wallets : Sign(o, w)) \/ signed' = signed
    BY DEF Next, vars, chain_vars, Arrive, Handler, ReadBalance, Simulate, ReadCode, EstimateGas,
           SendTransaction, Receipt, NoReceipt, CallFails, Mine, Spend, Deploy, Tick
  <1> QED BY <1>1, <1>2, <1>3

LEMMA BuiltAsOfferedStep ==
  ASSUME BuiltAsOffered, [Solana!Next]_solana_vars PROVE BuiltAsOffered'
  <1>1. ASSUME NEW o \in SolanaOffers, Solana!Sign(o) PROVE BuiltAsOffered'
    <2>1. PICK d \in Drafts : built' = built \cup {Solana!Transaction(o, d)}
      BY <1>1 DEF Solana!Sign
    <2> QED BY <2>1 DEF BuiltAsOffered, Solana!Transaction
  <1>2. built' = built => BuiltAsOffered'
    BY DEF BuiltAsOffered
  <1>3. (\E o \in SolanaOffers : Solana!Sign(o)) \/ built' = built
    BY DEF Solana!Next, solana_vars, Solana!Arrive, Solana!Handler, Solana!GetAccounts,
           Solana!Simulate, Solana!FullySigned, Solana!Subscribe, Solana!Send, Solana!Notified,
           Solana!Confirmed, Solana!CallFails, Solana!Land, Solana!Spend, Solana!Tick
  <1> QED BY <1>1, <1>2, <1>3

\* An authorization that starts Backdate before its client's clock has started
\* by the facilitator's, if the client's is at most Backdate ahead.
LEMMA HonestAuthorization ==
  ASSUME EvmInv, SignedAsOffered PROVE HonestAuthorizationTaken
  <1> SUFFICES ASSUME NEW p \in signed, OnThisChain(p.accepted.network),
                      now + Margin <= p.authorization.validBefore,
                      SignedAt(p) <= now + Backdate
               PROVE  ~Refused(p, p.accepted)
    BY DEF HonestAuthorizationTaken, SignedAt
  <1>1. now \in Nat /\ Backdate \in Nat /\ Margin \in Nat
    BY Eip155Assumption DEF EvmInv, TypeOK
  <1>2. /\ p.authorization.to = p.accepted.payTo
        /\ SignedAt(p) \in Int /\ p.accepted.timeout \in Nat
        /\ p.authorization.validBefore = SignedAt(p) + p.accepted.timeout
        /\ p.authorization.validAfter = SaturatingSub(SignedAt(p), Backdate)
    BY DEF SignedAsOffered
  <1>3. p.authorization.validAfter <= now /\ ~(p.authorization.validAfter > now)
    BY <1>1, <1>2 DEF SaturatingSub
  <1>4. ~(p.authorization.validBefore < now + Margin)
    BY <1>1, <1>2
  <1> QED BY <1>2, <1>3, <1>4 DEF Refused, WrongOfferV1, WrongOfferV2, OnThisChain, Untimely

\* The three instructions of the client are those the facilitator looks for,
\* and there is no fourth for the settings to forbid.
LEMMA HonestTransfer ==
  ASSUME SolInv, BuiltAsOffered PROVE Solana!HonestTransferTaken
  <1> SUFFICES ASSUME NEW p \in built, p.draft.shape = Solana!OwnInstructions,
                      p.draft.authority = Payer, p.accepted.network = SolanaHere,
                      settings.most >= 3, p.draft.units <= MaxUnits, p.draft.price <= MaxPrice
               PROVE  ~Solana!Refused(p, p.accepted)
    BY DEF Solana!HonestTransferTaken
  <1>1. /\ Len(p.draft.shape) = 3
        /\ p.draft.shape[1] = "limit" /\ p.draft.shape[2] = "price"
        /\ p.draft.shape[3] = "transfer"
    BY DEF Solana!OwnInstructions
  <1>2. Solana!Additional(p) = {}
    BY <1>1 DEF Solana!Additional
  <1>3. settings.most \in Nat
    BY ExactAssumption DEF Solana!SolanaConstants, SolInv, SolPayments
  <1>4. Solana!ValidInstructions(p)
    BY <1>1, <1>2, <1>3 DEF Solana!ValidInstructions
  <1>5. Solana!ComputeLimit(p) /\ Solana!ComputePrice(p)
    BY <1>1 DEF Solana!ComputeLimit, Solana!ComputePrice
  <1>6. Solana!TransferMatches(p, p.accepted)
    BY <1>1, ExactAssumption DEF Solana!TransferMatches, BuiltAsOffered, Solana!SolanaConstants
  <1> QED BY <1>4, <1>5, <1>6 DEF Solana!Refused, Solana!WrongOfferV1, Solana!WrongOfferV2

\* What an honest client signs or builds for an offer of this chain passes the
\* checks made before any call: for any clocks at most Backdate ahead, and any
\* facilitator that takes three instructions.
THEOREM HonestIsTaken == ExactSpec => []HonestPaymentTaken
  <1>1. ExactInit => SignedAsOffered /\ BuiltAsOffered
    BY DEF ExactInit, Init, Solana!Init, SignedAsOffered, BuiltAsOffered
  <1>2. ASSUME ExactInv, SignedAsOffered, BuiltAsOffered, [ExactNext]_all_vars
        PROVE  SignedAsOffered' /\ BuiltAsOffered'
    <2>1. [Next]_vars /\ [Solana!Next]_solana_vars
      BY <1>2 DEF ExactNext, OnEip155, OnSolana, OnAptos, all_vars
    <2> QED BY <1>2, <2>1, SignedAsOfferedStep, BuiltAsOfferedStep DEF ExactInv
  <1>3. ExactInv /\ SignedAsOffered /\ BuiltAsOffered => HonestPaymentTaken
    BY HonestAuthorization, HonestTransfer DEF ExactInv, HonestPaymentTaken
  <1> QED BY <1>1, <1>2, <1>3, ExactInductive, PTL DEF ExactSpec
=============================================================================
