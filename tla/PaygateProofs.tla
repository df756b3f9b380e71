---------------------------- MODULE PaygateProofs ----------------------------
(***************************************************************************)
(* Who pays is served, once and at the price of now, but for the cases     *)
(* the properties of Paygate name: for any number of requests, any layers, *)
(* clients and facilitators, prices and fee payers that change, and all    *)
(* the mishaps at once.  Then, of the amounts those prices are stated in   *)
(* (MoneyAmount): what a text becomes is exact where a Decimal has room    *)
(* for it, for texts of any length, any number of decimals and any width.  *)
(***************************************************************************)
EXTENDS Paygate, MoneyAmount, FiniteSetTheorems, SequenceTheorems, WellFoundedInduction, TLAPS

Fetches == [payer : 0 .. config.payers, asOf : Nat, expires : Nat]

Typed ==
    /\ TypeOK
    /\ config \in Configs
    /\ pay = [r \in Requests |-> pay[r]]
    /\ tags = [r \in Requests |-> tags[r]]
    /\ offer = [r \in Requests |-> offer[r]]
    /\ fetch \in [Requests -> Fetches] /\ cache \in Fetches

\* The settlement of r moved a payment.
Charged(r) == \E p \in Requests : chain[p] = r

\* What a success says: r's payment has moved, for r itself where used
\* payments are rejected, and covers what was due.
Good(r) ==
    /\ Used(r)
    /\ config.duplicates = "rejected" => chain[pay[r].of] = r
    /\ pay[r].accepted.amount >= due[r]

Priced(r) ==
    \E i \in DOMAIN tags[r] : /\ tags[r][i].network = pay[r].accepted.network
                              /\ tags[r][i].amount = due[r]

\* Requests whose client has no answer and will hear of an error.
Failing(r) == stage[r] \in {"refused", "fetching", "done"} /\ answer[r] \notin {"paid", "handler"}
GivenUp(r) == stage[r] = "done" /\ answer[r] = "client"

\* Where the stages, the messages and the answer of a request may be.
Shape(r) ==
    /\ pay[r] # NoPayment => pay[r].of \in Requests
    /\ \/ stage[r] \in {"retry", "verifying", "inner", "settling"}
       \/ told[r] # "none" \/ job[r] # "none"
       => pay[r].of \in Requests
    /\ told[r] # "none" => stage[r] \in {"inner", "refused", "fetching", "done"}
    /\ wire[r] # "none" => \/ stage[r] = "verifying" /\ wire[r] \in {"valid", "invalid", "error"}
                           \/ stage[r] = "settling" /\ wire[r] \in {"success", "refusal", "error"}
    /\ stage[r] = "verifying" => ~config.before
    /\ stage[r] = "inner" => IF config.before THEN told[r] \in SettleResponse
                                              ELSE told[r] = "none"
    /\ stage[r] # "done" => answer[r] = "none"

\* What is known of the payment by then.
Money(r) ==
    /\ answer[r] = "paid" => told[r] \in SettleResponse
    /\ wire[r] = "success" \/ told[r] = "success" => Good(r)
    /\ stage[r] \in {"verifying", "settling", "inner"} \/ told[r] # "none" => Priced(r)
    /\ job[r] = "settle" =>
         /\ ~Charged(r)
         /\ \/ stage[r] = "settling" /\ wire[r] = "none"
            \/ told[r] = "error" /\ config.timeout /\ Failing(r)
            \/ told[r] = "none" /\ GivenUp(r)
    /\ Charged(r) =>
         \/ stage[r] = "settling" /\ wire[r] = "success"
         \/ stage[r] = "settling" /\ wire[r] = "error" /\ "lost" \in Faults
         \/ /\ told[r] = "success" /\ stage[r] \in {"inner", "done"} /\ answer[r] # "402"
            /\ answer[r] = "handler" => config.before
         \/ told[r] = "error" /\ ("lost" \in Faults \/ config.timeout) /\ Failing(r)
         \/ GivenUp(r)

\* An offer, the cache and the answers on their way are as old as they may be.
Fresh ==
    /\ \A r \in Requests : offer[r].age <= TTL + MaxDelay
    /\ \A r \in Requests : fetch[r] # NoCache => /\ fetch[r].payer # None
                                               /\ fetch[r].asOf <= now
                                               /\ now <= fetch[r].asOf + MaxDelay
    /\ cache.payer # None => /\ cache.asOf <= now
                             /\ cache.expires <= cache.asOf + MaxDelay + TTL

IInv == Typed /\ (\A r \in Requests : Shape(r) /\ Money(r)) /\ Fresh

LEMMA InitOK == Init => IInv
  <1> SUFFICES ASSUME Init PROVE IInv
    OBVIOUS
  <1>1. Typed
    <2>1. /\ config \in Configs /\ config.time \in Nat /\ config.payers \in Nat \ {0}
          /\ config.prices \in Nat \ {0}
      BY PaygateAssumption DEF Init
    <2>2. NoCache \in Fetches
      BY <2>1 DEF NoCache, Fetches, None
    <2>3. TypeOK
      BY <2>1, PaygateAssumption DEF Init, TypeOK, NoCache, None
    <2> QED BY <2>1, <2>2, <2>3 DEF Init, Typed
  <1>2. \A r \in Requests : Shape(r) /\ Money(r)
    BY PaygateAssumption DEF Init, Shape, Money, Charged
  <1>3. Fresh
    BY PaygateAssumption DEF Init, Fresh, NoOffer, NoCache, None
  <1> QED BY <1>1, <1>2, <1>3 DEF IInv

\* A price tag is a network and an amount.
LEMMA MatchingTags ==
  ASSUME Typed, NEW p, NEW t \in Matching(Resolve, p)
  PROVE  /\ t.amount \in Nat
         /\ \E i \in DOMAIN Resolve : Resolve[i] = t
         /\ t.network = p.accepted.network
  <1>1. PICK i \in DOMAIN Resolve : t = Resolve[i] /\ Fits(Resolve[i], p)
    BY DEF Matching
  <1>2. price \in Nat /\ config.layer \in Seq({"eip155", "solana"})
    BY PaygateAssumption DEF Typed, TypeOK
  <1>3. CASE price = 0
    BY <1>1, <1>3 DEF Resolve
  <1>4. CASE price # 0
    <2>1. i \in 1 .. Len(config.layer) /\ t = Tag(config.layer[i], price + i - 1)
      BY <1>1, <1>2, <1>4 DEF Resolve
    <2>2. price + i - 1 \in Nat
      BY <1>2, <2>1
    <2>3. t.network = p.accepted.network
      BY <1>1 DEF Fits, FitsV1, FitsV2
    <2>4. t.amount \in Nat
      BY <2>1, <2>2 DEF Tag
    <2> QED BY <1>1, <2>3, <2>4
  <1> QED BY <1>3, <1>4

----------------------------------------------------------------------------
\* A settlement moves a payment nobody has moved.
Moves(r) == /\ chain[pay[r].of] = "nobody"
            /\ chain' = [chain EXCEPT ![pay[r].of] = r]

\* A step of r leaves the other requests alone.
Others(r) ==
    \A q \in Requests \ {r} :
        /\ stage'[q] = stage[q] /\ tags'[q] = tags[q] /\ pay'[q] = pay[q] /\ due'[q] = due[q]
        /\ job'[q] = job[q] /\ wire'[q] = wire[q] /\ answer'[q] = answer[q] /\ told'[q] = told[q]

\* A step of one request: what is known of the others stays.
LEMMA StepOf ==
  ASSUME IInv, NEW r \in Requests, config' = config, Others(r),
         chain' = chain \/ (Moves(r) /\ pay[r].of \in Requests),
         Shape(r)', Money(r)'
  PROVE  \A q \in Requests : Shape(q)' /\ Money(q)'
  <1> SUFFICES ASSUME NEW q \in Requests, q # r PROVE Shape(q)' /\ Money(q)'
    OBVIOUS
  <1> USE DEF IInv, Typed, TypeOK
  <1>1. /\ stage'[q] = stage[q] /\ tags'[q] = tags[q] /\ pay'[q] = pay[q] /\ due'[q] = due[q]
        /\ job'[q] = job[q] /\ wire'[q] = wire[q] /\ answer'[q] = answer[q] /\ told'[q] = told[q]
    BY DEF Others
  <1>2. Shape(q)'
    BY <1>1 DEF Shape
  <1>3. /\ \A p \in Requests : chain[p] # "nobody" => chain'[p] = chain[p]
        /\ Charged(q)' = Charged(q)
    <2>1. CASE chain' = chain
      BY <2>1 DEF Charged
    <2>2. CASE Moves(r) /\ pay[r].of \in Requests
      <3>1. /\ chain[pay[r].of] = "nobody" /\ chain'[pay[r].of] = r /\ q # "nobody"
            /\ \A p \in Requests \ {pay[r].of} : chain'[p] = chain[p]
        BY <2>2, PaygateAssumption DEF Moves
      <3> QED BY <2>2, <3>1 DEF Charged
    <2> QED BY <2>1, <2>2
  <1>4. Good(q) /\ pay[q].of \in Requests => Good(q)'
    BY <1>1, <1>3, PaygateAssumption DEF Good, Used
  <1>5. Priced(q)' = Priced(q)
    BY <1>1 DEF Priced
  <1>6. wire[q] = "success" \/ told[q] = "success" => pay[q].of \in Requests
    BY DEF Shape
  <1>7. Failing(q)' = Failing(q) /\ GivenUp(q)' = GivenUp(q)
    BY <1>1 DEF Failing, GivenUp
  <1>8. Money(q)'
    BY <1>1, <1>3, <1>4, <1>5, <1>6, <1>7 DEF Money
  <1> QED BY <1>2, <1>8

\* The same for steps that change no money.
LEMMA Unmoved ==
  ASSUME NEW r \in Requests, UNCHANGED <<config, pay, due, chain>>
  PROVE  Good(r)' = Good(r) /\ Charged(r)' = Charged(r)
  BY DEF Good, Used, Charged

LEMMA Unpriced ==
  ASSUME NEW r \in Requests, UNCHANGED <<tags, pay, due>>
  PROVE  Priced(r)' = Priced(r)
  BY DEF Priced

(* The request comes in.                                                    *)
LEMMA GateAsks ==
  ASSUME IInv, NEW r \in Requests, Bypass(r) \/ AskForPayment(r) \/ NoPaymentMatching(r)
  PROVE  \A q \in Requests : Shape(q)' /\ Money(q)'
  <1> USE DEF Go, Finish
  <1>1. /\ stage[r] \in {"idle", "retry"} /\ answer[r] = "none" /\ told[r] = "none"
        /\ wire[r] = "none" /\ ~Charged(r) /\ job[r] # "settle"
        /\ Shape(r)
    BY DEF Bypass, AskForPayment, NoPaymentMatching, IInv, Typed, TypeOK, Shape, Money,
           Failing, GivenUp
  <1>2. /\ stage'[r] \in {"done", "refused"} /\ answer'[r] \in {"none", "free"}
        /\ stage'[r] # "done" => answer'[r] = "none"
        /\ UNCHANGED <<config, pay, due, job, wire, told, chain>>
        /\ stage' = [stage EXCEPT ![r] = stage'[r]] /\ tags' = [tags EXCEPT ![r] = tags'[r]]
        /\ answer' = [answer EXCEPT ![r] = answer'[r]]
    BY <1>1 DEF Bypass, AskForPayment, NoPaymentMatching, IInv, Typed, TypeOK
  <1>3. Shape(r)' /\ Money(r)'
    BY <1>1, <1>2, Unmoved DEF Shape, Money
  <1>4. Others(r)
    BY <1>2 DEF Others, IInv, Typed, TypeOK
  <1> QED BY <1>2, <1>3, <1>4, StepOf

LEMMA GateTakes ==
  ASSUME IInv, NEW r \in Requests, TakePayment(r)
  PROVE  \A q \in Requests : Shape(q)' /\ Money(q)'
  <1> USE DEF Go, Finish
  <1>1. /\ stage[r] = "retry" /\ answer[r] = "none" /\ told[r] = "none"
        /\ wire[r] = "none" /\ ~Charged(r) /\ job[r] # "settle" /\ pay[r].of \in Requests
    BY DEF TakePayment, IInv, Typed, TypeOK, Shape, Money, Failing, GivenUp
  <1>2. PICK t \in Matching(Resolve, pay[r]) : due' = [due EXCEPT ![r] = t.amount]
    BY DEF TakePayment
  <1>3. /\ \/ config.before /\ stage'[r] = "settling" /\ job'[r] = "settle"
           \/ ~config.before /\ stage'[r] = "verifying" /\ job'[r] = "verify"
        /\ UNCHANGED <<config, pay, wire, answer, told, chain>> /\ tags'[r] = Resolve
        /\ stage' = [stage EXCEPT ![r] = stage'[r]] /\ tags' = [tags EXCEPT ![r] = tags'[r]]
        /\ job' = [job EXCEPT ![r] = job'[r]] /\ due' = [due EXCEPT ![r] = due'[r]]
        /\ due'[r] = t.amount
    BY <1>2 DEF TakePayment, IInv, Typed, TypeOK
  <1>4. Priced(r)'
    BY <1>3, MatchingTags DEF Priced, IInv
  <1>5. Charged(r)' = Charged(r)
    BY <1>3 DEF Charged
  <1>6. Shape(r)' /\ Money(r)'
    BY <1>1, <1>3, <1>4, <1>5 DEF Shape, Money
  <1>7. Others(r)
    BY <1>3 DEF Others, IInv, Typed, TypeOK
  <1> QED BY <1>3, <1>6, <1>7, StepOf

(* A refusal: who has paid gets a 402, who has not gets an offer.           *)
LEMMA GateRefuses ==
  ASSUME IInv, NEW r \in Requests, CacheHit(r) \/ CacheMiss(r) \/ Fetched(r) \/ FetchFails(r)
  PROVE  \A q \in Requests : Shape(q)' /\ Money(q)'
  <1> USE DEF Go, Finish
  <1>1. /\ stage[r] \in {"refused", "fetching"} /\ answer[r] = "none" /\ Shape(r) /\ Money(r)
        /\ wire[r] = "none"
    BY DEF CacheHit, CacheMiss, Fetched, FetchFails, IInv, Typed, TypeOK, Shape
  <1>2. /\ UNCHANGED <<config, tags, pay, due, job, wire, told, chain>>
        /\ \/ /\ pay[r] = NoPayment /\ stage'[r] = "offered" /\ answer'[r] = "none"
           \/ /\ stage'[r] = "done" /\ answer'[r] = "402"
           \/ /\ stage'[r] = "fetching" /\ answer'[r] = "none"
        /\ stage' = [stage EXCEPT ![r] = stage'[r]]
        /\ answer' = [answer EXCEPT ![r] = answer'[r]]
    BY <1>1 DEF CacheHit, CacheMiss, Fetched, FetchFails, Refuse, IInv, Typed, TypeOK
  <1>3. pay[r] = NoPayment => told[r] = "none" /\ job[r] = "none"
    BY <1>1, PaygateAssumption DEF Shape, NoPayment
  <1>4. Good(r)' = Good(r) /\ Charged(r)' = Charged(r) /\ Priced(r)' = Priced(r)
    BY <1>2, Unmoved, Unpriced
  <1>5. Shape(r)' /\ Money(r)'
    BY <1>1, <1>2, <1>3, <1>4 DEF Shape, Money, Failing, GivenUp
  <1>6. Others(r)
    BY <1>2 DEF Others, IInv, Typed, TypeOK
  <1> QED BY <1>2, <1>5, <1>6, StepOf

(* The client signs, gives up, or sends a header again.                     *)
LEMMA ClientSteps ==
  ASSUME IInv, NEW r \in Requests, Client(r) \/ (\E q \in Requests : Replay(r, q))
  PROVE  \A q \in Requests : Shape(q)' /\ Money(q)'
  <1> USE DEF Go, Finish
  <1>1. /\ stage[r] \in {"idle", "offered"} /\ answer[r] = "none" /\ told[r] = "none"
        /\ wire[r] = "none" /\ ~Charged(r) /\ job[r] # "settle" /\ Shape(r)
    BY DEF Client, Sign, CannotPay, Replay, IInv, Typed, TypeOK, Shape, Money, Failing, GivenUp
  <1>2. /\ UNCHANGED <<config, tags, due, job, wire, told, chain>>
        /\ \/ stage'[r] = "retry" /\ answer'[r] = "none" /\ pay'[r].of \in Requests
           \/ stage'[r] = "done" /\ answer'[r] = "client"
              /\ (pay'[r] = pay[r] \/ pay'[r].of \in Requests)
        /\ stage' = [stage EXCEPT ![r] = stage'[r]] /\ pay' = [pay EXCEPT ![r] = pay'[r]]
        /\ answer' = [answer EXCEPT ![r] = answer'[r]]
    <2>1. CASE Sign(r)
      BY <1>1, <2>1 DEF Sign, IInv, Typed, TypeOK
    <2>2. CASE CannotPay(r)
      BY <1>1, <2>2 DEF CannotPay, IInv, Typed, TypeOK
    <2>3. CASE \E q \in Requests : Replay(r, q)
      <3>1. PICK q \in Requests : Replay(r, q)
        BY <2>3
      <3>2. pay[q].of \in Requests /\ pay' = [pay EXCEPT ![r] = pay[q]]
        BY <3>1 DEF Replay, IInv, Shape
      <3>3. UNCHANGED answer /\ stage' = [stage EXCEPT ![r] = "retry"]
        BY <3>1 DEF Replay
      <3> QED BY <1>1, <3>1, <3>2, <3>3 DEF Replay, IInv, Typed, TypeOK
    <2> QED BY <2>1, <2>2, <2>3 DEF Client
  <1>3. Charged(r)' = Charged(r)
    BY <1>2 DEF Charged
  <1>4. Shape(r)' /\ Money(r)'
    BY <1>1, <1>2, <1>3 DEF Shape, Money
  <1>5. Others(r)
    BY <1>2 DEF Others, IInv, Typed, TypeOK
  <1> QED BY <1>2, <1>4, <1>5, StepOf

(* The facilitator answers.                                                 *)
LEMMA FacilitatorVerifies ==
  ASSUME IInv, NEW r \in Requests, FacilitatorVerify(r)
  PROVE  \A q \in Requests : Shape(q)' /\ Money(q)'
  <1>1. /\ job[r] = "verify" /\ job' = [job EXCEPT ![r] = "none"]
        /\ wire' = [wire EXCEPT ![r] = wire'[r]]
        /\ wire'[r] = wire[r] \/ (/\ stage[r] = "verifying"
                                  /\ wire'[r] \in {"valid", "invalid", "error"})
        /\ UNCHANGED <<config, stage, tags, pay, due, answer, told, chain>>
    BY DEF FacilitatorVerify, Reply, IInv, Typed, TypeOK
  <1>2. Shape(r)'
    BY <1>1 DEF IInv, Typed, TypeOK, Shape
  <1>3. Good(r)' = Good(r) /\ Charged(r)' = Charged(r) /\ Priced(r)' = Priced(r)
    BY <1>1, Unmoved, Unpriced
  <1>4. Money(r)'
    BY <1>1, <1>3 DEF IInv, Typed, TypeOK, Shape, Money, Failing, GivenUp
  <1>5. Others(r)
    BY <1>1 DEF Others, IInv, Typed, TypeOK
  <1> QED BY <1>1, <1>2, <1>4, <1>5, StepOf

\* A settlement runs its course once; where the gate waits for it no longer,
\* it was given up or lost with a crash.
LEMMA FacilitatorSettles ==
  ASSUME IInv, NEW r \in Requests, FacilitatorSettle(r)
  PROVE  \A q \in Requests : Shape(q)' /\ Money(q)'
  <1> USE DEF Reply
  <1>1. /\ job[r] = "settle" /\ job' = [job EXCEPT ![r] = "none"] /\ pay[r].of \in Requests
        /\ job'[r] = "none"
        /\ UNCHANGED <<config, stage, tags, pay, due, answer, told>>
        /\ Shape(r) /\ Money(r)
        /\ chain \in [Requests -> Requests \cup {"nobody"}]
        /\ wire \in [Requests -> {"none", "error"} \cup VerifyResponse \cup SettleResponse]
    BY DEF FacilitatorSettle, IInv, Typed, TypeOK, Shape
  <1>2. /\ ~Charged(r) /\ Priced(r)' = Priced(r) /\ told[r] # "success"
        /\ \/ stage[r] = "settling" /\ wire[r] = "none" /\ told[r] = "none"
           \/ stage[r] # "settling" /\ wire'[r] = wire[r] /\ wire[r] = "none"
              /\ told[r] = "error" /\ config.timeout /\ Failing(r)
           \/ stage[r] # "settling" /\ wire'[r] = wire[r] /\ wire[r] = "none" /\ GivenUp(r)
              /\ told[r] = "none"
    <2>1. wire' = IF stage[r] = "settling" THEN wire' ELSE wire
      BY DEF FacilitatorSettle, Move, Repeat, Decline
    <2>2. told[r] = "success" => FALSE
      BY <1>1, <2>1 DEF Shape, Money, Failing, GivenUp
    <2> QED BY <1>1, <2>1, <2>2, Unpriced DEF Shape, Money, Failing, GivenUp
  <1>3. CASE Move(r)
    <2>1. Moves(r) /\ Payable(r)
      BY <1>3 DEF Move, Moves, Used
    <2>2. chain'[pay[r].of] = r /\ r # "nobody"
      BY <1>1, <2>1, PaygateAssumption DEF Moves
    <2>3. Good(r)'
      BY <1>1, <2>1, <2>2 DEF Good, Used, Payable
    <2>4. /\ wire' = [wire EXCEPT ![r] = wire'[r]]
          /\ stage[r] = "settling" =>
               wire'[r] = "success" \/ (wire'[r] = "error" /\ "lost" \in Faults)
      BY <1>1, <1>3 DEF Move
    <2>5. Shape(r)'
      BY <1>1, <1>2, <2>4 DEF Shape
    <2>6. Money(r)'
      BY <1>1, <1>2, <2>3, <2>4 DEF Money, Failing, GivenUp, Shape
    <2>7. Others(r)
      BY <1>1, <2>4 DEF Others, IInv, Typed, TypeOK
    <2> QED BY <1>1, <2>1, <2>5, <2>6, <2>7, StepOf
  <1>4. CASE Repeat(r) \/ Decline(r)
    <2>1. /\ wire' = [wire EXCEPT ![r] = wire'[r]] /\ chain' = chain
          /\ stage[r] = "settling" => wire'[r] \in {"success", "error", "refusal"}
          /\ wire'[r] = "success" /\ stage[r] = "settling" =>
               Used(r) /\ Payable(r) /\ config.duplicates = "repeated"
      BY <1>1, <1>2, <1>4 DEF Repeat, Decline
    <2>2. ~Charged(r)'
      BY <1>2, <2>1 DEF Charged
    <2>3. wire'[r] = "success" \/ told[r] = "success" => Good(r)'
      BY <1>1, <1>2, <2>1 DEF Good, Used, Payable
    <2>4. Shape(r)'
      BY <1>1, <1>2, <2>1 DEF Shape
    <2>5. Money(r)'
      BY <1>1, <1>2, <2>1, <2>2, <2>3 DEF Money
    <2>6. Others(r)
      BY <1>1, <2>1 DEF Others, IInv, Typed, TypeOK
    <2> QED BY <1>1, <2>1, <2>4, <2>5, <2>6, StepOf
  <1> QED BY <1>3, <1>4 DEF FacilitatorSettle

(* The gate verifies, serves and settles.                                   *)
LEMMA GateGoesOn ==
  ASSUME IInv, NEW r \in Requests, Verified(r) \/ CallInner(r) \/ Settled(r) \/ GiveUp(r)
  PROVE  \A q \in Requests : Shape(q)' /\ Money(q)'
  <1> USE DEF Go, Finish, Hear
  <1>1. /\ Shape(r) /\ Money(r) /\ stage[r] # "done" /\ answer[r] = "none"
        /\ UNCHANGED <<config, tags, pay, due, chain>>
    BY DEF Verified, CallInner, Settled, GiveUp, IInv, Shape
  <1>2. Good(r)' = Good(r) /\ Charged(r)' = Charged(r) /\ Priced(r)' = Priced(r)
    BY <1>1, Unmoved, Unpriced
  <1>3. CASE Verified(r)
    <2>1. Shape(r)'
      BY <1>1, <1>3 DEF Verified, Shape, IInv, Typed, TypeOK
    <2>2. Money(r)'
      BY <1>1, <1>2, <1>3 DEF Verified, Shape, Money, IInv, Typed, TypeOK, Failing, GivenUp
    <2>3. Others(r)
      BY <1>1, <1>3 DEF Verified, Others, IInv, Typed, TypeOK
    <2> QED BY <1>1, <2>1, <2>2, <2>3, StepOf
  <1>4. CASE CallInner(r)
    <2>1. PICK ok \in BOOLEAN :
            IF ok /\ ~config.before
            THEN Go(r, "settling") /\ job' = [job EXCEPT ![r] = "settle"] /\ UNCHANGED answer
            ELSE Finish(r, IF ok THEN "paid" ELSE "handler") /\ UNCHANGED job
      BY <1>4 DEF CallInner
    <2>2. stage[r] = "inner" /\ wire[r] = "none" /\ UNCHANGED <<wire, told>>
      BY <1>1, <1>4 DEF CallInner, Shape
    <2>3. Shape(r)'
      BY <1>1, <2>1, <2>2 DEF Shape, IInv, Typed, TypeOK
    <2>4. Money(r)'
      BY <1>1, <1>2, <2>1, <2>2 DEF Shape, Money, IInv, Typed, TypeOK, Failing, GivenUp,
                                    SettleResponse
    <2>5. Others(r)
      BY <1>1, <2>1, <2>2 DEF Others, IInv, Typed, TypeOK
    <2> QED BY <1>1, <2>3, <2>4, <2>5, StepOf
  <1>5. CASE Settled(r)
    <2>1. Shape(r)'
      BY <1>1, <1>5 DEF Settled, Shape, IInv, Typed, TypeOK, SettleResponse
    <2>2. Money(r)'
      BY <1>1, <1>2, <1>5 DEF Settled, Shape, Money, IInv, Typed, TypeOK, Failing, GivenUp,
                              SettleResponse
    <2>3. Others(r)
      BY <1>1, <1>5 DEF Settled, Others, IInv, Typed, TypeOK
    <2> QED BY <1>1, <2>1, <2>2, <2>3, StepOf
  <1>6. CASE GiveUp(r)
    <2>1. Shape(r)'
      BY <1>1, <1>6 DEF GiveUp, Shape, IInv, Typed, TypeOK
    <2>2. Money(r)'
      BY <1>1, <1>2, <1>6 DEF GiveUp, Shape, Money, IInv, Typed, TypeOK, Failing, GivenUp
    <2>3. /\ UNCHANGED <<job, wire, answer>> /\ stage' = [stage EXCEPT ![r] = "refused"]
          /\ told' = [told EXCEPT ![r] = told'[r]]
      BY <1>6 DEF GiveUp, IInv, Typed, TypeOK
    <2>4. Others(r)
      BY <1>1, <2>3 DEF Others, IInv, Typed, TypeOK
    <2> QED BY <1>1, <2>1, <2>2, <2>4, StepOf
  <1> QED BY <1>3, <1>4, <1>5, <1>6

LEMMA GateCrashes ==
  ASSUME IInv, Crash, NEW r \in Requests
  PROVE  Shape(r)' /\ Money(r)'
  <1>1. /\ stage'[r] = IF InGate(r) THEN "done" ELSE stage[r]
        /\ answer'[r] = IF InGate(r) THEN "client" ELSE answer[r]
        /\ wire'[r] = "none" /\ UNCHANGED <<config, tags, pay, due, job, told, chain>>
    BY DEF Crash
  <1>2. Good(r)' = Good(r) /\ Charged(r)' = Charged(r) /\ Priced(r)' = Priced(r)
    BY <1>1, Unmoved, Unpriced
  <1>3. Shape(r) /\ Money(r)
    BY DEF IInv
  <1>4. Shape(r)'
    BY <1>1, <1>3 DEF Shape, InGate
  <1>5. Money(r)'
    BY <1>1, <1>2, <1>3 DEF Shape, Money, InGate, Failing, GivenUp
  <1> QED BY <1>4, <1>5

----------------------------------------------------------------------------
(* Types, and how old what is cached may be.                                *)
LEMMA GateTypes ==
  ASSUME IInv, NEW r \in Requests, Gate(r)
  PROVE  Typed'
  <1> USE DEF Go, Finish, Hear, outside
  <1>t. /\ Typed /\ TypeOK /\ Shape(r)
        /\ config.time \in Nat /\ TTL \in Nat /\ now \in 0 .. config.time
    BY PaygateAssumption DEF IInv, Typed, TypeOK
  <1>1. CASE Bypass(r) \/ AskForPayment(r) \/ NoPaymentMatching(r)
    <2>1. /\ UNCHANGED <<config, outside, cache, offer, pay, due, job, wire, fetch, told, chain>>
          /\ stage' \in {[stage EXCEPT ![r] = "done"], [stage EXCEPT ![r] = "refused"]}
          /\ answer' \in {answer, [answer EXCEPT ![r] = "free"]}
          /\ tags' = tags \/ tags' = [tags EXCEPT ![r] = Resolve]
      BY <1>1 DEF Bypass, AskForPayment, NoPaymentMatching
    <2>2. TypeOK'
      BY <1>t, <2>1 DEF TypeOK
    <2>3. tags' = [q \in Requests |-> tags'[q]] /\ Fetches' = Fetches
      BY <1>t, <2>1 DEF Typed, Fetches
    <2> QED BY <1>t, <2>1, <2>2, <2>3 DEF Typed
  <1>2. CASE TakePayment(r)
    <2>1. PICK t \in Matching(Resolve, pay[r]) : due' = [due EXCEPT ![r] = t.amount]
      BY <1>2 DEF TakePayment
    <2>2. t.amount \in Nat
      BY <1>t, MatchingTags
    <2>3. /\ UNCHANGED <<config, outside, cache, offer, pay, wire, fetch, answer, told, chain>>
          /\ stage' \in {[stage EXCEPT ![r] = "settling"], [stage EXCEPT ![r] = "verifying"]}
          /\ job' \in {[job EXCEPT ![r] = "settle"], [job EXCEPT ![r] = "verify"]}
          /\ tags' = [tags EXCEPT ![r] = Resolve]
      BY <1>2 DEF TakePayment
    <2>4. TypeOK'
      BY <1>t, <2>1, <2>2, <2>3 DEF TypeOK
    <2>5. tags' = [q \in Requests |-> tags'[q]] /\ Fetches' = Fetches
      BY <1>t, <2>3 DEF Typed, Fetches
    <2> QED BY <1>t, <2>3, <2>4, <2>5 DEF Typed
  <1>3. CASE CacheHit(r) \/ CacheMiss(r)
    <2>1. /\ UNCHANGED <<config, outside, cache, tags, pay, due, job, wire, fetch, told, chain>>
          /\ stage' \in {[stage EXCEPT ![r] = "offered"], [stage EXCEPT ![r] = "done"],
                        [stage EXCEPT ![r] = "fetching"]}
          /\ answer' \in {answer, [answer EXCEPT ![r] = "402"]}
          /\ offer' = [offer EXCEPT ![r] = offer'[r]]
      BY <1>3, <1>t DEF CacheHit, CacheMiss, Refuse, Typed
    <2>2. TypeOK'
      BY <1>t, <2>1 DEF TypeOK
    <2>3. offer' = [q \in Requests |-> offer'[q]] /\ Fetches' = Fetches
      BY <1>t, <2>1 DEF Typed, Fetches
    <2> QED BY <1>t, <2>1, <2>2, <2>3 DEF Typed
  <1>4. CASE Fetched(r)
    <2>1. /\ UNCHANGED <<config, outside, tags, pay, due, job, wire, told, chain>>
          /\ stage' \in {[stage EXCEPT ![r] = "offered"], [stage EXCEPT ![r] = "done"]}
          /\ answer' \in {answer, [answer EXCEPT ![r] = "402"]}
          /\ offer' = [offer EXCEPT ![r] = offer'[r]]
          /\ cache' = [fetch[r] EXCEPT !.expires = now + TTL]
          /\ fetch' = [fetch EXCEPT ![r] = NoCache]
      BY <1>4, <1>t DEF Fetched, Refuse, Typed
    <2>2. now + TTL \in 0 .. config.time + TTL
      BY <1>t
    <2>3. NoCache \in Fetches
      BY <1>t, PaygateAssumption DEF NoCache, Fetches, None, Typed
    <2>4. cache' \in Fetches /\ cache'.expires \in 0 .. config.time + TTL
      BY <1>t, <2>1, <2>2 DEF Typed, Fetches
    <2>5. fetch' \in [Requests -> Fetches] /\ Fetches' = Fetches
      BY <1>t, <2>1, <2>3 DEF Typed, Fetches
    <2> QED BY <1>t, <2>1, <2>4, <2>5 DEF Typed, TypeOK, Fetches
  <1>5. CASE Verified(r) \/ CallInner(r)
    <2>1. /\ UNCHANGED <<config, outside, cache, tags, offer, pay, due, fetch, told, chain>>
          /\ stage' \in {[stage EXCEPT ![r] = "inner"], [stage EXCEPT ![r] = "refused"],
                        [stage EXCEPT ![r] = "settling"], [stage EXCEPT ![r] = "done"]}
          /\ answer' \in {answer, [answer EXCEPT ![r] = "paid"], [answer EXCEPT ![r] = "handler"]}
          /\ job' \in {job, [job EXCEPT ![r] = "settle"]}
          /\ wire' \in {wire, [wire EXCEPT ![r] = "none"]}
      BY <1>5 DEF Verified, CallInner
    <2>2. TypeOK'
      BY <1>t, <2>1 DEF TypeOK
    <2>3. Fetches' = Fetches
      BY <2>1 DEF Fetches
    <2> QED BY <1>t, <2>1, <2>2, <2>3 DEF Typed
  <1>6. CASE Settled(r)
    <2>1. wire[r] \in {"success", "refusal", "error"}
      BY <1>6, <1>t DEF Settled, Shape
    <2>2. /\ UNCHANGED <<config, outside, cache, tags, offer, pay, due, job, fetch, chain>>
          /\ stage' \in {[stage EXCEPT ![r] = "inner"], [stage EXCEPT ![r] = "refused"],
                        [stage EXCEPT ![r] = "done"]}
          /\ answer' \in {answer, [answer EXCEPT ![r] = "paid"]}
          /\ wire' = [wire EXCEPT ![r] = "none"] /\ told' = [told EXCEPT ![r] = wire[r]]
      BY <1>6 DEF Settled
    <2>3. TypeOK'
      BY <1>t, <2>1, <2>2 DEF TypeOK, SettleResponse
    <2>4. Fetches' = Fetches
      BY <2>2 DEF Fetches
    <2> QED BY <1>t, <2>2, <2>3, <2>4 DEF Typed
  <1> QED BY <1>1, <1>2, <1>3, <1>4, <1>5, <1>6 DEF Gate

LEMMA OtherTypes ==
  ASSUME IInv, NEW r \in Requests, Client(r) \/ Facilitator(r) \/ Mishap(r)
  PROVE  Typed'
  <1> USE DEF Go, Finish, Hear, outside
  <1>t. /\ Typed /\ TypeOK
        /\ config.time \in Nat /\ TTL \in Nat /\ now \in 0 .. config.time
        /\ config.payers \in Nat \ {0}
    BY PaygateAssumption DEF IInv, Typed, TypeOK
  <1>n. NoCache \in Fetches
    BY <1>t DEF NoCache, Fetches, None
  <1>1. CASE Client(r)
    <2>1. /\ UNCHANGED <<config, outside, cache, tags, due, job, wire, fetch, told, chain>>
          /\ stage' \in {[stage EXCEPT ![r] = "retry"], [stage EXCEPT ![r] = "done"]}
          /\ answer' \in {answer, [answer EXCEPT ![r] = "client"]}
          /\ offer' = [offer EXCEPT ![r] = NoOffer]
          /\ pay' = pay \/ \E x : pay' = [pay EXCEPT ![r] = x]
      BY <1>1 DEF Client, Sign, CannotPay
    <2>2. pay' = [q \in Requests |-> pay'[q]] /\ offer' = [q \in Requests |-> offer'[q]]
      BY <1>t, <2>1 DEF Typed
    <2>3. TypeOK'
      BY <1>t, <2>1 DEF TypeOK
    <2>4. Fetches' = Fetches
      BY <2>1 DEF Fetches
    <2> QED BY <1>t, <2>1, <2>2, <2>3, <2>4 DEF Typed
  <1>2. CASE Supported(r)
    <2>1. [payer |-> payer, asOf |-> now, expires |-> 0] \in Fetches
      BY <1>t DEF Fetches, TypeOK
    <2> QED BY <1>2, <1>t, <2>1 DEF Supported, Typed, TypeOK, Fetches
  <1>3. CASE FacilitatorVerify(r)
    BY <1>3, <1>t DEF FacilitatorVerify, Reply, Typed, TypeOK, Fetches, VerifyResponse
  <1>4. CASE FacilitatorSettle(r)
    <2>1. /\ UNCHANGED <<config, outside, cache, stage, tags, offer, pay, due, fetch, answer, told>>
          /\ job' = [job EXCEPT ![r] = "none"]
          /\ chain' = chain \/ chain' = [chain EXCEPT ![pay[r].of] = r]
          /\ wire' = wire \/ (\E a \in {"success", "refusal", "error"} : wire' = [wire EXCEPT ![r] = a])
      BY <1>4 DEF FacilitatorSettle, Move, Repeat, Decline, Reply
    <2>2. /\ wire' \in [Requests -> {"none", "error"} \cup VerifyResponse \cup SettleResponse]
          /\ chain' \in [Requests -> Requests \cup {"nobody"}]
      BY <1>t, <2>1 DEF TypeOK, SettleResponse
    <2>3. TypeOK'
      BY <1>t, <2>1, <2>2 DEF TypeOK
    <2>4. Fetches' = Fetches
      BY <2>1 DEF Fetches
    <2> QED BY <1>t, <2>1, <2>3, <2>4 DEF Typed
  <1>5. CASE FetchFails(r)
    <2>1. /\ UNCHANGED <<config, outside, cache, tags, pay, due, job, wire, told, chain>>
          /\ stage' \in {[stage EXCEPT ![r] = "offered"], [stage EXCEPT ![r] = "done"]}
          /\ answer' \in {answer, [answer EXCEPT ![r] = "402"]}
          /\ fetch' = [fetch EXCEPT ![r] = NoCache]
          /\ offer' = offer \/ \E x : offer' = [offer EXCEPT ![r] = x]
      BY <1>5 DEF FetchFails, Refuse
    <2>2. fetch' \in [Requests -> Fetches] /\ Fetches' = Fetches
      BY <1>t, <1>n, <2>1 DEF Typed, Fetches
    <2>3. TypeOK'
      BY <1>t, <2>1, <2>2 DEF TypeOK, Fetches
    <2>4. offer' = [q \in Requests |-> offer'[q]]
      BY <1>t, <2>1 DEF Typed
    <2> QED BY <1>t, <2>1, <2>2, <2>3, <2>4 DEF Typed
  <1>6. CASE GiveUp(r)
    BY <1>6, <1>t DEF GiveUp, Typed, TypeOK, Fetches
  <1>7. CASE \E q \in Requests : Replay(r, q)
    <2>1. PICK q \in Requests : Replay(r, q)
      BY <1>7
    <2>2. pay' = [s \in Requests |-> pay'[s]]
      BY <1>t, <2>1 DEF Replay, Typed
    <2> QED BY <1>t, <2>1, <2>2 DEF Replay, Typed, TypeOK, Fetches
  <1> QED BY <1>1, <1>2, <1>3, <1>4, <1>5, <1>6, <1>7 DEF Facilitator, Mishap

LEMMA WorldTypes ==
  ASSUME IInv, Crash \/ Rotate \/ Reprice \/ Tick
  PROVE  Typed'
  <1>t. /\ Typed /\ TypeOK
        /\ config.time \in Nat /\ config.payers \in Nat \ {0} /\ config.prices \in Nat \ {0}
        /\ TTL \in Nat
    BY PaygateAssumption DEF IInv, Typed
  <1>n. NoCache \in Fetches
    BY <1>t DEF NoCache, Fetches, None
  <1>1. CASE Crash
    <2>1. /\ fetch' \in [Requests -> Fetches] /\ cache' \in Fetches /\ Fetches' = Fetches
          /\ cache'.expires = 0
      BY <1>1, <1>n DEF Crash, NoCache, Fetches
    <2> QED BY <1>1, <1>t, <2>1 DEF Crash, Typed, TypeOK, NoCache, outside, None
  <1>2. CASE Rotate \/ Reprice \/ Tick
    BY <1>2, <1>t DEF Rotate, Reprice, Tick, Typed, TypeOK, Fetches
  <1> QED BY <1>1, <1>2

\* Steps that fetch nothing and refuse nobody.
LEMMA StillFresh ==
  ASSUME IInv, UNCHANGED <<now, cache>>,
         fetch' = fetch,
         \A r \in Requests : offer'[r] = offer[r] \/ offer'[r] = NoOffer
  PROVE  Fresh'
  BY PaygateAssumption DEF IInv, Fresh, NoOffer

LEMMA NextFresh ==
  ASSUME IInv, [Next]_vars
  PROVE  Fresh'
  <1> USE DEF outside
  <1>t. /\ now \in Nat /\ TTL \in Nat /\ MaxDelay \in Nat /\ Fresh
        /\ cache \in Fetches /\ fetch \in [Requests -> Fetches]
        /\ offer = [r \in Requests |-> offer[r]]
        /\ payer \in 1 .. config.payers
        /\ \A r \in Requests : /\ fetch[r].asOf \in Nat /\ fetch[r].payer \in Nat
                               /\ fetch[r].expires \in Nat
        /\ cache.asOf \in Nat /\ cache.expires \in Nat
    <2>1. config.time \in Nat /\ config.payers \in Nat
      BY PaygateAssumption DEF IInv, Typed
    <2> QED BY <2>1, PaygateAssumption DEF IInv, Typed, TypeOK, Fetches
  <1>1. ASSUME NEW r \in Requests,
               Bypass(r) \/ AskForPayment(r) \/ NoPaymentMatching(r) \/ TakePayment(r)
               \/ CacheMiss(r) \/ Verified(r) \/ CallInner(r) \/ Settled(r) \/ GiveUp(r)
               \/ FacilitatorVerify(r) \/ FacilitatorSettle(r) \/ (\E q \in Requests : Replay(r, q))
        PROVE  Fresh'
    BY <1>1, StillFresh DEF Bypass, AskForPayment, NoPaymentMatching, TakePayment, CacheMiss,
       Verified, CallInner, Settled, GiveUp, FacilitatorVerify, FacilitatorSettle, Replay
  <1>2. ASSUME NEW r \in Requests, Client(r) PROVE Fresh'
    <2>1. UNCHANGED <<now, cache, fetch>> /\ offer' = [offer EXCEPT ![r] = NoOffer]
      BY <1>2 DEF Client, Sign, CannotPay
    <2> QED BY <1>t, <2>1, StillFresh
  <1>3. ASSUME NEW r \in Requests, CacheHit(r) PROVE Fresh'
    <2>1. /\ UNCHANGED <<now, cache, fetch>>
          /\ offer' = offer \/ (/\ offer' = [offer EXCEPT ![r] = offer'[r]]
                                /\ offer'[r].age = now - cache.asOf)
      BY <1>3, <1>t DEF CacheHit, Cached, Refuse
    <2>2. now - cache.asOf <= TTL + MaxDelay
      BY <1>3, <1>t DEF CacheHit, Cached, Fresh
    <2> QED BY <1>t, <2>1, <2>2 DEF Fresh
  <1>4. ASSUME NEW r \in Requests, Fetched(r) PROVE Fresh'
    <2>1. /\ now' = now /\ cache' = [fetch[r] EXCEPT !.expires = now + TTL]
          /\ fetch[r] # NoCache /\ fetch' = [fetch EXCEPT ![r] = NoCache]
          /\ offer' = offer \/ (/\ offer' = [offer EXCEPT ![r] = offer'[r]]
                                /\ offer'[r].age = IF fetch[r].payer = None THEN 0
                                                   ELSE now - fetch[r].asOf)
      BY <1>4, <1>t DEF Fetched, Refuse
    <2>2. fetch[r].asOf <= now /\ now <= fetch[r].asOf + MaxDelay
      BY <1>t, <2>1 DEF Fresh
    <2>3. cache'.asOf = fetch[r].asOf /\ cache'.expires = now + TTL
      BY <1>t, <2>1 DEF Fetches
    <2>4. \A q \in Requests : offer'[q].age <= TTL + MaxDelay
      BY <1>t, <2>1, <2>2 DEF Fresh
    <2>5. \A q \in Requests : fetch'[q] = fetch[q] \/ fetch'[q] = NoCache
      BY <1>t, <2>1
    <2> QED BY <1>t, <2>1, <2>2, <2>3, <2>4, <2>5 DEF Fresh
  <1>5. ASSUME NEW r \in Requests, FetchFails(r) PROVE Fresh'
    <2>1. /\ UNCHANGED <<now, cache>> /\ fetch' = [fetch EXCEPT ![r] = NoCache]
          /\ offer' = offer \/ (/\ offer' = [offer EXCEPT ![r] = offer'[r]]
                                /\ offer'[r].age = 0)
      BY <1>5, <1>t DEF FetchFails, Refuse
    <2> QED BY <1>t, <2>1 DEF Fresh
  <1>6. ASSUME NEW r \in Requests, Supported(r) PROVE Fresh'
    <2>1. /\ UNCHANGED <<now, cache, offer>>
          /\ fetch' = [fetch EXCEPT ![r] = [payer |-> payer, asOf |-> now, expires |-> 0]]
      BY <1>6 DEF Supported
    <2>2. fetch'[r].payer # None /\ fetch'[r].asOf = now
      BY <1>t, <2>1 DEF None
    <2> QED BY <1>t, <2>1, <2>2 DEF Fresh
  <1>7. CASE Crash
    <2>1. /\ UNCHANGED <<now, offer>> /\ cache' = NoCache
          /\ \A r \in Requests : fetch'[r] = NoCache
      BY <1>7 DEF Crash
    <2> QED BY <1>t, <2>1 DEF Fresh, NoCache
  <1>8. CASE Tick
    <2>1. /\ UNCHANGED <<cache, fetch, offer>> /\ now' = now + 1
          /\ \A r \in Requests : fetch[r] = NoCache \/ now - fetch[r].asOf < MaxDelay
      BY <1>8 DEF Tick
    <2> QED BY <1>t, <2>1 DEF Fresh
  <1>9. CASE Rotate \/ Reprice \/ UNCHANGED vars
    BY <1>9, StillFresh DEF Rotate, Reprice, vars
  <1> QED BY <1>1, <1>2, <1>3, <1>4, <1>5, <1>6, <1>7, <1>8, <1>9
          DEF Next, Gate, Facilitator, Mishap

----------------------------------------------------------------------------
LEMMA NextOK == ASSUME IInv, [Next]_vars PROVE IInv'
  <1>1. Typed'
    <2>1. CASE UNCHANGED vars
      BY <2>1 DEF vars, outside, IInv, Typed, TypeOK, Fetches
    <2> QED BY <2>1, GateTypes, OtherTypes, WorldTypes DEF Next
  <1>2. \A q \in Requests : Shape(q)' /\ Money(q)'
    <2>1. ASSUME NEW r \in Requests, Gate(r)
          PROVE  \A q \in Requests : Shape(q)' /\ Money(q)'
      BY <2>1, GateAsks, GateTakes, GateRefuses, GateGoesOn DEF Gate
    <2>2. ASSUME NEW r \in Requests, Client(r) \/ Mishap(r)
          PROVE  \A q \in Requests : Shape(q)' /\ Money(q)'
      BY <2>2, ClientSteps, GateRefuses, GateGoesOn DEF Mishap
    <2>3. ASSUME NEW r \in Requests, FacilitatorVerify(r) \/ FacilitatorSettle(r)
          PROVE  \A q \in Requests : Shape(q)' /\ Money(q)'
      BY <2>3, FacilitatorVerifies, FacilitatorSettles
    <2>4. ASSUME UNCHANGED <<config, stage, tags, pay, due, job, wire, answer, told, chain>>
          PROVE  \A q \in Requests : Shape(q)' /\ Money(q)'
      BY <2>4 DEF IInv, Shape, Money, Good, Used, Charged, Priced, Failing, GivenUp
    <2>5. CASE \/ \E r \in Requests : Supported(r)
               \/ Rotate \/ Reprice \/ Tick \/ UNCHANGED vars
      BY <2>4, <2>5 DEF Supported, Rotate, Reprice, Tick, vars, outside
    <2> QED BY <2>1, <2>2, <2>3, <2>5, GateCrashes DEF Next, Facilitator
  <1> QED BY <1>1, <1>2, NextFresh DEF IInv

LEMMA Invariant == Spec => []IInv
  BY InitOK, NextOK, PTL DEF Spec

\* The variables keep their types: no stage, answer or message out of place.
THEOREM TypeCorrect == Spec => []TypeOK
  <1>1. IInv => TypeOK
    BY DEF IInv, Typed
  <1> QED BY <1>1, Invariant, PTL

\* A client that is charged and not served lost the answer of its settlement on
\* the way, or its handler failed in a layer that settles first.
THEOREM ChargesAreServed == Spec => []UnservedChargeIsLost
  <1>1. ASSUME IInv PROVE UnservedChargeIsLost
    <2> SUFFICES ASSUME NEW r \in Requests, Charged(r)
                 PROVE  /\ answer[r] = "402" => /\ told[r] = "error"
                                                /\ ("lost" \in Faults \/ config.timeout)
                        /\ answer[r] = "handler" => config.before
      BY DEF UnservedChargeIsLost, Charged
    <2> QED BY <1>1 DEF IInv, Shape, Money, Failing, GivenUp
  <1> QED BY <1>1, Invariant, PTL

\* One payment serves one request where used payments are rejected, whoever
\* replays its header and whenever.
THEOREM PaymentsServeOnce == Spec => []ServedOncePerPayment
  <1>1. ASSUME IInv PROVE ServedOncePerPayment
    <2> SUFFICES ASSUME config.duplicates = "rejected", NEW r \in Requests, NEW q \in Requests,
                        Paid(r), Paid(q), pay[r] = pay[q],
                        told[r] # "refusal", told[q] # "refusal"
                 PROVE  r = q
      BY DEF ServedOncePerPayment
    <2>1. told[r] = "success" /\ told[q] = "success"
      BY <1>1 DEF IInv, Money, Paid, SettleResponse
    <2> QED BY <1>1, <2>1 DEF IInv, Money, Good
  <1> QED BY <1>1, Invariant, PTL

\* What is settled covers the price of the request it serves, not of the offer.
THEOREM PricesAreCurrent == Spec => []PaysTheCurrentPrice
  <1>1. ASSUME IInv PROVE PaysTheCurrentPrice
    <2> SUFFICES ASSUME NEW r \in Requests, Paid(r), told[r] # "refusal"
                 PROVE  \E i \in DOMAIN tags[r] :
                          /\ tags[r][i].network = pay[r].accepted.network
                          /\ pay[r].accepted.amount >= tags[r][i].amount
      BY DEF PaysTheCurrentPrice
    <2>1. told[r] = "success"
      BY <1>1 DEF IInv, Money, Paid, SettleResponse
    <2> QED BY <1>1, <2>1 DEF IInv, Money, Good, Priced
  <1> QED BY <1>1, Invariant, PTL

\* No interleaving of misses keeps a fee payer longer than a lifetime and a delay.
THEOREM OffersAreFresh == Spec => []OfferFresh
  <1>1. IInv => OfferFresh
    BY DEF IInv, Fresh, OfferFresh
  <1> QED BY <1>1, Invariant, PTL

----------------------------------------------------------------------------
(* The amounts of prices.                                                   *)
\* A set of numbers has a least one.
LEMMA LeastNatural ==
  ASSUME NEW T \in SUBSET Nat, T # {}
  PROVE  \E n \in T : \A m \in T : n <= m
  <1> DEFINE R == OpToRel(<, Nat)
  <1>1. IsWellFoundedOn(R, Nat)
    BY NatLessThanWellFounded
  <1>2. \A m, n \in Nat : m < n => <<m, n>> \in R
    BY DEF OpToRel
  <1> HIDE DEF R
  <1>3. PICK n \in T : \A m \in T : ~(<<m, n>> \in R)
    BY <1>1, WFMin
  <1>4. ASSUME NEW m \in T PROVE n <= m
    <2>1. ~(m < n)
      BY <1>2, <1>3
    <2> QED BY <2>1
  <1> QED BY <1>3, <1>4

\* Induction up to n.
LEMMA UpTo ==
  ASSUME NEW n \in Nat, NEW T, 0 \in T, \A k \in 0..(n - 1) : k \in T => k + 1 \in T
  PROVE  0..n \subseteq T
  <1> SUFFICES ASSUME ~(0..n \subseteq T) PROVE FALSE
    OBVIOUS
  <1> DEFINE F == {k \in 0..n : k \notin T}
  <1>1. F \in SUBSET Nat /\ F # {}
    OBVIOUS
  <1>2. PICK k \in F : \A i \in F : k <= i
    BY <1>1, LeastNatural
  <1>3. k \in 0..n /\ k \notin T /\ k # 0
    BY <1>2
  <1>4. k - 1 \in 0..(n - 1) /\ k - 1 \notin F
    BY <1>2, <1>3
  <1>5. k - 1 \in T
    BY <1>4
  <1>6. (k - 1) + 1 \in T
    BY <1>4, <1>5
  <1> QED BY <1>3, <1>6

LEMMA Always ==
  ASSUME NEW T, 0 \in T, \A k \in Nat : k \in T => k + 1 \in T
  PROVE  Nat \subseteq T
  <1> SUFFICES ASSUME NEW n \in Nat PROVE n \in T
    OBVIOUS
  <1>1. 0..n \subseteq T
    BY UpTo
  <1> QED BY <1>1

----------------------------------------------------------------------------
(* Powers of ten                                                            *)
LEMMA TenToIs ==
  /\ TenTo \in [Nat -> Nat \ {0}]
  /\ TenTo[0] = 1
  /\ \A n \in Nat : TenTo[n + 1] = 10 * TenTo[n]
  <1> DEFINE Step(f) == [n \in Nat |-> IF n = 0 THEN 1 ELSE 10 * f[n - 1]]
             Upto(n, g) == /\ g \in [0..n -> Nat \ {0}] /\ g[0] = 1
                           /\ \A i \in 1..n : g[i] = 10 * g[i - 1]
             g(n) == CHOOSE g : Upto(n, g)
  <1>1. TenTo = CHOOSE f : f = Step(f)
    BY DEF TenTo
  <1>2. ASSUME NEW n \in Nat PROVE \E h : Upto(n, h)
    <2> DEFINE T == {k \in Nat : \E h : Upto(k, h)}
    <2>1. 0 \in T
      <3>1. Upto(0, [i \in 0..0 |-> 1])
        OBVIOUS
      <3> QED BY <3>1
    <2>2. ASSUME NEW k \in Nat, k \in T PROVE k + 1 \in T
      <3>1. PICK h : Upto(k, h)
        BY <2>2
      <3> DEFINE e == [i \in 0..(k + 1) |-> IF i = k + 1 THEN 10 * h[k] ELSE h[i]]
      <3>2. e \in [0..(k + 1) -> Nat \ {0}] /\ e[0] = 1
        BY <3>1
      <3>3. ASSUME NEW i \in 1..(k + 1) PROVE e[i] = 10 * e[i - 1]
        BY <3>1
      <3>4. Upto(k + 1, e)
        BY <3>2, <3>3
      <3> HIDE DEF e, Upto
      <3>5. \E i : Upto(k + 1, i)
        BY <3>4
      <3> QED BY <3>5
    <2> HIDE DEF T
    <2>3. Nat \subseteq T
      BY <2>1, <2>2, Always
    <2> QED BY <2>3 DEF T
  <1>3. ASSUME NEW n \in Nat, NEW h, NEW e, Upto(n, h), Upto(n + 1, e)
        PROVE  e[n] = h[n]
    <2> DEFINE T == {k \in 0..n : e[k] = h[k]}
    <2>1. 0 \in T
      BY <1>3
    <2>2. ASSUME NEW k \in 0..(n - 1), k \in T PROVE k + 1 \in T
      BY <1>3, <2>2
    <2> HIDE DEF T
    <2>3. 0..n \subseteq T
      BY <2>1, <2>2, UpTo
    <2> QED BY <2>3 DEF T
  <1>4. ASSUME NEW n \in Nat PROVE Upto(n, g(n))
    BY <1>2
  <1> DEFINE G == [n \in Nat |-> g(n)[n]]
  <1> HIDE DEF g
  <1>5. G = Step(G)
    <2>1. ASSUME NEW n \in Nat PROVE G[n] = Step(G)[n]
      <3>1. CASE n = 0
        BY <1>4, <3>1
      <3>2. CASE n # 0
        <4>1. n - 1 \in Nat /\ (n - 1) + 1 = n
          BY <3>2
        <4>2. g(n)[n - 1] = g(n - 1)[n - 1]
          BY <1>3, <1>4, <4>1
        <4>3. g(n)[n] = 10 * g(n)[n - 1]
          BY <1>4, <3>2
        <4> QED BY <3>2, <4>1, <4>2, <4>3
      <3> QED BY <3>1, <3>2
    <2> QED BY <2>1
  <1>6. TenTo = Step(TenTo)
    <2> DEFINE P(f) == f = Step(f)
    <2>1. \E f : P(f)
      BY <1>5
    <2> HIDE DEF Step
    <2> QED BY <1>1, <2>1
  <1>7. /\ TenTo[0] = 1 /\ \A n \in Nat : TenTo[n + 1] = 10 * TenTo[n]
        /\ TenTo = [n \in Nat |-> TenTo[n]]
    <2>1. TenTo = [n \in Nat |-> IF n = 0 THEN 1 ELSE 10 * TenTo[n - 1]]
      BY <1>6
    <2>2. ASSUME NEW n \in Nat PROVE TenTo[n + 1] = 10 * TenTo[n]
      <3>1. n + 1 \in Nat /\ n + 1 # 0 /\ (n + 1) - 1 = n
        OBVIOUS
      <3> QED BY <2>1, <3>1
    <2> QED BY <2>1, <2>2
  <1> DEFINE T == {n \in Nat : TenTo[n] \in Nat \ {0}}
  <1>8. 0 \in T /\ \A n \in Nat : n \in T => n + 1 \in T
    <2>1. TenTo[0] \in Nat \ {0}
      BY <1>7
    <2>2. ASSUME NEW n \in Nat, TenTo[n] \in Nat \ {0} PROVE TenTo[n + 1] \in Nat \ {0}
      <3>1. \A x \in Nat \ {0} : 10 * x \in Nat \ {0}
        OBVIOUS
      <3>2. TenTo[n + 1] = 10 * TenTo[n]
        BY <1>7
      <3> QED BY <2>2, <3>1, <3>2
    <2> QED BY <2>1, <2>2
  <1> HIDE DEF T
  <1>9. Nat \subseteq T
    BY <1>8, Always
  <1> QED BY <1>7, <1>9 DEF T

LEMMA TenToSum ==
  ASSUME NEW a \in Nat, NEW b \in Nat
  PROVE  TenTo[a + b] = TenTo[a] * TenTo[b]
  <1> DEFINE T == {k \in Nat : TenTo[a + k] = TenTo[a] * TenTo[k]}
  <1>1. 0 \in T
    BY TenToIs
  <1>2. ASSUME NEW k \in Nat, k \in T PROVE k + 1 \in T
    <2>1. a + (k + 1) = (a + k) + 1 /\ a + k \in Nat
      OBVIOUS
    <2>2. TenTo[a + (k + 1)] = 10 * TenTo[a + k] /\ TenTo[k + 1] = 10 * TenTo[k]
      BY <2>1, TenToIs
    <2>3. TenTo[a] \in Nat /\ TenTo[k] \in Nat
      BY TenToIs
    <2>4. 10 * (TenTo[a] * TenTo[k]) = TenTo[a] * (10 * TenTo[k])
      BY <2>3
    <2> QED BY <1>2, <2>2, <2>4
  <1> HIDE DEF T
  <1>3. Nat \subseteq T
    BY <1>1, <1>2, Always
  <1> QED BY <1>3 DEF T

----------------------------------------------------------------------------
(* Recursive functions of the places of a text                              *)
\* op takes a value in V and a place to a value in V; f is what op makes of base
\* place by place.
Recursive(n, V, base, op) == n \in Nat /\ base \in V /\ op \in [V -> [1..n -> V]]

Unfolds(f, n, V, base, op) ==
  f \in [0..n -> V] /\ f[0] = base /\ \A k \in 1..n : f[k] = op[f[k - 1]][k]

LEMMA Recursion ==
  ASSUME NEW n, NEW V, NEW base, NEW op, Recursive(n, V, base, op)
  PROVE  \E f : Unfolds(f, n, V, base, op)
  <1> DEFINE Upto(j, f) == /\ f \in [0..j -> V] /\ f[0] = base
                           /\ \A k \in 1..j : f[k] = op[f[k - 1]][k]
             T == {j \in 0..n : \E f : Upto(j, f)}
  <1>0. n \in Nat /\ base \in V /\ op \in [V -> [1..n -> V]]
    BY DEF Recursive
  <1>1. 0 \in T
    <2> DEFINE e == [i \in 0..0 |-> base]
    <2>1. e \in [0..0 -> V] /\ e[0] = base
      BY <1>0
    <2>2. Upto(0, e)
      BY <2>1
    <2> HIDE DEF e, Upto
    <2>3. \E f : Upto(0, f)
      BY <2>2
    <2> QED BY <1>0, <2>3
  <1>2. ASSUME NEW j \in 0..(n - 1), j \in T PROVE j + 1 \in T
    <2>1. PICK f : Upto(j, f)
      BY <1>2
    <2> DEFINE e == [i \in 0..(j + 1) |-> IF i = j + 1 THEN op[f[j]][j + 1] ELSE f[i]]
    <2>2. f[j] \in V /\ j + 1 \in 1..n /\ op[f[j]][j + 1] \in V
      BY <1>0, <2>1
    <2>3. e \in [0..(j + 1) -> V] /\ e[0] = base
      BY <1>0, <2>1, <2>2
    <2>4. ASSUME NEW k \in 1..(j + 1) PROVE e[k] = op[e[k - 1]][k]
      <3>1. k - 1 \in 0..j /\ e[k - 1] = f[k - 1]
        BY <1>0
      <3>2. CASE k = j + 1
        BY <3>1, <3>2
      <3>3. CASE k # j + 1
        <4>1. k \in 1..j /\ e[k] = f[k]
          BY <3>3
        <4> QED BY <2>1, <3>1, <4>1
      <3> QED BY <3>2, <3>3
    <2>5. Upto(j + 1, e)
      BY <2>3, <2>4
    <2> HIDE DEF e, Upto
    <2>6. \E f_1 : Upto(j + 1, f_1)
      BY <2>5
    <2> QED BY <1>0, <2>2, <2>6
  <1> HIDE DEF T
  <1>3. 0..n \subseteq T
    BY <1>0, <1>1, <1>2, UpTo
  <1>4. n \in T
    BY <1>0, <1>3
  <1> QED BY <1>4 DEF T, Unfolds

LEMMA ValueIsNatural ==
  ASSUME NEW c, IsDigit(c)
  PROVE  Value[c] \in Nat /\ c \notin {".", "-", ",", "$"}
  <1>1. /\ \A d \in DOMAIN Value : Value[d] \in 0 .. 9
        /\ DOMAIN Value \cap {".", "-", ",", "$"} = {}
    BY MoneyAssumption
  <1>2. Value[c] \in 0 .. 9
    BY <1>1 DEF IsDigit
  <1>3. c \notin {".", "-", ",", "$"}
    BY <1>1 DEF IsDigit
  <1>4. Value[c] \in Nat
    BY <1>2
  <1> QED BY <1>3, <1>4, Zenon

\* M is the number read so far, at every place of t.
Reads(M, t) ==
  /\ M \in [0..Len(t) -> Nat] /\ M[0] = 0
  /\ \A k \in 1..Len(t) :
       M[k] = IF IsDigit(t[k]) THEN 10 * M[k - 1] + Value[t[k]] ELSE M[k - 1]

LEMMA MantissaReads ==
  ASSUME NEW t \in Seq(STRING)
  PROVE  \E M : Reads(M, t) /\ mantissa(t) = M[Len(t)]
  <1> DEFINE n == Len(t)
             body(v, k) == IF IsDigit(t[k]) THEN 10 * v + Value[t[k]] ELSE v
             Step(f) == [k \in 0..n |-> IF k = 0 THEN 0 ELSE body(f[k - 1], k)]
             upTo == CHOOSE f : f = Step(f)
             op == [v \in Nat |-> [k \in 1..n |-> body(v, k)]]
  <1>0. 0 \in Nat
    OBVIOUS
  <1>1. n \in Nat
    OBVIOUS
  <1>2. mantissa(t) = upTo[n]
    BY DEF mantissa
  <1>3. ASSUME NEW v \in Nat, NEW k \in 1..n PROVE body(v, k) \in Nat
    <2>1. CASE IsDigit(t[k])
      <3>1. Value[t[k]] \in Nat
        BY <2>1, ValueIsNatural
      <3> QED BY <2>1, <3>1
    <2>2. CASE ~IsDigit(t[k])
      BY <2>2
    <2> QED BY <2>1, <2>2
  <1> HIDE DEF n, body
  <1>4. op \in [Nat -> [1..n -> Nat]]
    BY <1>3
  <1> HIDE DEF op
  <1>5. PICK f : Unfolds(f, n, Nat, 0, op)
    <2>1. Recursive(n, Nat, 0, op)
      BY <1>0, <1>1, <1>4 DEF Recursive
    <2> QED BY <2>1, Recursion, Zenon
  <1>6. f = Step(f)
    <2>1. ASSUME NEW k \in 0..n PROVE f[k] = Step(f)[k]
      <3>1. CASE k = 0
        BY <1>5, <3>1 DEF Unfolds
      <3>2. CASE k # 0
        <4>1. k \in 1..n /\ f[k - 1] \in Nat
          BY <1>1, <1>5, <3>2 DEF Unfolds
        <4> QED BY <1>5, <3>2, <4>1 DEF op, Unfolds
      <3> QED BY <3>1, <3>2
    <2> QED BY <1>5, <2>1 DEF Unfolds
  <1> HIDE DEF Step
  <1>7. upTo = Step(upTo)
    BY <1>6
  <1> HIDE DEF upTo
  <1>8. upTo[0] = 0 /\ \A k \in 1..n : upTo[k] = body(upTo[k - 1], k)
    BY <1>1, <1>7 DEF Step
  <1> DEFINE T == {k \in 0..n : upTo[k] \in Nat}
  <1>9. 0 \in T /\ \A k \in 0..(n - 1) : k \in T => k + 1 \in T
    <2>1. ASSUME NEW k \in 0..(n - 1), k \in T PROVE k + 1 \in T
      <3>1. k + 1 \in 1..n /\ (k + 1) - 1 = k /\ k + 1 \in 0..n
        BY <1>1
      <3> QED BY <1>3, <1>8, <2>1, <3>1
    <2> QED BY <1>1, <1>8, <2>1
  <1> HIDE DEF T
  <1>10. 0..n \subseteq T
    BY <1>1, <1>9, UpTo
  <1>11. upTo \in [0..n -> Nat]
    <2>1. upTo = [k \in 0..n |-> upTo[k]]
      BY <1>7 DEF Step
    <2> QED BY <1>10, <2>1 DEF T
  <1> QED BY <1>2, <1>8, <1>11 DEF Reads, body, n

\* C is what is kept so far, at every place of t.
Keeps(C, t) ==
  /\ C \in [0..Len(t) -> Seq(STRING)] /\ C[0] = <<>>
  /\ \A k \in 1..Len(t) :
       C[k] = IF Kept(t[k]) THEN Append(C[k - 1], t[k]) ELSE C[k - 1]

LEMMA CleanedKeeps ==
  ASSUME NEW t \in Seq(STRING)
  PROVE  \E C : Keeps(C, t) /\ Cleaned(t) = C[Len(t)]
  <1> DEFINE n == Len(t)
             body(v, k) == IF Kept(t[k]) THEN Append(v, t[k]) ELSE v
             Step(f) == [k \in 0..n |-> IF k = 0 THEN <<>> ELSE body(f[k - 1], k)]
             upTo == CHOOSE f : f = Step(f)
             V == Seq(STRING)
             op == [v \in V |-> [k \in 1..n |-> body(v, k)]]
  <1>1. n \in Nat /\ <<>> \in V
    OBVIOUS
  <1>2. Cleaned(t) = upTo[n]
    BY DEF Cleaned
  <1>3. ASSUME NEW v \in V, NEW k \in 1..n PROVE body(v, k) \in V
    <2>1. t[k] \in STRING
      OBVIOUS
    <2>2. Append(v, t[k]) \in Seq(STRING)
      BY <2>1
    <2> QED BY <2>2
  <1> HIDE DEF n, body, V
  <1>4. op \in [V -> [1..n -> V]]
    BY <1>3
  <1> HIDE DEF op
  <1>5. PICK f : Unfolds(f, n, V, <<>>, op)
    <2>1. Recursive(n, V, <<>>, op)
      BY <1>1, <1>4 DEF Recursive
    <2> QED BY <2>1, Recursion, Zenon
  <1>6. f = Step(f)
    <2>1. ASSUME NEW k \in 0..n PROVE f[k] = Step(f)[k]
      <3>1. CASE k = 0
        BY <1>5, <3>1 DEF Unfolds
      <3>2. CASE k # 0
        <4>1. k \in 1..n /\ f[k - 1] \in V
          BY <1>1, <1>5, <3>2 DEF Unfolds
        <4> QED BY <1>5, <3>2, <4>1 DEF op, Unfolds
      <3> QED BY <3>1, <3>2
    <2> QED BY <1>5, <2>1 DEF Unfolds
  <1> HIDE DEF Step
  <1>7. upTo = Step(upTo)
    BY <1>6
  <1> HIDE DEF upTo
  <1>8. upTo[0] = <<>> /\ \A k \in 1..n : upTo[k] = body(upTo[k - 1], k)
    BY <1>1, <1>7 DEF Step
  <1> DEFINE T == {k \in 0..n : upTo[k] \in V}
  <1>9. 0 \in T /\ \A k \in 0..(n - 1) : k \in T => k + 1 \in T
    <2>1. ASSUME NEW k \in 0..(n - 1), k \in T PROVE k + 1 \in T
      <3>1. k + 1 \in 1..n /\ (k + 1) - 1 = k /\ k + 1 \in 0..n
        BY <1>1
      <3> QED BY <1>3, <1>8, <2>1, <3>1
    <2> QED BY <1>1, <1>8, <2>1
  <1> HIDE DEF T
  <1>10. 0..n \subseteq T
    BY <1>1, <1>9, UpTo
  <1>11. upTo \in [0..n -> V]
    <2>1. upTo = [k \in 0..n |-> upTo[k]]
      BY <1>7 DEF Step
    <2> QED BY <1>10, <2>1 DEF T
  <1> QED BY <1>2, <1>8, <1>11 DEF Keeps, body, n, V

\* The greatest of some numbers up to n.
LEMMA GreatestNumber ==
  ASSUME NEW n \in Nat, NEW S \in SUBSET (0..n), S # {}
  PROVE  Max(S) \in S /\ \A i \in S : i <= Max(S)
  <1> DEFINE T == {n - i : i \in S}
  <1>1. PICK m \in T : \A k \in T : m <= k
    <2>1. \A i \in S : n - i \in Nat
      OBVIOUS
    <2>2. T \in SUBSET Nat /\ T # {}
      BY <2>1
    <2> QED BY <2>2, LeastNatural
  <1>2. PICK x \in S : m = n - x
    OBVIOUS
  <1>3. \A i \in S : x >= i
    <2> TAKE i \in S
    <2>1. n - x <= n - i
      BY <1>1, <1>2
    <2> QED BY <2>1
  <1>4. \E y \in S : \A i \in S : y >= i
    BY <1>3
  <1>5. Max(S) \in S /\ \A i \in S : Max(S) >= i
    BY <1>4, Zenon DEF Max
  <1> QED BY <1>5

\* The last of some places.
LEMMA GreatestPlace ==
  ASSUME NEW n \in Nat, NEW S \in SUBSET (1..n), S # {}
  PROVE  Max(S) \in S /\ \A i \in S : i <= Max(S)
  <1>1. S \in SUBSET (0..n)
    OBVIOUS
  <1> QED BY <1>1, GreatestNumber

\* The number of a text with one character more.
LEMMA MantissaOfEmpty ==
  mantissa(<<>>) = 0
  <1>1. <<>> \in Seq(STRING) /\ Len(<<>>) = 0
    OBVIOUS
  <1>2. PICK M : Reads(M, <<>>) /\ mantissa(<<>>) = M[Len(<<>>)]
    BY <1>1, MantissaReads
  <1> QED BY <1>1, <1>2 DEF Reads

Extends(a, s, c) ==
  /\ Len(a) = Len(s) + 1 /\ a[Len(s) + 1] = c
  /\ \A i \in 1..Len(s) : a[i] = s[i]

LEMMA AppendExtends ==
  ASSUME NEW S, NEW s \in Seq(S), NEW c \in S
  PROVE  Append(s, c) \in Seq(S) /\ Extends(Append(s, c), s, c)
  BY DEF Extends

LEMMA MantissaAppend ==
  ASSUME NEW s \in Seq(STRING), NEW c \in STRING
  PROVE  /\ mantissa(s) \in Nat
         /\ mantissa(Append(s, c)) =
              IF IsDigit(c) THEN 10 * mantissa(s) + Value[c]
                                    ELSE mantissa(s)
  <1> DEFINE n == Len(s)
             a == Append(s, c)
  <1>1. /\ n \in Nat /\ a \in Seq(STRING) /\ Len(a) = n + 1 /\ a[n + 1] = c
        /\ \A i \in 1..n : a[i] = s[i]
    <2>1. n \in Nat
      OBVIOUS
    <2>2. /\ a \in Seq(STRING) /\ Len(a) = n + 1 /\ a[n + 1] = c
          /\ \A i \in 1..n : a[i] = s[i]
      <3>1. a \in Seq(STRING) /\ Extends(a, s, c)
        BY AppendExtends, Zenon
      <3> HIDE DEF a
      <3> QED BY <3>1 DEF Extends
    <2> QED BY <2>1, <2>2
  <1> HIDE DEF a
  <1>2. PICK M : Reads(M, s) /\ mantissa(s) = M[n]
    BY MantissaReads
  <1>3. PICK K : Reads(K, a) /\ mantissa(a) = K[n + 1]
    BY <1>1, MantissaReads
  <1> HIDE DEF n
  <1> DEFINE T == {k \in 0..n : K[k] = M[k]}
  <1>4. 0 \in T
    BY <1>1, <1>2, <1>3 DEF Reads
  <1>5. ASSUME NEW k \in 0..(n - 1), k \in T PROVE k + 1 \in T
    <2>1. k + 1 \in 1..n /\ k + 1 \in 1..(n + 1) /\ (k + 1) - 1 = k
      BY <1>1
    <2>2. a[k + 1] = s[k + 1]
      BY <1>1, <2>1
    <2>3. M[k + 1] = IF IsDigit(s[k + 1]) THEN 10 * M[k] + Value[s[k + 1]] ELSE M[k]
      BY <1>2, <2>1 DEF Reads, n
    <2>4. K[k + 1] = IF IsDigit(a[k + 1]) THEN 10 * K[k] + Value[a[k + 1]] ELSE K[k]
      BY <1>1, <1>3, <2>1 DEF Reads
    <2> QED BY <1>1, <1>5, <2>1, <2>2, <2>3, <2>4
  <1> HIDE DEF T
  <1>6. 0..n \subseteq T
    BY <1>1, <1>4, <1>5, UpTo
  <1>7. K[n] = M[n]
    BY <1>1, <1>6 DEF T
  <1>8. n + 1 \in 1..(n + 1) /\ (n + 1) - 1 = n
    BY <1>1
  <1>9. K[n + 1] = IF IsDigit(c) THEN 10 * K[n] + Value[c] ELSE K[n]
    BY <1>1, <1>3, <1>8 DEF Reads
  <1>10. M[n] \in Nat
    BY <1>1, <1>2 DEF Reads, n
  <1> QED BY <1>2, <1>3, <1>7, <1>9, <1>10 DEF a

\* What is deleted is not a digit: the number is that of the text.
LEMMA MantissaOfCleaned ==
  ASSUME NEW t \in Seq(STRING)
  PROVE  /\ Cleaned(t) \in Seq(STRING)
         /\ mantissa(Cleaned(t)) = mantissa(t)
  <1> DEFINE n == Len(t)
  <1>1. PICK M : Reads(M, t) /\ mantissa(t) = M[n]
    BY MantissaReads
  <1>2. PICK C : Keeps(C, t) /\ Cleaned(t) = C[n]
    BY CleanedKeeps
  <1>3. n \in Nat /\ \A k \in 1..n : t[k] \in STRING
    OBVIOUS
  <1>4. \A k \in 0..n : C[k] \in Seq(STRING)
    BY <1>2 DEF Keeps
  <1> DEFINE T == {k \in 0..n : mantissa(C[k]) = M[k]}
  <1>5. 0 \in T
    BY <1>1, <1>2, <1>3, MantissaOfEmpty DEF Reads, Keeps
  <1>6. ASSUME NEW k \in 0..(n - 1), k \in T PROVE k + 1 \in T
    <2> DEFINE c == t[k + 1]
    <2>1. k + 1 \in 1..n /\ (k + 1) - 1 = k /\ c \in STRING /\ C[k] \in Seq(STRING)
      BY <1>3, <1>4
    <2>2. M[k + 1] = IF IsDigit(c) THEN 10 * M[k] + Value[c] ELSE M[k]
      BY <1>1, <2>1 DEF Reads
    <2>3. C[k + 1] = IF Kept(c) THEN Append(C[k], c) ELSE C[k]
      BY <1>2, <2>1 DEF Keeps
    <2>4. IsDigit(c) => Kept(c)
      BY DEF Kept
    <2>5. mantissa(Append(C[k], c)) =
            IF IsDigit(c) THEN 10 * M[k] + Value[c] ELSE M[k]
      BY <1>6, <2>1, MantissaAppend
    <2> HIDE DEF c
    <2>6. mantissa(C[k + 1]) = M[k + 1]
      BY <1>6, <2>2, <2>3, <2>4, <2>5
    <2> QED BY <2>1, <2>6
  <1> HIDE DEF T
  <1>7. 0..n \subseteq T
    BY <1>3, <1>5, <1>6, UpTo
  <1>8. n \in 0..n
    BY <1>3
  <1> QED BY <1>1, <1>2, <1>4, <1>7, <1>8 DEF T

LEMMA ScaleIsNatural ==
  ASSUME NEW t \in Seq(STRING)
  PROVE  scale(t) \in Nat
  <1>1. Points(t) \in SUBSET (1..Len(t)) /\ Len(t) \in Nat
    BY DEF Points
  <1>2. CASE Points(t) # {}
    <2>1. Max(Points(t)) \in 1..Len(t)
      BY <1>1, <1>2, GreatestPlace
    <2>2. Len(t) - Max(Points(t)) \in Nat
      BY <1>1, <2>1
    <2> QED BY <1>2, <2>2 DEF scale
  <1> QED BY <1>2 DEF scale

LEMMA TimesGrows ==
  \A x, y \in Nat \ {0} : x * y >= x /\ x * y >= y /\ x * y \in Nat
  <1> TAKE x, y \in Nat \ {0}
  <1>1. x * y = x + x * (y - 1) /\ x * y = y + y * (x - 1)
    OBVIOUS
  <1>2. x * (y - 1) \in Nat /\ y * (x - 1) \in Nat
    OBVIOUS
  <1> QED BY <1>1, <1>2

LEMMA TimesKeeps ==
  \A a, b \in Nat : \A c \in Nat \ {0} : a * c <= b * c <=> a <= b
  <1> TAKE a, b \in Nat
  <1> TAKE c \in Nat \ {0}
  <1>1. CASE a <= b
    <2>1. b * c = a * c + (b - a) * c /\ (b - a) * c \in Nat /\ a * c \in Nat
      <3>1. b - a \in Nat
        BY <1>1
      <3> QED BY <3>1
    <2> QED BY <1>1, <2>1
  <1>2. CASE b < a
    <2>1. a - b \in Nat \ {0}
      BY <1>2
    <2>2. (a - b) * c >= c /\ (a - b) * c \in Nat
      BY <2>1, TimesGrows
    <2>3. a * c = b * c + (a - b) * c /\ b * c \in Nat
      BY <2>1
    <2> QED BY <1>2, <2>2, <2>3
  <1> QED BY <1>1, <1>2

LEMMA ValueIsDigit ==
  ASSUME NEW c, IsDigit(c)
  PROVE  Value[c] \in 0 .. 9
  <1>1. \A d \in DOMAIN Value : Value[d] \in 0 .. 9
    BY MoneyAssumption
  <1> QED BY <1>1 DEF IsDigit

LEMMA DecimalBounds ==
  Limit \in Nat /\ 0 < Limit /\ MaxScale \in Nat
  <1>1. Limit \in Nat \ {0} /\ MaxScale \in Nat
    BY MoneyAssumption
  <1> QED BY <1>1

\* One character more is at most one digit, and one place.
LEMMA OneMore ==
  ASSUME NEW s \in Seq(STRING), NEW c \in STRING
  PROVE  /\ mantissa(s) \in Nat /\ mantissa(Append(s, c)) \in Nat
         /\ mantissa(Append(s, c)) <= 10 * mantissa(s) + 9
         /\ scale(Append(s, c)) <= scale(s) + 1
  <1> DEFINE n == Len(s)
             a == Append(s, c)
  <1>1. /\ n \in Nat /\ a \in Seq(STRING) /\ Len(a) = n + 1 /\ a[n + 1] = c
        /\ \A i \in 1..n : a[i] = s[i]
    <2>1. n \in Nat
      OBVIOUS
    <2>2. /\ a \in Seq(STRING) /\ Len(a) = n + 1 /\ a[n + 1] = c
          /\ \A i \in 1..n : a[i] = s[i]
      <3>1. a \in Seq(STRING) /\ Extends(a, s, c)
        BY AppendExtends, Zenon
      <3> HIDE DEF a
      <3> QED BY <3>1 DEF Extends
    <2> QED BY <2>1, <2>2
  <1>2. mantissa(s) \in Nat /\ scale(s) \in Nat
    BY MantissaAppend, ScaleIsNatural
  <1>3. mantissa(a) \in Nat /\ mantissa(a) <= 10 * mantissa(s) + 9
    <2>1. mantissa(a) = IF IsDigit(c) THEN 10 * mantissa(s) + Value[c] ELSE mantissa(s)
      BY MantissaAppend
    <2> HIDE DEF a
    <2>2. CASE IsDigit(c)
      <3>1. Value[c] \in 0 .. 9
        BY <2>2, ValueIsDigit
      <3>2. mantissa(a) = 10 * mantissa(s) + Value[c]
        BY <2>1, <2>2
      <3>3. \A v \in 0 .. 9 : \A x \in Nat : 10 * x + v \in Nat /\ 10 * x + v <= 10 * x + 9
        OBVIOUS
      <3> QED BY <1>2, <3>1, <3>2, <3>3
    <2>3. CASE ~IsDigit(c)
      <3>1. mantissa(a) = mantissa(s)
        BY <2>1, <2>3
      <3> QED BY <1>2, <3>1
    <2> QED BY <2>2, <2>3
  <1> HIDE DEF a
  <1>4. /\ Points(s) \in SUBSET (1..n) /\ Points(a) \in SUBSET (1..(n + 1))
        /\ Points(s) = Points(a) \ {n + 1}
    <2>1. DOMAIN s = 1..n /\ DOMAIN a = 1..(n + 1)
      BY <1>1
    <2> HIDE DEF n
    <2> QED BY <1>1, <2>1 DEF Points
  <1>5. scale(a) <= scale(s) + 1
    <2>0. n \in Nat /\ n + 1 \in Nat /\ Len(a) = n + 1
      BY <1>1
    <2>1. Points(a) = {} => scale(a) = 0
      BY DEF scale
    <2>2. Points(a) # {} => scale(a) = (n + 1) - Max(Points(a))
      BY <1>1 DEF scale
    <2>3. Points(s) # {} => scale(s) = n - Max(Points(s))
      BY DEF scale
    <2> HIDE DEF n
    <2>4. CASE Points(a) = {}
      BY <1>2, <2>1, <2>4
    <2>5. CASE n + 1 \in Points(a)
      <3>1. Points(a) # {}
        BY <2>5
      <3>2. Max(Points(a)) \in Points(a) /\ \A i \in Points(a) : i <= Max(Points(a))
        BY <1>4, <2>0, <3>1, GreatestPlace
      <3>3. Max(Points(a)) \in 1..(n + 1) /\ n + 1 <= Max(Points(a))
        BY <1>4, <2>5, <3>2
      <3> QED BY <1>2, <2>0, <2>2, <3>1, <3>3
    <2>6. CASE n + 1 \notin Points(a) /\ Points(a) # {}
      <3>1. Points(a) = Points(s) /\ Points(s) # {}
        BY <1>4, <2>6
      <3>2. Max(Points(s)) \in Points(s)
        BY <1>4, <2>0, <3>1, GreatestPlace
      <3>3. Max(Points(s)) \in 1..n
        BY <1>4, <3>2
      <3> QED BY <2>0, <2>2, <2>3, <3>1, <3>3
    <2> QED BY <2>4, <2>5, <2>6
  <1> QED BY <1>2, <1>3, <1>5, Zenon DEF a

\* What a Decimal holds of a text fits, and not with the next character.
LEMMA HeldIs ==
  ASSUME NEW t \in Seq(STRING), ~FitsDecimal(t)
  PROVE  LET k == Held(t) IN
         /\ k \in 0..(Len(t) - 1) /\ t[k + 1] \in STRING
         /\ SubSeq(t, 1, k) \in Seq(STRING)
         /\ FitsDecimal(SubSeq(t, 1, k)) /\ ~FitsDecimal(Append(SubSeq(t, 1, k), t[k + 1]))
  <1> DEFINE n == Len(t)
             F == {i \in 0..n : FitsDecimal(SubSeq(t, 1, i))}
             k == Held(t)
  <1>1. n \in Nat /\ SubSeq(t, 1, n) = t /\ SubSeq(t, 1, 0) = <<>>
    BY SubSeqFull, SubSeqEmpty
  <1>2. 0 \in F
    <2>1. mantissa(<<>>) < Limit
      BY MantissaOfEmpty, DecimalBounds
    <2>2. Points(<<>>) = {}
      BY DEF Points
    <2>3. scale(<<>>) = 0
      BY <2>2 DEF scale
    <2>4. FitsDecimal(<<>>)
      BY <2>1, <2>3, DecimalBounds DEF FitsDecimal
    <2>5. 0 \in 0..n
      BY <1>1
    <2> HIDE DEF n
    <2> QED BY <1>1, <2>4, <2>5
  <1>3. n \notin F
    BY <1>1
  <1>4. k = Max(F)
    BY DEF Held
  <1> HIDE DEF F
  <1>5. k \in F /\ \A i \in F : i <= k
    <2>1. F \in SUBSET (0..n) /\ F # {}
      BY <1>2 DEF F
    <2> HIDE DEF k, n
    <2> QED BY <1>1, <1>4, <2>1, GreatestNumber
  <1> HIDE DEF k
  <1>6. k \in 0..n /\ k # n /\ k + 1 \notin F
    <2>1. k \in 0..n
      BY <1>5 DEF F
    <2>2. k # n
      BY <1>3, <1>5
    <2>3. ~(k + 1 <= k)
      BY <2>1
    <2> QED BY <1>5, <2>1, <2>2, <2>3
  <1>7. k \in 0..(n - 1) /\ k + 1 \in 1..n /\ k + 1 \in 0..n
    <2>1. n \in Nat /\ k \in 0..n /\ k # n
      BY <1>1, <1>6
    <2> HIDE DEF n
    <2> QED BY <2>1
  <1>8. t[k + 1] \in STRING
    BY <1>7
  <1>9. /\ SubSeq(t, 1, k) \in Seq(STRING)
        /\ SubSeq(t, 1, k + 1) = Append(SubSeq(t, 1, k), t[k + 1])
    <2>1. 1 \in 1..n /\ 1 \in Int /\ k \in Int /\ \A i \in 1..k : t[i] \in STRING
      BY <1>7
    <2>2. SubSeq(t, 1, k) \in Seq(STRING)
      BY <2>1, SubSeqProperties
    <2>3. SubSeq(t, 1, k + 1) = SubSeq(t, 1, (k + 1) - 1) \o << t[k + 1] >>
      BY <1>7, <2>1, SubSeqRecursiveSecond
    <2>4. (k + 1) - 1 = k
      BY <1>7
    <2>5. \A s \in Seq(STRING), c \in STRING : Append(s, c) = s \o <<c>>
      BY AppendIsConcat
    <2> QED BY <1>8, <2>2, <2>3, <2>4, <2>5
  <1>10. ~FitsDecimal(SubSeq(t, 1, k + 1))
    BY <1>6, <1>7 DEF F
  <1>11. FitsDecimal(SubSeq(t, 1, k))
    BY <1>5 DEF F
  <1> QED BY <1>7, <1>8, <1>9, <1>10, <1>11 DEF k, n

\* What does not fit becomes a Decimal with all its places, or a full one.
LEMMA RoundedIs ==
  ASSUME NEW t \in Seq(STRING), ~FitsDecimal(t)
  PROVE  LET d == Rounded(t) IN
         /\ d.ok \in BOOLEAN /\ d.mantissa \in Nat /\ d.scale \in Nat
         /\ d.ok /\ d.scale < MaxScale => Limit <= 10 * d.mantissa + 9
  <1> DEFINE d == Rounded(t)
             held == SubSeq(t, 1, Held(t))
             c == t[Held(t) + 1]
             up == IF Value[c] >= 5 THEN 1 ELSE 0
             m == mantissa(held) + up
  <1>1. /\ c \in STRING /\ held \in Seq(STRING)
        /\ FitsDecimal(held) /\ ~FitsDecimal(Append(held, c))
    BY HeldIs
  <1>2. d = IF Points(held) = {} THEN Refused
            ELSE IF m < Limit THEN Decimal(m, scale(held))
            ELSE IF scale(held) = 0 THEN Refused
            ELSE Decimal((m + 4) \div 10, scale(held) - 1)
    BY DEF Rounded
  <1> HIDE DEF d, held, c
  <1>3. scale(held) \in Nat /\ mantissa(held) \in Nat /\ up \in 0..1
    <2>1. scale(held) \in Nat
      BY <1>1, ScaleIsNatural
    <2>2. mantissa(held) \in Nat
      BY <1>1, OneMore
    <2>3. up \in 0..1
      OBVIOUS
    <2> QED BY <2>1, <2>2, <2>3
  <1>4. /\ mantissa(held) < Limit /\ Limit \in Nat /\ MaxScale \in Nat
        /\ scale(held) < MaxScale => Limit <= 10 * mantissa(held) + 9
    <2>1. /\ mantissa(Append(held, c)) <= 10 * mantissa(held) + 9
          /\ scale(Append(held, c)) <= scale(held) + 1
          /\ mantissa(Append(held, c)) \in Nat
      BY <1>1, OneMore
    <2>2. scale(Append(held, c)) \in Nat
      <3>1. Append(held, c) \in Seq(STRING)
        BY <1>1, AppendProperties
      <3> QED BY <3>1, ScaleIsNatural
    <2> DEFINE M == mantissa(Append(held, c))
               S == scale(Append(held, c))
    <2>3. ~(M < Limit /\ S <= MaxScale)
      BY <1>1 DEF FitsDecimal
    <2>4. mantissa(held) < Limit
      BY <1>1 DEF FitsDecimal
    <2> HIDE DEF M, S
    <2>5. M \in Nat /\ M <= 10 * mantissa(held) + 9 /\ S \in Nat /\ S <= scale(held) + 1
      BY <2>1, <2>2 DEF M, S
    <2> QED BY <1>3, <2>3, <2>4, <2>5, DecimalBounds
  <1> HIDE DEF up
  <1>5. CASE d = Refused
    BY <1>5 DEF Refused, d
  <1>6. CASE m < Limit /\ d = Decimal(m, scale(held))
    <2>1. m \in Nat /\ m >= mantissa(held)
      BY <1>3
    <2>2. d.ok = TRUE /\ d.mantissa = m /\ d.scale = scale(held)
      BY <1>6 DEF Decimal
    <2>3. d.ok \in BOOLEAN /\ d.mantissa \in Nat /\ d.scale \in Nat
      BY <1>3, <2>1, <2>2
    <2>4. d.scale < MaxScale => Limit <= 10 * d.mantissa + 9
      <3> HIDE DEF m
      <3> QED BY <1>3, <1>4, <2>1, <2>2
    <2> QED BY <2>3, <2>4, Zenon DEF d
  <1>7. CASE m >= Limit /\ scale(held) # 0 /\ d = Decimal((m + 4) \div 10, scale(held) - 1)
    <2>1. m \in Nat /\ m = Limit
      BY <1>3, <1>4, <1>7
    <2> DEFINE q == (m + 4) \div 10
    <2>2. q \in Nat /\ m + 4 <= 10 * q + 9
      <3> HIDE DEF m
      <3> QED BY <2>1
    <2>3. d.ok = TRUE /\ d.mantissa = q /\ d.scale = scale(held) - 1
      BY <1>7 DEF Decimal
    <2> HIDE DEF m, q
    <2>4. d.ok \in BOOLEAN /\ d.mantissa \in Nat /\ d.scale \in Nat
      <3>1. scale(held) - 1 \in Nat
        BY <1>3, <1>7
      <3> QED BY <2>2, <2>3, <3>1
    <2>5. Limit <= 10 * d.mantissa + 9
      BY <1>4, <2>1, <2>2, <2>3
    <2> QED BY <2>4, <2>5, Zenon DEF d
  <1>8. m \in Nat
    BY <1>3
  <1> QED BY <1>2, <1>4, <1>5, <1>6, <1>7, <1>8

\* The money of a text, when it is some.
LEMMA ParsedMoney ==
  ASSUME NEW t \in Seq(STRING)
  PROVE  LET m == parse(t) IN
         /\ m.ok \in BOOLEAN /\ m.mantissa \in Nat /\ m.scale \in Nat
         /\ m.ok => m.mantissa # 0
  <1> DEFINE c == Cleaned(t)
             d == from_str(c)
  <1>1. c \in Seq(STRING)
    BY MantissaOfCleaned
  <1> HIDE DEF c
  <1>2. d.ok \in BOOLEAN /\ d.mantissa \in Nat /\ d.scale \in Nat
    <2>1. CASE ~IsNumber(c)
      BY <2>1 DEF from_str, Refused
    <2>2. CASE IsNumber(c) /\ FitsDecimal(c)
      <3>1. d = Decimal(mantissa(c), scale(c))
        BY <2>2 DEF from_str
      <3>2. scale(c) \in Nat
        BY <1>1, ScaleIsNatural
      <3>3. mantissa(c) \in Nat
        <4>1. PICK M : Reads(M, c) /\ mantissa(c) = M[Len(c)]
          BY <1>1, MantissaReads
        <4> QED BY <1>1, <4>1 DEF Reads
      <3> HIDE DEF d
      <3> QED BY <3>1, <3>2, <3>3 DEF Decimal
    <2>3. CASE IsNumber(c) /\ ~FitsDecimal(c)
      <3>1. d = Rounded(c)
        BY <2>3 DEF from_str
      <3> HIDE DEF d
      <3> QED BY <1>1, <2>3, <3>1, RoundedIs
    <2> QED BY <2>1, <2>2, <2>3
  <1> HIDE DEF d
  <1>3. InRange(d) => d.mantissa # 0
    <2>1. TenTo[d.scale] \in Nat \ {0} /\ MinPlaces \in Nat
      BY <1>2, TenToIs, MoneyAssumption
    <2>2. TenTo[MinPlaces] \in Nat
      BY <2>1, TenToIs
    <2>3. \A x \in Nat : 0 * x = 0
      OBVIOUS
    <2>4. SUFFICES ASSUME InRange(d), d.mantissa = 0 PROVE FALSE
      OBVIOUS
    <2>5. 0 * TenTo[MinPlaces] >= TenTo[d.scale]
      BY <2>4 DEF InRange
    <2> QED BY <2>1, <2>2, <2>3, <2>5
  <1>4. parse(t) = IF d.ok /\ Signs(c) = {} /\ InRange(d) THEN d ELSE Refused
    BY DEF parse, c, d
  <1>5. CASE d.ok /\ InRange(d) /\ parse(t) = d
    BY <1>2, <1>3, <1>5
  <1>6. CASE parse(t) = Refused
    BY <1>6 DEF Refused
  <1> QED BY <1>4, <1>5, <1>6

----------------------------------------------------------------------------
(* What the two parsers have said is what they say of the text.             *)
Eip155Says ==
  LET money == parse(text) IN
  IF ~money.ok \/ TooPrecise(money) THEN Failed
  ELSE Amount(money.mantissa * TenTo[decimals - money.scale])

SolanaSays ==
  LET money == parse(text)  multiplier == TenTo[decimals - money.scale] IN
  IF ~money.ok \/ TooPrecise(money) \/ multiplier >= Word THEN Failed
  ELSE IF money.mantissa >= Word THEN Panic
  ELSE IF money.mantissa * multiplier >= Word THEN Failed
  ELSE Amount(money.mantissa * multiplier)

PricesInv ==
  /\ text \in Texts /\ decimals \in Decimals
  /\ amount \in {Unparsed, Eip155Says}
  /\ lamports \in {Unparsed, SolanaSays}

LEMMA PricesInductive ==
  /\ PriceInit => PricesInv
  /\ PricesInv /\ [PriceNext]_parsing => PricesInv'
  <1>1. PriceInit => PricesInv
    BY DEF PriceInit, PricesInv
  <1>2. ASSUME PricesInv, [PriceNext]_parsing PROVE PricesInv'
    <2>1. ASSUME UNCHANGED <<text, decimals>>
          PROVE  Eip155Says' = Eip155Says /\ SolanaSays' = SolanaSays
      BY <2>1 DEF Eip155Says, SolanaSays, TooPrecise
    <2>2. CASE Eip155Parse
      <3>1. UNCHANGED <<text, decimals, lamports>> /\ amount' = Eip155Says
        BY <2>2 DEF Eip155Parse, Eip155Says
      <3> QED BY <1>2, <2>1, <3>1 DEF PricesInv
    <2>3. CASE SolanaParse
      <3>1. UNCHANGED <<text, decimals, amount>> /\ lamports' = SolanaSays
        BY <2>3 DEF SolanaParse, SolanaSays
      <3> QED BY <1>2, <2>1, <3>1 DEF PricesInv
    <2>4. CASE UNCHANGED parsing
      BY <1>2, <2>1, <2>4 DEF PricesInv, parsing
    <2> QED BY <1>2, <2>2, <2>3, <2>4 DEF PriceNext
  <1> QED BY <1>1, <1>2

LEMMA SaysAgree ==
  ASSUME PricesInv
  PROVE  SolanaAgrees
  <1> DEFINE money == parse(text)
             multiplier == TenTo[decimals - money.scale]
             v == money.mantissa * multiplier
  <1>1. text \in Seq(STRING) /\ decimals \in Nat /\ Word \in Nat \ {0}
    BY MoneyAssumption DEF PricesInv
  <1>2. money.mantissa \in Nat /\ money.scale \in Nat /\ (money.ok => money.mantissa # 0)
    BY <1>1, ParsedMoney
  <1>3. SUFFICES ASSUME amount # Unparsed, lamports # Unparsed
                 PROVE  \/ lamports = amount /\ lamports.value < Word
                        \/ /\ amount.kind = "amount" /\ amount.value >= Word
                           /\ lamports.kind \in {"error", "panic"}
    BY DEF SolanaAgrees
  <1>4. amount = Eip155Says /\ lamports = SolanaSays
    BY <1>3 DEF PricesInv
  <1> DEFINE refused == ~money.ok \/ TooPrecise(money)
  <1>5. amount = IF refused THEN Failed ELSE Amount(v)
    BY <1>4 DEF Eip155Says
  <1>6. lamports = IF refused \/ multiplier >= Word THEN Failed
                   ELSE IF money.mantissa >= Word THEN Panic
                   ELSE IF v >= Word THEN Failed ELSE Amount(v)
    BY <1>4 DEF SolanaSays
  <1>7. CASE refused
    BY <1>1, <1>5, <1>6, <1>7 DEF Failed
  <1>8. CASE ~refused
    <2>1. multiplier \in Nat \ {0}
      <3>1. decimals - money.scale \in Nat
        BY <1>1, <1>2, <1>8 DEF TooPrecise
      <3> QED BY <3>1, TenToIs
    <2>2. money.mantissa \in Nat \ {0}
      BY <1>2, <1>8
    <2> HIDE DEF multiplier, money, refused
    <2>3. \A x, y \in Nat \ {0} : x * y >= x /\ x * y >= y /\ x * y \in Nat
      BY TimesGrows
    <2>4. v >= multiplier /\ v >= money.mantissa /\ v \in Nat
      BY <2>1, <2>2, <2>3
    <2> HIDE DEF v
    <2>5. amount.kind = "amount" /\ amount.value = v
      BY <1>5, <1>8 DEF Amount
    <2>6. CASE v < Word
      <3>1. ~(multiplier >= Word) /\ ~(money.mantissa >= Word) /\ ~(v >= Word)
        BY <1>1, <2>1, <2>2, <2>4, <2>6
      <3>2. lamports = amount
        BY <1>5, <1>6, <1>8, <3>1
      <3> QED BY <2>5, <2>6, <3>2
    <2>7. CASE v >= Word
      <3>1. lamports \in {Failed, Panic}
        BY <1>6, <1>8, <2>7
      <3>2. lamports.kind \in {"error", "panic"}
        BY <3>1 DEF Failed, Panic
      <3> QED BY <2>5, <2>7, <3>2
    <2> QED BY <1>1, <2>4, <2>6, <2>7
  <1> QED BY <1>7, <1>8

\* Solana's answer to a price is never another amount than the EVM chains'.
THEOREM PricesAgree ==
  PriceSpec => []SolanaAgrees
  <1>1. PriceInit => PricesInv
    BY PricesInductive
  <1>2. PricesInv /\ [PriceNext]_parsing => PricesInv'
    BY PricesInductive
  <1>3. PricesInv => SolanaAgrees
    BY SaysAgree
  <1> QED BY <1>1, <1>2, <1>3, PTL DEF PriceSpec

----------------------------------------------------------------------------
(* Digits, counted.                                                         *)
LEMMA DigitsInIs ==
  ASSUME NEW t, NEW a \in Nat, NEW b \in Nat
  PROVE  /\ DigitsIn(t, a, b) \in Nat
         /\ a > b => DigitsIn(t, a, b) = 0
         /\ a <= b + 1 => DigitsIn(t, a, b + 1) =
              DigitsIn(t, a, b) + (IF IsDigit(t[b + 1]) THEN 1 ELSE 0)
         /\ a <= b => DigitsIn(t, a, b) =
              DigitsIn(t, a + 1, b) + (IF IsDigit(t[a]) THEN 1 ELSE 0)
  <1> DEFINE D(i, j) == {k \in i..j : IsDigit(t[k])}
  <1>1. ASSUME NEW i \in Nat, NEW j \in Nat
        PROVE  /\ IsFiniteSet(D(i, j)) /\ DigitsIn(t, i, j) = Cardinality(D(i, j))
               /\ Cardinality(D(i, j)) \in Nat
    <2>1. IsFiniteSet(i..j)
      BY FS_Interval
    <2>2. D(i, j) \subseteq i..j
      OBVIOUS
    <2>3. IsFiniteSet(D(i, j))
      BY <2>1, <2>2, FS_Subset
    <2>4. DigitsIn(t, i, j) = Cardinality(D(i, j))
      BY DEF DigitsIn
    <2> QED BY <2>3, <2>4, FS_CardinalityType
  <1>2. ASSUME a > b PROVE DigitsIn(t, a, b) = 0
    <2>1. D(a, b) = {}
      BY <1>2
    <2> QED BY <1>1, <2>1, FS_EmptySet
  <1>3. ASSUME a <= b + 1
        PROVE  DigitsIn(t, a, b + 1) =
                 DigitsIn(t, a, b) + (IF IsDigit(t[b + 1]) THEN 1 ELSE 0)
    <2>1. b + 1 \in Nat /\ b + 1 \notin D(a, b)
      OBVIOUS
    <2>0. /\ DigitsIn(t, a, b) = Cardinality(D(a, b)) /\ IsFiniteSet(D(a, b))
          /\ DigitsIn(t, a, b + 1) = Cardinality(D(a, b + 1)) /\ Cardinality(D(a, b)) \in Nat
      BY <1>1, <2>1
    <2>2. CASE IsDigit(t[b + 1])
      <3>1. D(a, b + 1) = D(a, b) \cup {b + 1}
        BY <1>3, <2>2
      <3> HIDE DEF D
      <3> QED BY <2>0, <2>1, <2>2, <3>1, FS_AddElement
    <2>3. CASE ~IsDigit(t[b + 1])
      <3>1. D(a, b + 1) = D(a, b)
        BY <1>3, <2>3
      <3> HIDE DEF D
      <3> QED BY <2>0, <2>3, <3>1
    <2> QED BY <2>2, <2>3
  <1>4. ASSUME a <= b
        PROVE  DigitsIn(t, a, b) =
                 DigitsIn(t, a + 1, b) + (IF IsDigit(t[a]) THEN 1 ELSE 0)
    <2>1. a + 1 \in Nat /\ a \notin D(a + 1, b)
      OBVIOUS
    <2>0. /\ DigitsIn(t, a, b) = Cardinality(D(a, b)) /\ IsFiniteSet(D(a + 1, b))
          /\ DigitsIn(t, a + 1, b) = Cardinality(D(a + 1, b)) /\ Cardinality(D(a + 1, b)) \in Nat
      BY <1>1, <2>1
    <2>2. CASE IsDigit(t[a])
      <3>1. D(a, b) = D(a + 1, b) \cup {a}
        BY <1>4, <2>2
      <3> HIDE DEF D
      <3> QED BY <2>0, <2>1, <2>2, <3>1, FS_AddElement
    <2>3. CASE ~IsDigit(t[a])
      <3>1. D(a, b) = D(a + 1, b)
        BY <1>4, <2>3
      <3> HIDE DEF D
      <3> QED BY <2>0, <2>3, <3>1
    <2> QED BY <2>2, <2>3
  <1> QED BY <1>1, <1>2, <1>3, <1>4

LEMMA FewerDigits ==
  ASSUME NEW t, NEW a \in Nat, NEW b \in Nat, NEW k \in 0..b
  PROVE  DigitsIn(t, a, k) <= DigitsIn(t, a, b)
  <1> DEFINE D(j) == {i \in a..j : IsDigit(t[i])}
  <1>1. IsFiniteSet(a..b) /\ D(b) \subseteq a..b /\ D(k) \subseteq D(b)
    BY FS_Interval
  <1>2. IsFiniteSet(D(b))
    BY <1>1, FS_Subset
  <1>3. Cardinality(D(k)) <= Cardinality(D(b))
    BY <1>1, <1>2, FS_Subset
  <1>4. \A j \in Nat : DigitsIn(t, a, j) = Cardinality(D(j))
    BY DEF DigitsIn
  <1> QED BY <1>3, <1>4

\* Where the fraction begins, and what power of ten a digit counts.
Point(t) == IF Points(t) = {} THEN Len(t) + 1 ELSE Max(Points(t))
Place(t, i) == IF i < Point(t) THEN decimals + DigitsIn(t, i + 1, Point(t) - 1)
               ELSE decimals - DigitsIn(t, Point(t) + 1, i)
Fraction(t) == DigitsIn(t, Point(t) + 1, Len(t))

LEMMA PointIs ==
  ASSUME NEW t \in Seq(STRING)
  PROVE  /\ Point(t) \in 1..(Len(t) + 1) /\ Len(t) \in Nat
         /\ Point(t) \in 1..Len(t) => t[Point(t)] = "." /\ ~IsDigit(t[Point(t)])
         /\ Point(t) = Len(t) + 1 => Points(t) = {}
  <1>1. Points(t) \in SUBSET (1..Len(t)) /\ Len(t) \in Nat
    BY DEF Points
  <1>2. ~IsDigit(".")
    BY ValueIsNatural
  <1>3. CASE Points(t) = {}
    BY <1>1, <1>3 DEF Point
  <1>4. CASE Points(t) # {}
    <2>1. Max(Points(t)) \in Points(t)
      BY <1>1, <1>4, GreatestPlace
    <2>2. Point(t) \in Points(t)
      BY <1>4, <2>1 DEF Point
    <2>3. Point(t) \in 1..Len(t) /\ t[Point(t)] = "."
      BY <2>2 DEF Points
    <2> QED BY <1>1, <1>2, <2>3
  <1> QED BY <1>3, <1>4

LEMMA FractionIs ==
  ASSUME NEW t \in Seq(STRING), decimals \in Nat
  PROVE  /\ Fraction(t) \in Nat
         /\ Place(t, Len(t)) = decimals - Fraction(t)
         /\ Exact(t) <=> Fraction(t) <= decimals
  <1> DEFINE p == Point(t)
             n == Len(t)
  <1>1. p \in 1..(n + 1) /\ n \in Nat /\ (p = n + 1 => Points(t) = {})
    BY PointIs
  <1>2. p + 1 \in Nat /\ n + 1 \in Nat
    BY <1>1
  <1>3. DigitsIn(t, p + 1, n) \in Nat /\ (p + 1 > n => DigitsIn(t, p + 1, n) = 0)
    BY <1>1, <1>2, DigitsInIs
  <1>4. DigitsIn(t, n + 1, n) = 0
    <2>1. n + 1 > n
      BY <1>1
    <2> HIDE DEF n
    <2> QED BY <1>1, <1>2, <2>1, DigitsInIs
  <1>5. CASE p = n + 1
    <2>1. Place(t, n) = decimals
      <3>1. n < p /\ p - 1 = n
        BY <1>1, <1>5
      <3> QED BY <1>4, <3>1 DEF Place
    <2>2. Fraction(t) = 0
      BY <1>1, <1>3, <1>5 DEF Fraction
    <2>3. Exact(t) <=> DigitsIn(t, n + 1, n) <= decimals
      BY <1>1, <1>5 DEF Exact
    <2> QED BY <1>4, <2>1, <2>2, <2>3
  <1>6. CASE p # n + 1
    <2>1. p <= n /\ ~(n < p)
      BY <1>1, <1>6
    <2>2. Place(t, n) = decimals - Fraction(t)
      BY <2>1 DEF Place, Fraction
    <2>3. Points(t) # {} /\ p = Max(Points(t))
      BY <1>6 DEF Point
    <2>4. Exact(t) <=> Fraction(t) <= decimals
      BY <2>3 DEF Exact, Fraction
    <2> QED BY <1>3, <2>2, <2>4 DEF Fraction
  <1> QED BY <1>5, <1>6

\* A digit counts ten times as much as the next; nothing else moves a place.
LEMMA PlaceStep ==
  ASSUME NEW t \in Seq(STRING), decimals \in Nat,
         Fraction(t) <= decimals, NEW k \in 1..Len(t)
  PROVE  /\ Place(t, k) \in Nat
         /\ Place(t, k - 1) = Place(t, k) + (IF IsDigit(t[k]) THEN 1 ELSE 0)
  <1> DEFINE p == Point(t)
             n == Len(t)
             one == IF IsDigit(t[k]) THEN 1 ELSE 0
  <1>1. /\ p \in 1..(n + 1) /\ n \in Nat /\ k \in Nat /\ k - 1 \in Nat /\ k + 1 \in Nat
        /\ p - 1 \in Nat /\ p + 1 \in Nat
    BY PointIs
  <1> HIDE DEF p
  <1>2. CASE k < p
    <2>1. /\ DigitsIn(t, k + 1, p - 1) \in Nat
          /\ DigitsIn(t, k, p - 1) = DigitsIn(t, k + 1, p - 1) + one
      <3>1. k <= p - 1
        BY <1>1, <1>2
      <3> QED BY <1>1, <3>1, DigitsInIs
    <2>2. k - 1 < p /\ (k - 1) + 1 = k
      BY <1>1, <1>2
    <2>3. Place(t, k) = decimals + DigitsIn(t, k + 1, p - 1)
      BY <1>2 DEF Place, p
    <2>4. Place(t, k - 1) = decimals + DigitsIn(t, k, p - 1)
      BY <2>2 DEF Place, p
    <2> QED BY <2>1, <2>3, <2>4
  <1>3. CASE k = p
    <2>1. DigitsIn(t, k + 1, k) = 0 /\ DigitsIn(t, k, k - 1) = 0
      <3>1. k + 1 > k /\ k > k - 1
        BY <1>1
      <3>2. DigitsIn(t, k + 1, k) = 0
        BY <1>1, <3>1, DigitsInIs
      <3> QED BY <1>1, <3>1, <3>2, DigitsInIs
    <2>2. one = 0
      BY <1>1, <1>3, PointIs DEF p
    <2>3. k - 1 < p /\ (k - 1) + 1 = k /\ ~(k < p)
      BY <1>1, <1>3
    <2>4. Place(t, k) = decimals - DigitsIn(t, k + 1, k)
      BY <1>3, <2>3 DEF Place, p
    <2>5. Place(t, k - 1) = decimals + DigitsIn(t, k, k - 1)
      BY <1>3, <2>3 DEF Place, p
    <2> QED BY <2>1, <2>2, <2>4, <2>5
  <1>4. CASE k > p
    <2>1. /\ DigitsIn(t, p + 1, k - 1) \in Nat
          /\ DigitsIn(t, p + 1, k) = DigitsIn(t, p + 1, k - 1) + one
      <3>1. p + 1 <= (k - 1) + 1 /\ (k - 1) + 1 = k
        BY <1>1, <1>4
      <3>2. p + 1 <= (k - 1) + 1 => DigitsIn(t, p + 1, (k - 1) + 1) =
              DigitsIn(t, p + 1, k - 1) + (IF IsDigit(t[(k - 1) + 1]) THEN 1 ELSE 0)
        BY <1>1, DigitsInIs
      <3>3. DigitsIn(t, p + 1, k - 1) \in Nat
        BY <1>1, DigitsInIs
      <3> QED BY <3>1, <3>2, <3>3
    <2>2. DigitsIn(t, p + 1, k) <= Fraction(t)
      <3>1. k \in 0..n
        BY <1>1
      <3> QED BY <1>1, <3>1, FewerDigits DEF Fraction, p
    <2>3. ~(k - 1 < p) /\ ~(k < p)
      BY <1>1, <1>4
    <2>4. Place(t, k) = decimals - DigitsIn(t, p + 1, k)
      BY <2>3 DEF Place, p
    <2>5. Place(t, k - 1) = decimals - DigitsIn(t, p + 1, k - 1)
      BY <2>3 DEF Place, p
    <2>6. Fraction(t) \in Nat
      BY FractionIs
    <2> HIDE DEF one
    <2>7. one \in {0, 1}
      BY DEF one
    <2>8. Place(t, k) \in Nat /\ Place(t, k - 1) = Place(t, k) + one
      BY <2>1, <2>2, <2>4, <2>5, <2>6, <2>7
    <2> QED BY <2>8 DEF one
  <1> QED BY <1>1, <1>2, <1>3, <1>4

\* S is what the digits so far amount to, at every place of t.
Sums(S, t) ==
  /\ S \in [0..Len(t) -> Nat] /\ S[0] = 0
  /\ \A k \in 1..Len(t) :
       S[k] = IF IsDigit(t[k]) THEN S[k - 1] + Value[t[k]] * TenTo[Place(t, k)]
                                       ELSE S[k - 1]

LEMMA MeaningSums ==
  ASSUME NEW t \in Seq(STRING), decimals \in Nat,
         Fraction(t) <= decimals
  PROVE  \E S : Sums(S, t) /\ Meaning(t) = S[Len(t)]
  <1> DEFINE n == Len(t)
             body(v, k) == IF IsDigit(t[k]) THEN v + Value[t[k]] * TenTo[Place(t, k)]
                                                    ELSE v
             Step(f) == [k \in 0..n |-> IF k = 0 THEN 0 ELSE body(f[k - 1], k)]
             upTo == CHOOSE f : f = Step(f)
             op == [v \in Nat |-> [k \in 1..n |-> body(v, k)]]
  <1>0. 0 \in Nat
    OBVIOUS
  <1>1. n \in Nat
    OBVIOUS
  <1>2. Meaning(t) = upTo[n]
    BY DEF Meaning, Place, Point
  <1>3. ASSUME NEW v \in Nat, NEW k \in 1..n PROVE body(v, k) \in Nat
    <2>1. CASE IsDigit(t[k])
      <3>1. Value[t[k]] \in Nat
        BY <2>1, ValueIsNatural
      <3>2. TenTo[Place(t, k)] \in Nat
        BY PlaceStep, TenToIs
      <3>3. Value[t[k]] * TenTo[Place(t, k)] \in Nat
        BY <3>1, <3>2
      <3> QED BY <2>1, <3>3
    <2>2. CASE ~IsDigit(t[k])
      BY <2>2
    <2> QED BY <2>1, <2>2
  <1> HIDE DEF n, body
  <1>4. op \in [Nat -> [1..n -> Nat]]
    BY <1>3
  <1> HIDE DEF op
  <1>5. PICK f : Unfolds(f, n, Nat, 0, op)
    <2>1. Recursive(n, Nat, 0, op)
      BY <1>0, <1>1, <1>4 DEF Recursive
    <2> QED BY <2>1, Recursion, Zenon
  <1>6. f = Step(f)
    <2>1. ASSUME NEW k \in 0..n PROVE f[k] = Step(f)[k]
      <3>1. CASE k = 0
        BY <1>5, <3>1 DEF Unfolds
      <3>2. CASE k # 0
        <4>1. k \in 1..n /\ f[k - 1] \in Nat
          BY <1>1, <1>5, <3>2 DEF Unfolds
        <4> QED BY <1>5, <3>2, <4>1 DEF op, Unfolds
      <3> QED BY <3>1, <3>2
    <2> QED BY <1>5, <2>1 DEF Unfolds
  <1> HIDE DEF Step
  <1>7. upTo = Step(upTo)
    BY <1>6
  <1> HIDE DEF upTo
  <1>8. upTo[0] = 0 /\ \A k \in 1..n : upTo[k] = body(upTo[k - 1], k)
    BY <1>1, <1>7 DEF Step
  <1> DEFINE T == {k \in 0..n : upTo[k] \in Nat}
  <1>9. 0 \in T /\ \A k \in 0..(n - 1) : k \in T => k + 1 \in T
    <2>1. ASSUME NEW k \in 0..(n - 1), k \in T PROVE k + 1 \in T
      <3>1. k + 1 \in 1..n /\ (k + 1) - 1 = k /\ k + 1 \in 0..n
        BY <1>1
      <3> QED BY <1>3, <1>8, <2>1, <3>1
    <2> QED BY <1>1, <1>8, <2>1
  <1> HIDE DEF T
  <1>10. 0..n \subseteq T
    BY <1>1, <1>9, UpTo
  <1>11. upTo \in [0..n -> Nat]
    <2>1. upTo = [k \in 0..n |-> upTo[k]]
      BY <1>7 DEF Step
    <2> QED BY <1>10, <2>1 DEF T
  <1> QED BY <1>2, <1>8, <1>11 DEF Sums, body, n

\* Read digit by digit or place by place: the same amount.
LEMMA MeaningIs ==
  ASSUME NEW t \in Seq(STRING), decimals \in Nat,
         Fraction(t) <= decimals
  PROVE  Meaning(t) = mantissa(t) * TenTo[decimals - Fraction(t)]
  <1> DEFINE n == Len(t)
  <1>1. PICK M : Reads(M, t) /\ mantissa(t) = M[n]
    BY MantissaReads
  <1>2. PICK S : Sums(S, t) /\ Meaning(t) = S[n]
    BY MeaningSums
  <1>3. n \in Nat
    OBVIOUS
  <1> DEFINE T == {k \in 0..n : S[k] = M[k] * TenTo[Place(t, k)]}
  <1>4. ASSUME NEW k \in 0..n PROVE Place(t, k) \in Nat /\ TenTo[Place(t, k)] \in Nat
    <2>1. CASE k = n
      <3>1. Fraction(t) \in Nat /\ Place(t, n) = decimals - Fraction(t)
        BY FractionIs
      <3>2. Place(t, k) \in Nat
        BY <2>1, <3>1
      <3> QED BY <3>2, TenToIs
    <2>2. CASE k # n
      <3>1. k + 1 \in 1..n /\ (k + 1) - 1 = k
        BY <1>3, <2>2
      <3>2. /\ Place(t, k + 1) \in Nat
            /\ Place(t, k) = Place(t, k + 1) + (IF IsDigit(t[k + 1]) THEN 1 ELSE 0)
        <4> HIDE DEF n
        <4>1. \A j \in 1..n : /\ Place(t, j) \in Nat
                 /\ Place(t, j - 1) = Place(t, j) + (IF IsDigit(t[j]) THEN 1 ELSE 0)
          BY PlaceStep DEF n
        <4> QED BY <3>1, <4>1
      <3>3. Place(t, k) \in Nat
        BY <3>2
      <3> QED BY <3>3, TenToIs
    <2> QED BY <2>1, <2>2
  <1>5. 0 \in T
    <2>1. TenTo[Place(t, 0)] \in Nat /\ S[0] = 0 /\ M[0] = 0
      BY <1>1, <1>2, <1>3, <1>4 DEF Reads, Sums
    <2> QED BY <1>3, <2>1
  <1>6. ASSUME NEW k \in 0..(n - 1), k \in T PROVE k + 1 \in T
    <2> DEFINE c == t[k + 1]
               e == Place(t, k + 1)
    <2>1. k + 1 \in 1..n /\ (k + 1) - 1 = k /\ k + 1 \in 0..n /\ k \in 0..n
      BY <1>3
    <2>2. M[k + 1] = IF IsDigit(c) THEN 10 * M[k] + Value[c] ELSE M[k]
      BY <1>1, <2>1 DEF Reads
    <2>3. S[k + 1] = IF IsDigit(c) THEN S[k] + Value[c] * TenTo[e] ELSE S[k]
      BY <1>2, <2>1 DEF Sums
    <2>4. e \in Nat /\ Place(t, k) = e + (IF IsDigit(c) THEN 1 ELSE 0)
      <3> HIDE DEF n
      <3>1. \A j \in 1..n : /\ Place(t, j) \in Nat
               /\ Place(t, j - 1) = Place(t, j) + (IF IsDigit(t[j]) THEN 1 ELSE 0)
        BY PlaceStep DEF n
      <3> QED BY <2>1, <3>1
    <2>5. M[k] \in Nat /\ TenTo[e] \in Nat
      <3>1. M[k] \in Nat
        BY <1>1, <2>1 DEF Reads
      <3> QED BY <1>4, <2>1, <3>1
    <2>6. S[k] = M[k] * TenTo[Place(t, k)]
      BY <1>6
    <2> HIDE DEF c, e
    <2>7. CASE IsDigit(c)
      <3>1. Value[c] \in Nat
        BY <2>7, ValueIsNatural
      <3>2. TenTo[Place(t, k)] = 10 * TenTo[e]
        BY <2>4, <2>7, TenToIs
      <3>3. \A x, y, z \in Nat : x * (10 * y) + z * y = (10 * x + z) * y
        OBVIOUS
      <3>4. S[k + 1] = M[k] * (10 * TenTo[e]) + Value[c] * TenTo[e]
        BY <2>3, <2>6, <2>7, <3>2
      <3>5. M[k + 1] = 10 * M[k] + Value[c]
        BY <2>2, <2>7
      <3>6. S[k + 1] = M[k + 1] * TenTo[e]
        BY <2>5, <3>1, <3>3, <3>4, <3>5
      <3> QED BY <2>1, <3>6 DEF e
    <2>8. CASE ~IsDigit(c)
      <3>1. S[k + 1] = M[k + 1] * TenTo[e]
        BY <2>2, <2>3, <2>4, <2>6, <2>8
      <3> QED BY <2>1, <3>1 DEF e
    <2> QED BY <2>7, <2>8
  <1> HIDE DEF T
  <1>7. 0..n \subseteq T
    BY <1>3, <1>5, <1>6, UpTo
  <1>8. S[n] = M[n] * TenTo[Place(t, n)]
    BY <1>3, <1>7 DEF T
  <1>9. Place(t, n) = decimals - Fraction(t)
    BY FractionIs
  <1> QED BY <1>1, <1>2, <1>8, <1>9

----------------------------------------------------------------------------
(* A price in the documented format: what of its characters matters.        *)
Price(t) ==
  /\ \A i \in 1..Len(t) : IsDigit(t[i]) \/ t[i] \in {".", ",", "$"}
  /\ \E i \in 1..Len(t) : IsDigit(t[i])
  /\ \A i, j \in Points(t) : i = j

LEMMA DocumentedPrice ==
  ASSUME NEW t \in Seq(STRING), Documented(t)
  PROVE  Price(t)
  <1> DEFINE n == Len(t)
             body == IF t # <<>> /\ t[1] = "$" THEN Tail(t) ELSE t
  <1>1. /\ body # <<>> /\ IsDigit(body[1])
        /\ Cardinality(Points(body)) <= 1
        /\ \A i \in DOMAIN body : IsDigit(body[i]) \/ body[i] \in {".", ","}
    BY DEF Documented
  <1>2. n \in Nat /\ DOMAIN t = 1..n
    OBVIOUS
  <1>3. PICK o \in {0, 1} :
          /\ body \in Seq(STRING) /\ Len(body) = n - o
          /\ \A i \in 1..(n - o) : body[i] = t[i + o]
          /\ \A i \in 1..o : i <= n /\ t[i] = "$"
    <2>1. CASE t # <<>> /\ t[1] = "$"
      <3>1. body = Tail(t) /\ n >= 1
        BY <2>1
      <3>2. /\ Tail(t) \in Seq(STRING) /\ Len(Tail(t)) = n - 1
            /\ \A i \in 1..(n - 1) : Tail(t)[i] = t[i + 1]
        BY <3>1
      <3>3. \A i \in 1..1 : i <= n /\ t[i] = "$"
        BY <2>1, <3>1
      <3> HIDE DEF body, n
      <3>4. 1 \in {0, 1}
        OBVIOUS
      <3> QED BY <3>1, <3>2, <3>3, <3>4
    <2>2. CASE ~(t # <<>> /\ t[1] = "$")
      <3>1. body = t
        BY <2>2
      <3>2. /\ 0 \in {0, 1} /\ t \in Seq(STRING) /\ Len(t) = n - 0
            /\ \A i \in 1..(n - 0) : t[i] = t[i + 0]
            /\ \A i \in 1..0 : i <= n /\ t[i] = "$"
        OBVIOUS
      <3> HIDE DEF body, n
      <3> QED BY <3>1, <3>2
    <2> QED BY <2>1, <2>2
  <1> HIDE DEF body
  <1>4. n - o \in Nat /\ n - o >= 1 /\ DOMAIN body = 1..(n - o)
    <2>1. Len(body) \in Nat /\ DOMAIN body = 1..Len(body) /\ (Len(body) = 0 => body = <<>>)
      BY <1>3
    <2>2. Len(body) # 0 /\ Len(body) = n - o
      BY <1>1, <1>3, <2>1
    <2> HIDE DEF n
    <2> QED BY <1>2, <2>1, <2>2
  <1> HIDE DEF n
  <1>5. ASSUME NEW i \in 1..n, i # o
        PROVE  i - o \in 1..(n - o) /\ t[i] = body[i - o]
    <2>1. i - o \in 1..(n - o) /\ (i - o) + o = i
      BY <1>2, <1>3, <1>5
    <2> QED BY <1>3, <2>1
  <1>6. ASSUME NEW i \in 1..n, i = o PROVE t[i] = "$"
    BY <1>3, <1>6
  <1>7. \A i \in 1..n : IsDigit(t[i]) \/ t[i] \in {".", ",", "$"}
    BY <1>1, <1>4, <1>5, <1>6
  <1>8. \E i \in 1..n : IsDigit(t[i])
    <2>1. 1 \in 1..(n - o) /\ 1 + o \in 1..n
      BY <1>2, <1>3, <1>4
    <2>2. t[1 + o] = body[1]
      BY <1>3, <2>1
    <2> QED BY <1>1, <2>1, <2>2
  <1>9. ASSUME NEW i \in Points(t), NEW j \in Points(t) PROVE i = j
    <2>1. i \in 1..n /\ t[i] = "." /\ j \in 1..n /\ t[j] = "."
      BY <1>2 DEF Points
    <2>2. i # o /\ j # o
      BY <1>6, <2>1
    <2>3. i - o \in Points(body) /\ j - o \in Points(body)
      BY <1>4, <1>5, <2>1, <2>2 DEF Points
    <2>4. Points(body) \subseteq 1..(n - o)
      BY <1>4 DEF Points
    <2>5. IsFiniteSet(Points(body)) /\ Cardinality(Points(body)) <= 1
      <3>1. IsFiniteSet(1..(n - o))
        BY <1>4, FS_Interval
      <3> QED BY <1>1, <2>4, <3>1, FS_Subset
    <2>6. i - o = j - o
      <3> DEFINE a == i - o
                 b == j - o
                 P == Points(body)
      <3>1. a \in P /\ b \in P /\ IsFiniteSet(P) /\ Cardinality(P) <= 1
        BY <2>3, <2>5
      <3> HIDE DEF a, b, P
      <3>2. IsFiniteSet(P \ {a}) /\ Cardinality(P \ {a}) = Cardinality(P) - 1
        BY <3>1, FS_RemoveElement
      <3>3. Cardinality(P) \in Nat /\ Cardinality(P \ {a}) \in Nat
        BY <3>1, <3>2, FS_CardinalityType
      <3>4. Cardinality(P \ {a}) = 0
        BY <3>1, <3>2, <3>3
      <3>5. P \ {a} = {}
        BY <3>2, <3>4, FS_EmptySet
      <3>6. a = b
        BY <3>1, <3>5
      <3> QED BY <3>6 DEF a, b
    <2> QED BY <1>2, <1>3, <2>1, <2>6
  <1> QED BY <1>7, <1>8, <1>9 DEF Price, n

\* What is kept of a price is a number without a sign, with its fraction.
LEMMA CleanedPrice ==
  ASSUME NEW t \in Seq(STRING), Price(t)
  PROVE  /\ IsNumber(Cleaned(t)) /\ Signs(Cleaned(t)) = {}
         /\ scale(Cleaned(t)) = Fraction(t)
  <1> DEFINE n == Len(t)
             p == Point(t)
  <1>1. PICK C : Keeps(C, t) /\ Cleaned(t) = C[n]
    BY CleanedKeeps
  <1>2. /\ p \in 1..(n + 1) /\ n \in Nat /\ (p \in 1..n => t[p] = ".")
        /\ (p = n + 1 => Points(t) = {})
    BY PointIs
  <1>3. ASSUME NEW k \in 1..n PROVE t[k] = "." <=> k = p
    <2>1. t[k] = "." => k \in Points(t)
      BY DEF Points
    <2>2. p \in 1..n => p \in Points(t)
      BY <1>2 DEF Points
    <2>3. \A i, j \in Points(t) : i = j
      BY DEF Price
    <2> HIDE DEF p, n
    <2>4. CASE k = p
      BY <1>2, <2>4
    <2>5. CASE t[k] = "."
      <3>1. k \in Points(t)
        BY <2>1, <2>5
      <3>2. p # n + 1
        BY <1>2, <3>1
      <3>3. p \in Points(t)
        BY <1>2, <2>2, <3>2
      <3> QED BY <2>3, <2>5, <3>1, <3>3
    <2> QED BY <2>4, <2>5
  <1> DEFINE Read(k) == \A i \in 1..Len(C[k]) : IsDigit(C[k][i]) \/ C[k][i] = "."
             Found(k) == (\E j \in 1..k : IsDigit(t[j])) =>
                            \E i \in 1..Len(C[k]) : IsDigit(C[k][i])
             NoPoint(k) == k < p => \A i \in 1..Len(C[k]) : C[k][i] # "."
             OnePoint(k) == p <= k =>
               /\ Len(C[p]) \in 1..Len(C[k]) /\ C[k][Len(C[p])] = "."
               /\ \A i \in 1..Len(C[k]) : C[k][i] = "." => i = Len(C[p])
               /\ Len(C[k]) = Len(C[p]) + DigitsIn(t, p + 1, k)
             T == {k \in 0..n : Read(k) /\ Found(k) /\ NoPoint(k) /\ OnePoint(k)}
  <1>4. 0 \in T
    <2>1. C[0] = <<>> /\ ~(p <= 0)
      BY <1>1, <1>2 DEF Keeps
    <2> QED BY <1>2, <2>1
  <1>5. ASSUME NEW k \in 0..(n - 1), k \in T PROVE k + 1 \in T
    <2> DEFINE c == t[k + 1]
               s == C[k]
               m == Len(s)
    <2>1. k + 1 \in 1..n /\ (k + 1) - 1 = k /\ c \in STRING /\ s \in Seq(STRING) /\ m \in Nat
      BY <1>1, <1>2 DEF Keeps
    <2>2. C[k + 1] = IF Kept(c) THEN Append(s, c) ELSE s
      BY <1>1, <2>1 DEF Keeps
    <2>3. /\ Len(Append(s, c)) = m + 1 /\ Append(s, c)[m + 1] = c
          /\ \A i \in 1..m : Append(s, c)[i] = s[i]
      BY <2>1
    <2>4. c = "." <=> k + 1 = p
      BY <1>3, <2>1
    <2>5. IsDigit(c) => c # "."
      BY ValueIsNatural
    <2>6. IsDigit(c) \/ c \in {".", ",", "$"}
      BY <2>1 DEF Price
    <2>7. Kept(c) <=> IsDigit(c) \/ c = "."
      BY <2>6 DEF Kept
    <2>8. p <= k => DigitsIn(t, p + 1, k + 1) =
                      DigitsIn(t, p + 1, k) + (IF IsDigit(c) THEN 1 ELSE 0)
      <3> HIDE DEF p, n
      <3>1. p + 1 \in Nat /\ k \in Nat /\ (p <= k => p + 1 <= k + 1)
        BY <1>2, <2>1
      <3> QED BY <3>1, DigitsInIs
    <2>9. DigitsIn(t, p + 1, p) = 0
      <3> HIDE DEF p, n
      <3>1. p + 1 \in Nat /\ p \in Nat /\ p + 1 > p
        BY <1>2
      <3> QED BY <3>1, DigitsInIs
    <2>10. Read(k) /\ Found(k) /\ NoPoint(k) /\ OnePoint(k)
      BY <1>5
    <2> HIDE DEF n, p, c
    <2>11. CASE Kept(c)
      <3>1. C[k + 1] = Append(s, c) /\ Len(C[k + 1]) = m + 1
        BY <2>2, <2>3, <2>11
      <3>2. ASSUME NEW i \in 1..(m + 1)
            PROVE  C[k + 1][i] = IF i = m + 1 THEN c ELSE s[i]
        <4>1. i = m + 1 \/ i \in 1..m
          BY <2>1
        <4>2. i = m + 1 => i \notin 1..m
          BY <2>1
        <4> HIDE DEF m, s
        <4> QED BY <2>3, <3>1, <4>1, <4>2
      <3>3. Read(k + 1)
        BY <2>1, <2>7, <2>10, <2>11, <3>1, <3>2
      <3>4. Found(k + 1)
        <4>1. CASE IsDigit(c)
          <5>1. m + 1 \in 1..(m + 1)
            BY <2>1
          <5>2. C[k + 1][m + 1] = c
            BY <3>2, <5>1
          <5> QED BY <3>1, <4>1, <5>1, <5>2
        <4>2. CASE ~IsDigit(c)
          <5> SUFFICES ASSUME NEW j \in 1..(k + 1), IsDigit(t[j])
                       PROVE  \E i \in 1..(m + 1) : IsDigit(C[k + 1][i])
            BY <3>1
          <5>1. j \in 1..k
            BY <2>1, <4>2 DEF c
          <5>2. PICK i \in 1..m : IsDigit(s[i])
            BY <2>10, <5>1
          <5>3. i \in 1..(m + 1) /\ i # m + 1
            BY <2>1
          <5>4. C[k + 1][i] = s[i]
            BY <3>2, <5>3
          <5> QED BY <5>2, <5>3, <5>4
        <4> QED BY <4>1, <4>2
      <3>5. NoPoint(k + 1)
        BY <1>2, <2>1, <2>4, <2>10, <3>1, <3>2
      <3>6. OnePoint(k + 1)
        <4>1. CASE k + 1 = p
          <5>1. Len(C[p]) = m + 1
            BY <3>1, <4>1
          <5>2. \A i \in 1..m : s[i] # "."
            BY <1>2, <2>1, <2>10, <4>1
          <5>3. C[k + 1][m + 1] = "."
            BY <2>1, <2>4, <3>2, <4>1
          <5>4. \A i \in 1..(m + 1) : C[k + 1][i] = "." => i = m + 1
            BY <2>1, <3>2, <5>2
          <5>5. m + 1 \in 1..(m + 1) /\ m + 1 = (m + 1) + DigitsIn(t, p + 1, k + 1)
            BY <2>1, <2>9, <4>1
          <5> QED BY <3>1, <5>1, <5>3, <5>4, <5>5
        <4>2. CASE p <= k
          <5>1. IsDigit(c) /\ c # "."
            BY <1>2, <2>1, <2>4, <2>7, <2>11, <4>2
          <5> DEFINE q == Len(C[p])
                     d == DigitsIn(t, p + 1, k)
          <5>2. /\ q \in 1..m /\ s[q] = "." /\ (\A i \in 1..m : s[i] = "." => i = q)
                /\ m = q + d
            BY <2>10, <4>2
          <5>3. DigitsIn(t, p + 1, k + 1) = d + 1 /\ d \in Nat
            <6>1. p + 1 \in Nat /\ k \in Nat
              BY <1>2, <2>1
            <6> QED BY <2>8, <4>2, <5>1, <6>1, DigitsInIs
          <5> HIDE DEF q, d
          <5>4. q \in 1..(m + 1) /\ C[k + 1][q] = "."
            <6>1. q \in 1..(m + 1) /\ q # m + 1
              BY <2>1, <5>2
            <6> QED BY <3>2, <5>2, <6>1
          <5>5. ASSUME NEW i \in 1..(m + 1), C[k + 1][i] = "." PROVE i = q
            <6>1. i # m + 1
              BY <3>2, <5>1, <5>5
            <6>2. i \in 1..m
              BY <2>1, <6>1
            <6> QED BY <3>2, <5>2, <5>5, <6>1, <6>2
          <5>6. m + 1 = q + (d + 1)
            BY <2>1, <5>2, <5>3
          <5> QED BY <3>1, <5>3, <5>4, <5>5, <5>6 DEF q
        <4>3. CASE k + 1 < p
          <5>1. ~(p <= k + 1)
            BY <1>2, <2>1, <4>3
          <5> QED BY <5>1
        <4> QED BY <1>2, <2>1, <4>1, <4>2, <4>3
      <3> HIDE DEF Read, Found, NoPoint, OnePoint
      <3>7. k + 1 \in 0..n
        BY <1>2, <2>1
      <3> QED BY <3>3, <3>4, <3>5, <3>6, <3>7
    <2>12. CASE ~Kept(c)
      <3>1. C[k + 1] = s /\ ~IsDigit(c) /\ k + 1 # p
        BY <2>2, <2>4, <2>7, <2>12
      <3>2. Read(k + 1)
        BY <2>10, <3>1
      <3>3. Found(k + 1)
        <4> SUFFICES ASSUME NEW j \in 1..(k + 1), IsDigit(t[j])
                     PROVE  \E i \in 1..m : IsDigit(s[i])
          BY <3>1
        <4>1. j \in 1..k
          BY <2>1, <3>1 DEF c
        <4> QED BY <2>10, <4>1
      <3>4. NoPoint(k + 1)
        BY <1>2, <2>1, <2>10, <3>1
      <3>5. OnePoint(k + 1)
        <4>1. p <= k + 1 => p <= k
          BY <1>2, <2>1, <3>1
        <4>2. p <= k => DigitsIn(t, p + 1, k + 1) = DigitsIn(t, p + 1, k)
          <5>1. p + 1 \in Nat /\ k \in Nat
            BY <1>2, <2>1
          <5>2. DigitsIn(t, p + 1, k) \in Nat
            BY <5>1, DigitsInIs
          <5> QED BY <2>8, <3>1, <5>2
        <4> QED BY <2>10, <3>1, <4>1, <4>2
      <3> HIDE DEF Read, Found, NoPoint, OnePoint
      <3>6. k + 1 \in 0..n
        BY <1>2, <2>1
      <3> QED BY <3>2, <3>3, <3>4, <3>5, <3>6
    <2> QED BY <2>11, <2>12
  <1> HIDE DEF T
  <1>6. 0..n \subseteq T
    BY <1>2, <1>4, <1>5, UpTo
  <1> DEFINE u == C[n]
  <1>7. Read(n) /\ Found(n) /\ NoPoint(n) /\ OnePoint(n)
    BY <1>2, <1>6 DEF T
  <1>8. u \in Seq(STRING) /\ DOMAIN u = 1..Len(u) /\ Len(u) \in Nat
    BY <1>1, <1>2 DEF Keeps
  <1>9. Signs(u) = {}
    <2>1. ~IsDigit("-")
      BY ValueIsNatural
    <2> QED BY <1>7, <1>8, <2>1 DEF Signs
  <1>10. \E i \in DOMAIN u : IsDigit(u[i])
    BY <1>7, <1>8 DEF Price
  <1>11. CASE p = n + 1
    <2>1. n < p
      BY <1>2, <1>11
    <2>2. Points(u) = {}
      BY <1>7, <1>8, <2>1 DEF Points
    <2>3. Fraction(t) = 0
      <3>1. p + 1 \in Nat /\ p + 1 > n
        BY <1>2, <1>11
      <3> HIDE DEF p, n
      <3> QED BY <1>2, <3>1, DigitsInIs DEF Fraction, p, n
    <2>4. scale(u) = 0 /\ IsNumber(u)
      BY <1>7, <1>8, <1>9, <1>10, <2>2 DEF scale, IsNumber
    <2> QED BY <1>1, <1>9, <2>3, <2>4
  <1>12. CASE p # n + 1
    <2> DEFINE q == Len(C[p])
    <2>1. p <= n
      BY <1>2, <1>12
    <2>2. /\ q \in 1..Len(u) /\ u[q] = "." /\ (\A i \in 1..Len(u) : u[i] = "." => i = q)
          /\ Len(u) = q + Fraction(t)
      BY <1>7, <2>1 DEF Fraction
    <2> HIDE DEF q
    <2>3. Points(u) = {q}
      BY <1>8, <2>2 DEF Points
    <2>4. Max({q}) = q
      <3>1. {q} \in SUBSET (1..Len(u)) /\ {q} # {}
        BY <2>2
      <3>2. Max({q}) \in {q}
        BY <1>8, <3>1, GreatestPlace
      <3> QED BY <3>2
    <2>5. scale(u) = Len(u) - q
      BY <2>3, <2>4 DEF scale
    <2>6. Fraction(t) \in Nat
      <3>1. p + 1 \in Nat
        BY <1>2
      <3> QED BY <1>2, <3>1, DigitsInIs DEF Fraction
    <2>7. scale(u) = Fraction(t)
      BY <1>8, <2>2, <2>5, <2>6
    <2>8. IsNumber(u)
      BY <1>7, <1>8, <1>9, <1>10, <2>3 DEF IsNumber
    <2> QED BY <1>1, <1>9, <2>7, <2>8
  <1> QED BY <1>11, <1>12

\* MIN and MAX hold of a number just when they hold of its amount.
LEMMA ScaledBounds ==
  ASSUME NEW m \in Nat, NEW f \in Nat, NEW d \in Nat, f <= d,
         NEW least \in Nat, NEW most \in Nat
  PROVE  /\ m * TenTo[least] >= TenTo[f] <=>
              m * TenTo[d - f] >= TenTo[IF d > least THEN d - least ELSE 0]
         /\ m <= most * TenTo[f] <=> m * TenTo[d - f] <= most * TenTo[d]
  <1>1. d - f \in Nat /\ (d - f) + f = d
    OBVIOUS
  <1> DEFINE x == TenTo[f]
             y == TenTo[d - f]
             z == TenTo[least]
  <1>2. x \in Nat \ {0} /\ y \in Nat \ {0} /\ z \in Nat \ {0}
    BY <1>1, TenToIs
  <1>3. TenTo[d] = y * x
    BY <1>1, TenToSum
  <1>4. \A a, b \in Nat : \A c \in Nat \ {0} : a * c <= b * c <=> a <= b
    BY TimesKeeps
  <1> HIDE DEF x, y, z
  <1>5. m <= most * x <=> m * y <= most * (y * x)
    <2>1. most * x \in Nat /\ most * (y * x) = (most * x) * y
      BY <1>2
    <2> QED BY <1>2, <1>4, <2>1
  <1>6. CASE d > least
    <2> DEFINE w == TenTo[d - least]
    <2>1. d - least \in Nat /\ (d - least) + least = d
      BY <1>6
    <2>2. w \in Nat \ {0} /\ w * z = y * x
      BY <1>3, <2>1, TenToIs, TenToSum DEF z
    <2> HIDE DEF w
    <2>3. m * z >= x <=> m * y >= w
      <3>1. m * z >= x <=> x * y <= (m * z) * y
        <4>1. m * z \in Nat
          BY <1>2
        <4> QED BY <1>2, <1>4, <4>1
      <3>2. m * y >= w <=> w * z <= (m * y) * z
        <4>1. m * y \in Nat
          BY <1>2
        <4> QED BY <1>2, <1>4, <2>2, <4>1
      <3>3. (m * z) * y = (m * y) * z /\ x * y = y * x
        BY <1>2
      <3> QED BY <2>2, <3>1, <3>2, <3>3
    <2> QED BY <1>3, <1>5, <1>6, <2>3 DEF w, x, y, z
  <1>7. CASE ~(d > least)
    <2>1. TenTo[0] = 1
      BY TenToIs
    <2>2. z >= x
      <3>1. least - f \in Nat /\ f + (least - f) = least
        BY <1>7
      <3> DEFINE v == TenTo[least - f]
      <3>2. v \in Nat \ {0}
        BY <3>1, TenToIs
      <3>3. z = x * v
        BY <3>1, TenToSum DEF x, z
      <3> HIDE DEF v
      <3>4. x * v >= x
        BY <1>2, <3>2, TimesGrows
      <3> QED BY <3>3, <3>4
    <2>3. m * z >= x <=> m # 0
      <3>1. m # 0 => m * z >= z /\ m * z \in Nat
        BY <1>2, TimesGrows
      <3>2. m = 0 => m * z = 0
        BY <1>2
      <3> QED BY <1>2, <2>2, <3>1, <3>2
    <2>4. m * y >= 1 <=> m # 0
      <3>1. m # 0 => m * y >= y /\ m * y \in Nat
        BY <1>2, TimesGrows
      <3>2. m = 0 => m * y = 0
        BY <1>2
      <3> QED BY <1>2, <3>1, <3>2
    <2> QED BY <1>3, <1>5, <1>7, <2>1, <2>3, <2>4 DEF x, y, z
  <1> QED BY <1>6, <1>7

LEMMA SaysExactly ==
  ASSUME PricesInv
  PROVE  DocumentedIsExact
  <1>1. /\ text \in Seq(STRING) /\ decimals \in Nat
        /\ MinPlaces \in Nat /\ MAX \in Nat
    BY MoneyAssumption DEF PricesInv
  <1> DEFINE least == TenTo[IF decimals > MinPlaces THEN decimals - MinPlaces ELSE 0]
             most == MAX * TenTo[decimals]
             meaning == Meaning(text)
             c == Cleaned(text)
             d == from_str(c)
             m == mantissa(text)
             f == Fraction(text)
  <1>2. SUFFICES ASSUME Documented(text), amount # Unparsed, Roomy \/ FitsDecimal(c)
                 PROVE  amount = IF Exact(text) /\ meaning >= least /\ meaning <= most
                                 THEN Amount(meaning) ELSE Failed
    BY DEF DocumentedIsExact
  <1>3. amount = Eip155Says
    BY <1>2 DEF PricesInv
  <1>4. Price(text)
    BY <1>1, <1>2, DocumentedPrice
  <1>5. /\ IsNumber(c) /\ Signs(c) = {} /\ scale(c) = f
        /\ mantissa(c) = m /\ c \in Seq(STRING)
    BY <1>1, <1>4, CleanedPrice, MantissaOfCleaned
  <1>6. f \in Nat /\ (Exact(text) <=> f <= decimals)
    BY <1>1, FractionIs
  <1>7. m \in Nat
    <2>1. PICK M : Reads(M, text) /\ mantissa(text) = M[Len(text)]
      BY <1>1, MantissaReads
    <2> QED BY <1>1, <2>1 DEF Reads
  <1>8. parse(text) = IF d.ok /\ InRange(d) THEN d ELSE Refused
    BY <1>5 DEF parse
  <1>9. d = IF FitsDecimal(c) THEN Decimal(m, f) ELSE Rounded(c)
    BY <1>5 DEF from_str
  <1>10. f <= decimals => meaning = m * TenTo[decimals - f]
    BY <1>1, MeaningIs
  <1> HIDE DEF c, d, m, f, meaning
  <1>11. amount = IF d.ok /\ InRange(d) /\ ~(d.scale > decimals)
                  THEN Amount(d.mantissa * TenTo[decimals - d.scale]) ELSE Failed
    <2>1. CASE d.ok /\ InRange(d)
      BY <1>3, <1>8, <2>1 DEF Eip155Says, TooPrecise
    <2>2. CASE ~(d.ok /\ InRange(d))
      <3>1. parse(text).ok = FALSE
        BY <1>8, <2>2 DEF Refused
      <3> QED BY <1>3, <2>2, <3>1 DEF Eip155Says
    <2> QED BY <2>1, <2>2
  <1>12. CASE FitsDecimal(c)
    <2>1. d.ok = TRUE /\ d.mantissa = m /\ d.scale = f
      BY <1>9, <1>12 DEF Decimal
    <2> DEFINE ok == m * TenTo[MinPlaces] >= TenTo[f] /\ m <= MAX * TenTo[f]
    <2>2. InRange(d) <=> ok
      BY <2>1 DEF InRange
    <2> HIDE DEF ok
    <2>3. amount = IF ok /\ ~(f > decimals) THEN Amount(m * TenTo[decimals - f])
                   ELSE Failed
      BY <1>11, <2>1, <2>2
    <2>4. CASE f > decimals
      <3>1. ~Exact(text)
        BY <1>1, <1>6, <2>4
      <3> QED BY <2>3, <2>4, <3>1
    <2>5. CASE ~(f > decimals)
      <3>1. f <= decimals
        BY <1>1, <1>6, <2>5
      <3>2. meaning = m * TenTo[decimals - f]
        BY <1>10, <3>1
      <3>3. ok <=> meaning >= least /\ meaning <= most
        BY <1>1, <1>6, <1>7, <3>1, <3>2, ScaledBounds DEF ok
      <3> HIDE DEF least, most
      <3> QED BY <1>6, <2>3, <2>5, <3>1, <3>2, <3>3
    <2> QED BY <2>4, <2>5
  \* Such a token is given by Decimals that are not full: refused either way.
  <1>13. CASE ~FitsDecimal(c) /\ Roomy
    <2>1. /\ decimals < MaxScale /\ 10 * (most + 1) <= Limit
          /\ Limit \in Nat /\ MaxScale \in Nat
      BY <1>13, DecimalBounds DEF Roomy
    <2>2. most \in Nat /\ TenTo[decimals] \in Nat \ {0}
      <3>1. TenTo[decimals] \in Nat \ {0}
        BY <1>1, TenToIs
      <3>2. \A x \in Nat \ {0} : MAX * x \in Nat
        BY <1>1
      <3> QED BY <3>1, <3>2
    <2>3. /\ d.mantissa \in Nat /\ d.scale \in Nat
          /\ d.ok /\ d.scale < MaxScale => Limit <= 10 * d.mantissa + 9
      BY <1>5, <1>9, <1>13, RoundedIs
    <2>4. amount = Failed
      <3>1. SUFFICES ASSUME d.ok, InRange(d), ~(d.scale > decimals) PROVE FALSE
        BY <1>11
      <3>2. d.mantissa > most
        <4> HIDE DEF most
        <4> QED BY <1>1, <2>1, <2>2, <2>3, <3>1
      <3>3. d.mantissa <= MAX * TenTo[d.scale]
        BY <3>1 DEF InRange
      <3>4. MAX * TenTo[d.scale] \in Nat /\ MAX * TenTo[d.scale] <= most
        <4>1. decimals - d.scale \in Nat /\ d.scale + (decimals - d.scale) = decimals
          BY <1>1, <2>3, <3>1
        <4> DEFINE x == TenTo[d.scale]
                   y == TenTo[decimals - d.scale]
        <4>2. x \in Nat \ {0} /\ y \in Nat \ {0}
          BY <2>3, <4>1, TenToIs
        <4>3. TenTo[decimals] = x * y
          BY <2>3, <4>1, TenToSum
        <4>4. x * y >= x /\ x * y \in Nat
          BY <4>2, TimesGrows
        <4> HIDE DEF x, y
        <4>5. x * MAX <= (x * y) * MAX
          BY <1>1, <4>2, <4>4, TimesKeeps
        <4> QED BY <1>1, <4>2, <4>3, <4>4, <4>5 DEF x
      <3> HIDE DEF most
      <3> QED BY <2>2, <2>3, <3>2, <3>3, <3>4
    <2>5. CASE f > decimals
      <3>1. ~Exact(text)
        BY <1>1, <1>6, <2>5
      <3> QED BY <2>4, <3>1
    <2>6. CASE ~(f > decimals)
      <3>1. f <= decimals /\ meaning = m * TenTo[decimals - f]
        BY <1>1, <1>6, <1>10, <2>6
      <3>2. m >= Limit
        <4>1. f <= MaxScale
          BY <1>1, <1>6, <2>1, <3>1
        <4> QED BY <1>5, <1>7, <1>13, <2>1, <4>1 DEF FitsDecimal
      <3>3. m \in Nat \ {0} /\ m > most
        <4> HIDE DEF most
        <4> QED BY <1>7, <2>1, <2>2, <3>2
      <3>4. meaning >= m /\ meaning \in Nat
        <4>1. decimals - f \in Nat
          BY <1>1, <1>6, <3>1
        <4>2. TenTo[decimals - f] \in Nat \ {0}
          BY <4>1, TenToIs
        <4> QED BY <3>1, <3>3, <4>2, TimesGrows
      <3>5. ~(meaning <= most)
        <4> HIDE DEF most
        <4> QED BY <2>2, <3>3, <3>4
      <3> QED BY <2>4, <3>5
    <2> QED BY <2>5, <2>6
  <1> QED BY <1>2, <1>12, <1>13

\* What a price in the documented format becomes is what it means, in full, if
\* a Decimal holds it or the token has no more decimals than a Decimal has room
\* for.
THEOREM DocumentedPricesAreExact ==
  PriceSpec => []DocumentedIsExact
  <1>1. PriceInit => PricesInv
    BY PricesInductive
  <1>2. PricesInv /\ [PriceNext]_parsing => PricesInv'
    BY PricesInductive
  <1>3. PricesInv => DocumentedIsExact
    BY SaysExactly
  <1> QED BY <1>1, <1>2, <1>3, PTL DEF PriceSpec
=============================================================================
