-------------------------- MODULE SettlementProofs --------------------------
(***************************************************************************)
(* Theorems about Settlement for every set of requests and transactions,   *)
(* every number of attempts and polls and every set of faults; at the end, *)
(* that every behaviour of it is one of SettlementService, fairness aside. *)
(***************************************************************************)
EXTENDS SettlementRefinement, TLAPS

LEMMA InitTypeOK == Init => TypeOK
<1> SUFFICES ASSUME Init PROVE TypeOK
  OBVIOUS
<1>1. /\ pc \in [Requests -> ControlPoints] /\ tx \in [Requests -> Txs]
      /\ attempt \in [Requests -> 0..MaxAttempts]
      /\ polls \in [Requests -> 0..MaxPolls]
  BY SettlementAssumption DEF Init, ControlPoints
<1>2. /\ why \in [Requests -> Reasons \cup {"none"}]
      /\ seen \in [Requests -> Records] /\ redis \in [Txs -> Records]
      /\ reply \in [Requests -> Replies]
  BY DEF Init, Reasons, Records, Statuses, NoRecord, Record, Replies,
     Outcomes, NoReply
<1>3. /\ chain \in [Txs -> {"absent", "pending", "onchain", "invalid"}]
      /\ lapsed \in [Txs -> BOOLEAN] /\ submitters \in [Txs -> SUBSET Requests]
      /\ keyLost \in BOOLEAN
  BY DEF Init
<1> QED
  BY <1>1, <1>2, <1>3 DEF TypeOK

\* The records settlePayment writes are records.
LEMMA RecordTypes ==
  /\ NoRecord \in Records
  /\ InitialRecord \in Records
  /\ SubmittedRecord \in Records
  /\ ConfirmedRecord \in Records
  /\ TimeoutRecord \in Records
  /\ \A reason \in Reasons \cup {"none"} : FailedRecord(reason) \in Records
  /\ \A record \in Records :
       [record EXCEPT !.status = "confirmed"] \in Records
BY DEF NoRecord, InitialRecord, SubmittedRecord, ConfirmedRecord,
       TimeoutRecord, FailedRecord, Record, Records, Statuses

LEMMA PointTypes ==
  /\ \A p \in ClaimantPoints : p \in ControlPoints
  /\ \A p \in {"claim", "getRecord", "query", "saveSeen", "done", "verify"} :
       p \in ControlPoints
BY DEF ClaimantPoints, ControlPoints

LEMMA ReplyTypes ==
  \A o \in Outcomes \cup {"none"}, h \in BOOLEAN :
    [outcome |-> o, hash |-> h] \in Replies
BY DEF Replies

\* The two ways a handler step ends.
Ends(r) ==
  \/ \E p \in ControlPoints : Proceed(r, p)
  \/ UNCHANGED <<pc, reply>>
  \/ \E o \in Outcomes \cup {"none"}, h \in BOOLEAN : Answer(r, o, h)

LEMMA EndsType ==
  ASSUME NEW r \in Requests, TypeOK, Ends(r)
  PROVE  pc' \in [Requests -> ControlPoints] /\ reply' \in [Requests -> Replies]
<1>1. pc \in [Requests -> ControlPoints] /\ reply \in [Requests -> Replies]
  BY DEF TypeOK
<1> QED
  BY <1>1, ReplyTypes, PointTypes DEF Ends, Proceed, Answer, GoTo

LEMMA HandleEnds ==
  ASSUME NEW r \in Requests, TypeOK, Handle(r)
  PROVE  Ends(r)
<1> USE DEF Ends, Throw
<1> DEFINE P(p) == p \in ControlPoints
           O(o) == o \in Outcomes \cup {"none"}
<1>p. P("claim") /\ P("getRecord") /\ P("query") /\ P("saveSeen")
      /\ P("submit") /\ P("saveFailed") /\ P("saveHash") /\ P("poll")
      /\ P("saveConfirmed") /\ P("saveTimeout")
  BY DEF ControlPoints
<1>o. /\ O("success") /\ O("verification_failed") /\ O("internal_error")
      /\ O("confirmation_timeout") /\ O("http500")
      /\ \A o \in Reasons \cup {"none"} : O(o)
  BY DEF Outcomes, Reasons
<1> HIDE DEF P, O
<1>1. CASE Verify(r)
  BY <1>1, <1>p, <1>o DEF Verify, P, O
<1>2. CASE Claim(r)
  BY <1>2, <1>p, <1>o DEF Claim, ClaimWon, ClaimLost, ClaimResent, SetRecord, P, O
<1>3. CASE Submit(r)
  BY <1>3, <1>p, <1>o DEF Submit, SubmitAccepted, SubmitInvalid,
     SubmitTransient, SubmitError, Refused, P, O
<1>4. CASE SaveFailed(r)
  BY <1>4, <1>o DEF SaveFailed, SetRecord, TypeOK, O
<1>5. CASE SaveHash(r)
  BY <1>5, <1>p, <1>o DEF SaveHash, SetRecord, P, O
<1>6. CASE Poll(r)
  BY <1>6, <1>p, <1>o DEF Poll, GetTransaction, P, O
<1>7. CASE SaveConfirmed(r)
  BY <1>7, <1>o DEF SaveConfirmed, SetRecord, O
<1>8. CASE SaveTimeout(r)
  BY <1>8, <1>o DEF SaveTimeout, SetRecord, O
<1>9. CASE ReadRecord(r)
  <2>1. redis[tx[r]] \in Records
    BY DEF TypeOK
  <2>2. redis[tx[r]].hash \in BOOLEAN
        /\ redis[tx[r]].reason \in Reasons \cup {"none"}
        /\ redis[tx[r]].status \in Statuses
    BY <2>1 DEF Records
  <2> QED
    BY <1>9, <1>p, <1>o, <2>2 DEF ReadRecord, Dispatch, Statuses, P, O
<1>10. CASE Query(r)
  <2>1. seen[r].hash \in BOOLEAN
    BY DEF TypeOK, Records
  <2> QED
    BY <1>10, <1>p, <1>o, <2>1 DEF Query, GetTransaction, P, O
<1>11. CASE SaveSeen(r)
  <2>1. seen[r].hash \in BOOLEAN
    BY DEF TypeOK, Records
  <2> QED
    BY <1>11, <1>o, <2>1 DEF SaveSeen, SetRecord, O
<1> QED
  BY <1>1, <1>2, <1>3, <1>4, <1>5, <1>6, <1>7, <1>8, <1>9, <1>10, <1>11
     DEF Handle

\* TypeOK is not inductive: it takes that a poll still has a query left.
PollsLeft == \A r \in Requests : pc[r] = "poll" => polls[r] < MaxPolls

TypeInv == TypeOK /\ PollsLeft

\* A Redis write leaves records in every key, whether it failed or not.
Writes(r, record) ==
  redis' = [redis EXCEPT ![tx[r]] = record] \/ UNCHANGED redis

LEMMA WritesType ==
  ASSUME NEW r \in Requests, TypeOK, NEW record \in Records, Writes(r, record)
  PROVE  redis' \in [Txs -> Records]
BY DEF Writes, TypeOK

\* Every handler step makes at most one write, of a record.
LEMMA HandleRedis ==
  ASSUME NEW r \in Requests, TypeOK, Handle(r)
  PROVE  redis' \in [Txs -> Records]
<1> SUFFICES \/ UNCHANGED redis
             \/ \E record \in Records : Writes(r, record)
  BY WritesType DEF TypeOK
<1> USE DEF Writes
<1>2. CASE Claim(r)
  BY <1>2, RecordTypes DEF Claim, ClaimWon, ClaimLost, ClaimResent, SetRecord
<1>4. CASE SaveFailed(r)
  <2>1. FailedRecord(why[r]) \in Records
    BY RecordTypes DEF TypeOK
  <2> QED
    BY <1>4, <2>1 DEF SaveFailed, SetRecord
<1>5. CASE SaveHash(r)
  BY <1>5, RecordTypes DEF SaveHash, SetRecord
<1>7. CASE SaveConfirmed(r)
  BY <1>7, RecordTypes DEF SaveConfirmed, SetRecord
<1>8. CASE SaveTimeout(r)
  BY <1>8, RecordTypes DEF SaveTimeout, SetRecord
<1>11. CASE SaveSeen(r)
  <2>1. [seen[r] EXCEPT !.status = "confirmed"] \in Records
    BY RecordTypes DEF TypeOK
  <2> QED
    BY <1>11, <2>1 DEF SaveSeen, SetRecord
<1>12. CASE Verify(r) \/ Submit(r) \/ Poll(r) \/ ReadRecord(r) \/ Query(r)
  BY <1>12 DEF Verify, Submit, SubmitAccepted, SubmitInvalid,
     SubmitTransient, SubmitError, Poll, ReadRecord, Query
<1> QED
  BY <1>2, <1>4, <1>5, <1>7, <1>8, <1>11, <1>12 DEF Handle

\* Only a submission writes the chain, and it keeps to its states.
ChainStates == {"absent", "pending", "onchain", "invalid"}

LEMMA HandleLedger ==
  ASSUME NEW r \in Requests, TypeOK, Handle(r)
  PROVE  /\ tx' = tx /\ lapsed' = lapsed /\ keyLost' = keyLost
         /\ chain' \in [Txs -> ChainStates]
         /\ submitters' \in [Txs -> SUBSET Requests]
<1> USE DEF TypeOK, locals, ledger, ChainStates
<1>3. CASE Submit(r)
  BY <1>3 DEF Submit, SubmitAccepted, SubmitInvalid, SubmitTransient,
     SubmitError, Deliver, HandOver
<1>2. CASE Claim(r) \/ SaveFailed(r) \/ SaveHash(r) \/ SaveConfirmed(r)
           \/ SaveTimeout(r) \/ SaveSeen(r)
  BY <1>2 DEF Claim, ClaimWon, ClaimLost, ClaimResent, SaveFailed, SaveHash,
     SaveConfirmed, SaveTimeout, SaveSeen
<1>1. CASE Verify(r) \/ Poll(r) \/ ReadRecord(r) \/ Query(r)
  BY <1>1 DEF Verify, Poll, ReadRecord, Query
<1> QED
  BY <1>1, <1>2, <1>3 DEF Handle

\* The request's own data stays well typed, and a poll keeps a query left.
LEMMA HandleLocals ==
  ASSUME NEW r \in Requests, TypeInv, Handle(r)
  PROVE  /\ attempt' \in [Requests -> 0..MaxAttempts]
         /\ polls' \in [Requests -> 0..MaxPolls]
         /\ why' \in [Requests -> Reasons \cup {"none"}]
         /\ seen' \in [Requests -> Records]
         /\ PollsLeft'
<1> USE SettlementAssumption
    DEF TypeInv, TypeOK, locals, PollsLeft, GoTo, Proceed, Answer, Throw
<1>1. CASE Verify(r) \/ Query(r)
  BY <1>1 DEF Verify, Query, GetTransaction
<1>2. CASE Claim(r)
  BY <1>2 DEF Claim, ClaimWon, ClaimLost, ClaimResent, SetRecord
<1>3. CASE Submit(r)
  <2>1. CASE SubmitAccepted(r)
    BY <2>1 DEF SubmitAccepted
  <2>2. CASE SubmitInvalid(r) \/ SubmitError(r)
    BY <2>2 DEF SubmitInvalid, SubmitError, Refused, Reasons
  <2>3. CASE SubmitTransient(r)
    BY <2>3 DEF SubmitTransient, Refused, Reasons
  <2> QED
    BY <1>3, <2>1, <2>2, <2>3 DEF Submit
<1>4. CASE SaveFailed(r) \/ SaveConfirmed(r) \/ SaveTimeout(r) \/ SaveSeen(r)
  BY <1>4 DEF SaveFailed, SaveConfirmed, SaveTimeout, SaveSeen, SetRecord
<1>5. CASE SaveHash(r)
  BY <1>5 DEF SaveHash, SetRecord
<1>6. CASE Poll(r)
  <2>1. polls[r] + 1 \in 0..MaxPolls
    BY <1>6 DEF Poll
  <2> QED
    BY <1>6, <2>1 DEF Poll, GetTransaction
<1>9. CASE ReadRecord(r)
  <2>1. redis[tx[r]] \in Records /\ redis[tx[r]].status \in Statuses
    BY DEF Records
  <2>2. seen' \in [Requests -> Records] /\ UNCHANGED <<attempt, polls, why>>
    BY <1>9, <2>1 DEF ReadRecord
  <2>3. pc'[r] # "poll" /\ \A q \in Requests \ {r} : pc'[q] = pc[q]
    BY <1>9, <2>1 DEF ReadRecord, Dispatch, Statuses
  <2> QED
    BY <2>2, <2>3
<1> QED
  BY <1>1, <1>2, <1>3, <1>4, <1>5, <1>6, <1>9 DEF Handle

\* Every step keeps the types.
LEMMA NextTypeInv == TypeInv /\ [Next]_vars => TypeInv'
<1> SUFFICES ASSUME TypeInv, [Next]_vars PROVE TypeInv'
  OBVIOUS
<1> USE DEF TypeInv, PollsLeft, locals, ledger
<1>1. ASSUME NEW r \in Requests, Arrive(r) PROVE TypeInv'
  BY <1>1 DEF Arrive, Proceed, GoTo, TypeOK, ControlPoints
<1>2. ASSUME NEW r \in Requests, Handle(r) PROVE TypeInv'
  <2> HIDE DEF PollsLeft
  <2>1. pc' \in [Requests -> ControlPoints] /\ reply' \in [Requests -> Replies]
    BY <1>2, HandleEnds, EndsType
  <2>2. redis' \in [Txs -> Records]
    BY <1>2, HandleRedis
  <2> QED
    BY <1>2, <2>1, <2>2, HandleLedger, HandleLocals DEF TypeOK, ChainStates
<1>3. ASSUME NEW t \in Txs, Include(t) \/ Invalidate(t) \/ Lapse(t)
      PROVE TypeInv'
  BY <1>3 DEF Include, Invalidate, Lapse, TypeOK
<1>4. ASSUME NEW t \in Txs, Expire(t) PROVE TypeInv'
  BY <1>4, RecordTypes DEF Expire, TypeOK
<1>5. CASE Flush
  BY <1>5, RecordTypes DEF Flush, TypeOK
<1>6. CASE Crash
  <2>1. pc' \in [Requests -> ControlPoints] /\ PollsLeft'
    BY <1>6 DEF Crash, ControlPoints
  <2>2. [outcome |-> "aborted", hash |-> FALSE] \in Replies
    BY DEF Replies, Outcomes
  <2>3. reply' \in [Requests -> Replies]
    BY <1>6, <2>2 DEF Crash, TypeOK
  <2> QED
    BY <1>6, <2>1, <2>3 DEF Crash, TypeOK
<1>7. CASE UNCHANGED vars
  BY <1>7 DEF vars, TypeOK
<1> QED
  BY <1>1, <1>2, <1>3, <1>4, <1>5, <1>6, <1>7 DEF Next, Chain

\* The state of the settlement service has its types in every reachable
\* state: the retries of withRetry and the queries of pollConfirmation stay
\* within their bounds, every record is one settlePayment writes.
THEOREM TypeCorrect == Spec => []TypeOK
<1>1. Init => TypeInv
  BY InitTypeOK DEF TypeInv, PollsLeft, Init
<1>2. TypeInv /\ [Next]_vars => TypeInv'
  BY NextTypeInv
<1>3. TypeInv => TypeOK
  BY DEF TypeInv
<1> QED
  BY <1>1, <1>2, <1>3, PTL DEF Spec

-----------------------------------------------------------------------------
(* A success means the transaction is on the chain.                        *)

\* What is found on the chain stays there, in every step.
LEMMA OnChainStable ==
  ASSUME TypeOK, [Next]_vars, NEW t \in Txs, chain[t] = "onchain"
  PROVE  chain'[t] = "onchain"
<1> USE DEF TypeOK, locals, ledger
<1>1. ASSUME NEW r \in Requests, Submit(r) PROVE chain'[t] = "onchain"
  BY <1>1 DEF Submit, SubmitAccepted, SubmitInvalid, SubmitTransient,
     SubmitError, Deliver
<1>2. ASSUME NEW r \in Requests, Handle(r) \/ Arrive(r), ~Submit(r)
      PROVE chain'[t] = "onchain"
  BY <1>2 DEF Handle, Arrive, Verify, Claim, ClaimWon, ClaimLost, ClaimResent,
     SaveFailed, SaveHash, Poll, SaveConfirmed, SaveTimeout, ReadRecord,
     Query, SaveSeen
<1>3. CASE Chain
  BY <1>3 DEF Chain, Include, Invalidate, Lapse
<1>4. CASE (\E u \in Txs : Expire(u)) \/ Flush \/ Crash
  BY <1>4 DEF Expire, Flush, Crash
<1>5. CASE UNCHANGED vars
  BY <1>5 DEF vars
<1> QED
  BY <1>1, <1>2, <1>3, <1>4, <1>5 DEF Next

\* What a request has seen of the chain before its last write.
FoundOnChain ==
  \A r \in Requests :
    /\ pc[r] = "saveConfirmed" => chain[tx[r]] = "onchain"
    /\ pc[r] = "saveSeen" => chain[tx[r]] = "onchain" /\ seen[r].hash

LandedInv == ConfirmedMeansOnChain /\ SuccessMeansOnChain /\ FoundOnChain

\* The five ways a duplicate goes on from the record it read.
LEMMA DispatchCases ==
  ASSUME NEW r \in Requests, NEW record \in Records, Dispatch(r, record)
  PROVE  \/ Answer(r, "internal_error", FALSE)
         \/ record.status = "confirmed" /\ Answer(r, "success", record.hash)
         \/ Proceed(r, "query")
         \/ record.status = "failed" /\ Answer(r, record.reason, FALSE)
BY DEF Dispatch, Records, Statuses

\* The step of one request keeps the promise for itself and for the record it
\* writes; nobody else's changes.
LEMMA HandleLanded ==
  ASSUME TypeInv, TypeOK', LandedInv, NEW r \in Requests, Handle(r),
         \A t \in Txs : chain[t] = "onchain" => chain'[t] = "onchain"
  PROVE  LandedInv'
<1> USE DEF TypeInv, TypeOK, LandedInv, ConfirmedMeansOnChain,
            SuccessMeansOnChain, FoundOnChain, locals, ledger,
            GoTo, Proceed, Answer, Throw
<1>1. CASE Verify(r)
  BY <1>1 DEF Verify
<1>2. CASE Claim(r)
  <2>1. UNCHANGED <<tx, seen, chain>>
    BY <1>2 DEF Claim, ClaimWon, ClaimLost, ClaimResent
  <2>2. /\ \A q \in Requests :
             pc'[q] \in {"saveConfirmed", "saveSeen"} => pc'[q] = pc[q]
        /\ \A q \in Requests :
             reply'[q].outcome = "success" => reply'[q] = reply[q]
    BY <1>2 DEF Claim, ClaimWon, ClaimLost, ClaimResent, SetRecord
  <2>3. \A t \in Txs : redis'[t].status = "confirmed" => redis'[t] = redis[t]
    BY <1>2 DEF Claim, ClaimWon, ClaimLost, ClaimResent, SetRecord,
       InitialRecord, Record
  <2> QED
    BY <2>1, <2>2, <2>3
<1>3. CASE Submit(r)
  BY <1>3 DEF Submit, SubmitAccepted, SubmitInvalid, SubmitTransient,
     SubmitError, Refused
<1>4. CASE SaveFailed(r) \/ SaveTimeout(r)
  <2>1. UNCHANGED <<tx, seen, chain>>
    BY <1>4 DEF SaveFailed, SaveTimeout
  <2>2. \A q \in Requests : pc'[q] \in {"saveConfirmed", "saveSeen"} => pc'[q] = pc[q]
    BY <1>4 DEF SaveFailed, SaveTimeout, SetRecord
  <2>3. \A t \in Txs : redis'[t].status = "confirmed" => redis'[t] = redis[t]
    BY <1>4 DEF SaveFailed, SaveTimeout, SetRecord, FailedRecord,
       TimeoutRecord, Record
  <2>4. why[r] # "success"
    BY DEF Reasons
  <2>5. \A q \in Requests : reply'[q].outcome = "success" => reply'[q] = reply[q]
    BY <1>4, <2>4 DEF SaveFailed, SaveTimeout, SetRecord
  <2> QED
    BY <2>1, <2>2, <2>3, <2>5
<1>5. CASE SaveHash(r)
  <2>1. UNCHANGED <<tx, seen, chain>>
    BY <1>5 DEF SaveHash
  <2>2. \A q \in Requests : pc'[q] \in {"saveConfirmed", "saveSeen"} => pc'[q] = pc[q]
    BY <1>5 DEF SaveHash, SetRecord
  <2>3. \A t \in Txs : redis'[t].status = "confirmed" => redis'[t] = redis[t]
    BY <1>5 DEF SaveHash, SetRecord, SubmittedRecord, Record
  <2>4. \A q \in Requests : reply'[q].outcome = "success" => reply'[q] = reply[q]
    BY <1>5 DEF SaveHash, SetRecord
  <2> QED
    BY <2>1, <2>2, <2>3, <2>4
<1>6. CASE Poll(r)
  BY <1>6 DEF Poll, GetTransaction
<1>7. CASE SaveConfirmed(r)
  BY SMTT(20), <1>7 DEF SaveConfirmed, SetRecord, ConfirmedRecord, Record
<1>9. CASE ReadRecord(r)
  <2> DEFINE record == redis[tx[r]]
  <2>1. record \in Records /\ record.reason # "success"
    BY DEF Records, Reasons
  <2>2. CASE Throw(r) /\ UNCHANGED seen
    BY <1>9, <2>2 DEF ReadRecord
  <2>3. CASE Dispatch(r, record) /\ seen' = [seen EXCEPT ![r] = record]
    <3>1. UNCHANGED <<tx, redis, chain>>
      BY <1>9 DEF ReadRecord
    <3> HIDE DEF GoTo, Proceed, Answer, Throw
    <3>2. CASE Answer(r, "internal_error", FALSE)
      BY <2>3, <3>1, <3>2 DEF Answer, GoTo
    <3>3. CASE record.status = "confirmed" /\ Answer(r, "success", record.hash)
      BY <2>3, <3>1, <3>3 DEF Answer, GoTo
    <3>4. CASE Proceed(r, "query")
      BY <2>3, <3>1, <3>4 DEF Proceed, GoTo
    <3>5. CASE Answer(r, record.reason, FALSE)
      BY <2>1, <2>3, <3>1, <3>5 DEF Answer, GoTo
    <3> QED
      BY <2>1, <2>3, <3>2, <3>3, <3>4, <3>5, DispatchCases
  <2> QED
    BY <1>9, <2>2, <2>3 DEF ReadRecord
<1>10. CASE Query(r)
  BY <1>10 DEF Query, GetTransaction
<1>11. CASE SaveSeen(r)
  <2> DEFINE record == [seen[r] EXCEPT !.status = "confirmed"]
  <2>1. chain[tx[r]] = "onchain" /\ seen[r].hash
    BY <1>11 DEF SaveSeen
  <2>2. record.hash = seen[r].hash
    BY DEF Records
  <2>3. UNCHANGED <<tx, chain, seen>>
    BY <1>11 DEF SaveSeen
  <2>4. Writes(r, record)
    BY <1>11 DEF SaveSeen, SetRecord, Writes
  <2>5. Answer(r, "success", seen[r].hash) \/ Throw(r)
    BY <1>11 DEF SaveSeen, SetRecord
  <2>6. ConfirmedMeansOnChain'
    <3>1. ASSUME NEW t \in Txs PROVE redis'[t] = redis[t] \/ (t = tx[r] /\ redis'[t] = record)
      BY <2>4 DEF Writes
    <3> QED
      BY <2>1, <2>2, <2>3, <3>1
  <2>7. SuccessMeansOnChain'
    BY <2>1, <2>3, <2>5
  <2>8. FoundOnChain'
    BY <2>3, <2>5
  <2> QED
    BY <2>6, <2>7, <2>8
<1> QED
  BY <1>1, <1>2, <1>3, <1>4, <1>5, <1>6, <1>7, <1>9, <1>10, <1>11
     DEF Handle

LEMMA NextLanded == TypeInv /\ TypeOK' /\ LandedInv /\ [Next]_vars => LandedInv'
<1> SUFFICES ASSUME TypeInv, TypeOK', LandedInv, [Next]_vars PROVE LandedInv'
  OBVIOUS
<1>0. \A t \in Txs : chain[t] = "onchain" => chain'[t] = "onchain"
  BY OnChainStable DEF TypeInv
<1> USE DEF TypeInv, TypeOK, LandedInv, ConfirmedMeansOnChain,
            SuccessMeansOnChain, FoundOnChain, locals, ledger
<1>1. ASSUME NEW r \in Requests, Arrive(r) PROVE LandedInv'
  BY <1>1 DEF Arrive, Proceed, GoTo
<1>2. ASSUME NEW r \in Requests, Handle(r) PROVE LandedInv'
  BY <1>0, <1>2, HandleLanded
<1>3. ASSUME NEW t \in Txs, Include(t) \/ Invalidate(t) \/ Lapse(t)
      PROVE LandedInv'
  BY <1>0, <1>3 DEF Include, Invalidate, Lapse
<1>4. ASSUME NEW t \in Txs, Expire(t) PROVE LandedInv'
  BY <1>4 DEF Expire, NoRecord, Record
<1>5. CASE Flush
  BY <1>5 DEF Flush, NoRecord, Record
<1>6. CASE Crash
  BY <1>6 DEF Crash
<1>7. CASE UNCHANGED vars
  BY <1>7 DEF vars
<1> QED
  BY <1>1, <1>2, <1>3, <1>4, <1>5, <1>6, <1>7 DEF Next, Chain

\* Whatever crashes, fails, expires or is lost, POST /settle answers success
\* only for a transaction on the chain, and a confirmed record says so of it.
THEOREM SuccessIsOnChain == Spec => [](SuccessMeansOnChain /\ ConfirmedMeansOnChain)
<1>1. Init => TypeInv /\ LandedInv
  BY InitTypeOK DEF Init, TypeInv, PollsLeft, LandedInv, FoundOnChain,
     SuccessMeansOnChain, ConfirmedMeansOnChain, NoReply, NoRecord, Record
<1>2. TypeInv /\ LandedInv /\ [Next]_vars => (TypeInv /\ LandedInv)'
  BY NextTypeInv, NextLanded DEF TypeInv
<1>3. LandedInv => SuccessMeansOnChain /\ ConfirmedMeansOnChain
  BY DEF LandedInv
<1> QED
  BY <1>1, <1>2, <1>3, PTL DEF Spec

-----------------------------------------------------------------------------
(* One request submits.                                                    *)

\* The requests that won the key or have used it.
Owner(r, t) == (tx[r] = t /\ pc[r] \in ClaimantPoints) \/ r \in submitters[t]

\* AtMostOneSubmitter strengthened: who won the key and has not submitted yet
\* counts, and a key nobody holds has no owner.
OwnerInv ==
  /\ \A t \in Txs : \A r \in Requests :
       redis[t].status = "none" => ~Owner(r, t)
  /\ \A t \in Txs : \A r1, r2 \in Requests :
       Owner(r1, t) /\ Owner(r2, t) => r1 = r2

\* A step that makes nobody an owner and deletes no record keeps OwnerInv.
LEMMA NoNewOwner ==
  ASSUME OwnerInv,
         \A t \in Txs : \A r \in Requests : Owner(r, t)' => Owner(r, t),
         \A t \in Txs : redis'[t].status = "none" => redis[t].status = "none"
  PROVE  OwnerInv'
BY DEF OwnerInv

\* Winning the claim makes one owner, of a key that had none.
LEMMA ClaimWonOwner ==
  ASSUME TypeInv, OwnerInv, NEW r \in Requests, ClaimWon(r)
  PROVE  OwnerInv'
<1>1. \A q \in Requests : ~Owner(q, tx[r])
  BY DEF ClaimWon, OwnerInv, TypeInv, TypeOK
<1>2. UNCHANGED <<tx, submitters>>
      /\ \A q \in Requests \ {r} : pc'[q] = pc[q]
  BY DEF ClaimWon, SetRecord, Proceed, Throw, Answer, GoTo, TypeInv, TypeOK,
     ledger
<1>3. \A q \in Requests, t \in Txs :
        Owner(q, t)' => Owner(q, t) \/ (q = r /\ t = tx[r])
  BY <1>2 DEF Owner
<1>4. \A t \in Txs : redis'[t].status = "none" => redis[t].status = "none"
  BY DEF ClaimWon, SetRecord, InitialRecord, Record, TypeInv, TypeOK
<1>5. redis'[tx[r]].status = "none" => pc'[r] = "done"
  BY DEF ClaimWon, SetRecord, InitialRecord, Record, Throw, Answer, GoTo,
     TypeInv, TypeOK
<1>6. redis'[tx[r]].status = "none" => ~Owner(r, tx[r])'
  BY <1>1, <1>2, <1>5 DEF Owner, ClaimantPoints
<1>7. ASSUME NEW t \in Txs, NEW q \in Requests, redis'[t].status = "none"
      PROVE  ~Owner(q, t)'
  <2>1. ~Owner(q, t)
    BY <1>4, <1>7 DEF OwnerInv
  <2> QED
    BY <1>2, <1>3, <1>6, <1>7, <2>1 DEF Owner
<1>8. ASSUME NEW t \in Txs, NEW r1 \in Requests, NEW r2 \in Requests,
             Owner(r1, t)', Owner(r2, t)'
      PROVE  r1 = r2
  BY <1>1, <1>3, <1>8 DEF OwnerInv
<1> QED
  BY <1>7, <1>8 DEF OwnerInv

\* A submission is made by the owner.
LEMMA SubmitOwner ==
  ASSUME TypeInv, OwnerInv, NEW r \in Requests, Submit(r)
  PROVE  OwnerInv'
<1>1. UNCHANGED <<tx, redis>>
  BY DEF Submit, SubmitAccepted, SubmitInvalid, SubmitTransient, SubmitError
<1>2. \A t \in Txs : submitters'[t] \subseteq
                     submitters[t] \cup (IF t = tx[r] THEN {r} ELSE {})
  BY DEF Submit, SubmitAccepted, SubmitInvalid, SubmitTransient, SubmitError,
     HandOver, TypeInv, TypeOK
<1>3. pc[r] \in ClaimantPoints /\ \A q \in Requests \ {r} : pc'[q] = pc[q]
  BY DEF Submit, SubmitAccepted, SubmitInvalid, SubmitTransient, SubmitError,
     Refused, Proceed, GoTo, ClaimantPoints, TypeInv, TypeOK
<1>4. \A q \in Requests, t \in Txs : Owner(q, t)' => Owner(q, t)
  BY <1>1, <1>2, <1>3 DEF Owner
<1> QED
  BY <1>1, <1>4, NoNewOwner

\* The other steps of a handler neither claim, submit nor delete.
LEMMA HandleOwner ==
  ASSUME TypeInv, OwnerInv, NEW r \in Requests,
         Handle(r), ~ClaimWon(r), ~Submit(r)
  PROVE  OwnerInv'
<1> USE DEF TypeInv, TypeOK, locals, ledger
<1> SUFFICES /\ UNCHANGED <<tx, submitters>>
             /\ \A q \in Requests : pc'[q] \in ClaimantPoints
                                     => pc[q] \in ClaimantPoints
             /\ \A t \in Txs : redis'[t].status = "none"
                                => redis[t].status = "none"
  BY NoNewOwner DEF Owner
<1> USE DEF SetRecord, Proceed, Throw, Answer, GoTo, ClaimantPoints, Record
<1>1. CASE Verify(r)
  BY <1>1 DEF Verify
<1>2. CASE Claim(r)
  BY <1>2 DEF Claim, ClaimLost, ClaimResent, InitialRecord
<1>4. CASE SaveFailed(r)
  BY <1>4 DEF SaveFailed, FailedRecord
<1>5. CASE SaveHash(r)
  BY <1>5 DEF SaveHash, SubmittedRecord
<1>6. CASE Poll(r)
  BY <1>6 DEF Poll, GetTransaction
<1>7. CASE SaveConfirmed(r)
  BY <1>7 DEF SaveConfirmed, ConfirmedRecord
<1>8. CASE SaveTimeout(r)
  BY <1>8 DEF SaveTimeout, TimeoutRecord
<1>9. CASE ReadRecord(r)
  <2>1. redis[tx[r]] \in Records
    OBVIOUS
  <2>2. pc'[r] \in {"done", "query"} /\ \A q \in Requests \ {r} : pc'[q] = pc[q]
    BY <1>9, <2>1, DispatchCases DEF ReadRecord
  <2> QED
    BY <1>9, <2>2 DEF ReadRecord
<1>10. CASE Query(r)
  BY <1>10 DEF Query, GetTransaction
<1>11. CASE SaveSeen(r)
  <2>1. [seen[r] EXCEPT !.status = "confirmed"].status = "confirmed"
    BY DEF Records
  <2> QED
    BY <1>11, <2>1 DEF SaveSeen
<1> QED
  BY <1>1, <1>2, <1>4, <1>5, <1>6, <1>7, <1>8, <1>9, <1>10, <1>11 DEF Handle

\* Only Redis letting a record go loses a key, and a lost key stays lost.
LEMMA KeyNotLost ==
  ASSUME TypeInv, [Next]_vars, ~keyLost'
  PROVE  ~keyLost /\ ~Flush /\ \A t \in Txs : ~Expire(t)
<1>1. ASSUME NEW r \in Requests, Arrive(r) \/ Handle(r) PROVE ~keyLost
  <2>1. keyLost' = keyLost
    BY <1>1, HandleLedger DEF Arrive, TypeInv
  <2> QED BY <2>1
<1>2. ASSUME Chain \/ Crash \/ UNCHANGED vars PROVE ~keyLost
  <2>1. keyLost' = keyLost
    BY <1>2 DEF Chain, Include, Invalidate, Lapse, Crash, vars
  <2> QED BY <2>1
<1>3. ~Flush /\ \A t \in Txs : ~Expire(t)
  BY DEF Flush, Expire
<1> QED
  BY <1>1, <1>2, <1>3 DEF Next

\* While Redis lets no record go, no step makes a second owner.
LEMMA NextOwner ==
  ASSUME TypeInv, OwnerInv, [Next]_vars, ~keyLost'
  PROVE  OwnerInv'
<1>1. ASSUME NEW r \in Requests, Arrive(r) PROVE OwnerInv'
  BY <1>1, NoNewOwner DEF Arrive, Proceed, GoTo, Owner, ClaimantPoints,
     ledger, TypeInv, TypeOK
<1>2. ASSUME NEW r \in Requests, Handle(r) PROVE OwnerInv'
  BY <1>2, ClaimWonOwner, SubmitOwner, HandleOwner
<1>3. CASE Chain
  BY <1>3, NoNewOwner DEF Chain, Include, Invalidate, Lapse, Owner
<1>4. ~Flush /\ \A t \in Txs : ~Expire(t)
  BY KeyNotLost
<1>6. CASE Crash
  BY <1>6, NoNewOwner DEF Crash, Owner, ClaimantPoints, ledger
<1>7. CASE UNCHANGED vars
  BY <1>7, NoNewOwner DEF vars, Owner
<1> QED
  BY <1>1, <1>2, <1>3, <1>4, <1>6, <1>7 DEF Next

\* "Settlement is idempotent: a SHA-256 dedup key prevents double-submission
\* even if the Resource Server retries" (docs/architecture.md:100): as long as
\* Redis has let no record go, at most one request hands a transaction to
\* Blockfrost, for any number of requests, crashes and Redis failures.
THEOREM SubmittedOnce == Spec => []AtMostOneSubmitter
<1>1. Init => TypeInv /\ (keyLost \/ OwnerInv)
  BY InitTypeOK DEF Init, TypeInv, PollsLeft, OwnerInv, Owner, ClaimantPoints
<1>2. TypeInv /\ (keyLost \/ OwnerInv) /\ [Next]_vars => (TypeInv /\ (keyLost \/ OwnerInv))'
  BY NextTypeInv, KeyNotLost, NextOwner
<1>3. TypeInv /\ (keyLost \/ OwnerInv) => AtMostOneSubmitter
  BY DEF OwnerInv, Owner, AtMostOneSubmitter, TypeInv, TypeOK
<1> QED
  BY <1>1, <1>2, <1>3, PTL DEF Spec

-----------------------------------------------------------------------------
(* No record goes back.                                                    *)

\* What a request knows of the record of its transaction: it is still as the
\* claim left it, or has the hash for good.
RecordKnown(r) ==
  /\ pc[r] \in {"submit", "saveFailed", "saveHash"} => redis[tx[r]] = InitialRecord
  /\ pc[r] \in {"poll", "saveConfirmed", "saveTimeout"} => redis[tx[r]].hash
  /\ pc[r] \in {"query", "saveSeen"} /\ seen[r].hash => redis[tx[r]].hash
  /\ pc[r] = "saveSeen" => seen[r].hash
  /\ reply[r].outcome = "success" => redis[tx[r]].hash

\* Only these records have the hash, a confirmed one always.
HashStatuses == {"submitted", "confirmed", "timeout"}
RecordShape(t) ==
  /\ redis[t].hash => redis[t].status \in HashStatuses
  /\ redis[t].status = "confirmed" => redis[t].hash

RecordInv ==
  /\ \A r \in Requests : RecordKnown(r)
  /\ \A t \in Txs : RecordShape(t)

\* What NothingTakenBack says of a step.
Kept(t) ==
  /\ redis[t].hash => redis'[t].hash
  /\ redis[t].status = "failed" => redis'[t] = redis[t]

\* A step of r that leaves the record, claims the key, has the hash to write
\* or fails.
LEMMA WriteKeeps ==
  ASSUME TypeInv, OwnerInv, RecordInv, NEW r \in Requests, tx' = tx,
         \A q \in Requests \ {r} :
           pc'[q] = pc[q] /\ seen'[q] = seen[q] /\ reply'[q] = reply[q],
         \A t \in Txs \ {tx[r]} : redis'[t] = redis[t],
         \/ redis'[tx[r]] = redis[tx[r]]
         \/ redis'[tx[r]] = InitialRecord /\ redis[tx[r]].status = "none"
         \/ /\ redis'[tx[r]].hash /\ redis'[tx[r]].status \in HashStatuses
            /\ redis[tx[r]].hash \/ pc[r] = "saveHash"
         \/ /\ redis'[tx[r]].status = "failed" /\ redis'[tx[r]].hash = FALSE
            /\ pc[r] = "saveFailed",
         RecordKnown(r)'
  PROVE  RecordInv' /\ \A t \in Txs : Kept(t)
<1> USE DEF RecordInv
<1> DEFINE t == tx[r]
<1>1. /\ t \in Txs /\ InitialRecord.status = "submitted" /\ InitialRecord.hash = FALSE
      /\ pc[r] \in {"saveHash", "saveFailed"} => Owner(r, t) /\ redis[t] = InitialRecord
  BY DEF TypeInv, TypeOK, InitialRecord, Record, Owner, ClaimantPoints, RecordKnown
<1>2. Kept(t) /\ RecordShape(t)'
  BY <1>1 DEF Kept, RecordShape, HashStatuses
<1>3. ASSUME NEW q \in Requests \ {r} PROVE RecordKnown(q)'
  <2>1. CASE tx[q] # t
    BY <1>3, <2>1 DEF RecordKnown, TypeInv, TypeOK
  <2>2. CASE tx[q] = t
    <3>1. pc[q] \in ClaimantPoints => Owner(q, t) /\ redis[t].status # "none"
                                      /\ pc[r] \notin {"saveHash", "saveFailed"}
      BY <1>1, <2>2 DEF Owner, OwnerInv
    <3>2. RecordKnown(q) /\ (redis[t].hash => redis[t].status \in HashStatuses)
      BY <1>1 DEF RecordShape
    <3>3. redis[t].hash => redis'[t].hash
      BY <1>2 DEF Kept
    <3>4. pc[q] \in {"submit", "saveFailed", "saveHash"} => redis'[t] = InitialRecord
      BY <1>1, <2>2, <3>1, <3>2 DEF RecordKnown, ClaimantPoints
    <3> QED BY <1>3, <2>2, <3>2, <3>3, <3>4 DEF RecordKnown
  <2> QED BY <2>1, <2>2
<1>4. \A u \in Txs \ {t} : Kept(u) /\ RecordShape(u)'
  BY DEF Kept, RecordShape
<1> QED BY <1>2, <1>3, <1>4

LEMMA HandleRecord ==
  ASSUME TypeInv, OwnerInv, RecordInv, NEW r \in Requests, Handle(r)
  PROVE  RecordInv' /\ \A t \in Txs : Kept(t)
<1> DEFINE t == tx[r]
<1>1. /\ RecordKnown(r) /\ RecordShape(t) /\ t \in Txs /\ redis[t] \in Records
      /\ redis \in [Txs -> Records] /\ seen[r] \in Records /\ why[r] # "success"
  BY DEF RecordInv, TypeInv, TypeOK, Reasons
<1>2. /\ InitialRecord.hash = FALSE /\ InitialRecord.status = "submitted"
      /\ \A record \in {SubmittedRecord, ConfirmedRecord, TimeoutRecord} :
           record.hash /\ record.status \in HashStatuses
      /\ \A reason : FailedRecord(reason).status = "failed" /\ FailedRecord(reason).hash = FALSE
  BY DEF InitialRecord, SubmittedRecord, ConfirmedRecord, TimeoutRecord, FailedRecord, Record,
         HashStatuses
<1>3. tx' = tx
  BY HandleLedger DEF TypeInv
<1> USE DEF GoTo, Proceed, Answer, Throw
<1>4. CASE Verify(r) \/ Submit(r) \/ Poll(r) \/ ClaimLost(r)
  <2>1. /\ redis' = redis /\ seen' = seen
        /\ \A q \in Requests \ {r} : pc'[q] = pc[q] /\ reply'[q] = reply[q]
        /\ reply'[r].outcome = "success" => reply'[r] = reply[r]
        /\ pc'[r] \in {"submit", "saveFailed", "saveHash"} =>
             pc[r] \in {"submit", "saveFailed", "saveHash"}
        /\ pc'[r] \in {"poll", "saveConfirmed", "saveTimeout"} =>
             pc[r] \in {"poll", "saveConfirmed", "saveTimeout"}
        /\ pc'[r] \notin {"query", "saveSeen"}
    BY <1>4 DEF Verify, Submit, SubmitAccepted, SubmitInvalid, SubmitTransient, SubmitError,
       Refused, Poll, GetTransaction, ClaimLost, locals, TypeInv, TypeOK
  <2>2. RecordKnown(r)'
    BY <1>1, <1>3, <2>1 DEF RecordKnown
  <2> QED BY <1>3, <2>1, <2>2, WriteKeeps
<1>5. CASE ClaimWon(r) \/ ClaimResent(r)
  <2>1. /\ redis[t].status = "none" /\ seen' = seen
        /\ redis' = redis \/ redis' = [redis EXCEPT ![t] = InitialRecord]
        /\ \A q \in Requests \ {r} : pc'[q] = pc[q] /\ reply'[q] = reply[q]
        /\ reply'[r].outcome = "success" => reply'[r] = reply[r]
        /\ pc'[r] \in {"submit", "getRecord", "done"}
        /\ pc'[r] = "submit" => redis' = [redis EXCEPT ![t] = InitialRecord]
    BY <1>5 DEF ClaimWon, ClaimResent, SetRecord, locals, TypeInv, TypeOK
  <2>2. /\ \A u \in Txs \ {t} : redis'[u] = redis[u]
        /\ redis'[t] = redis[t] \/ redis'[t] = InitialRecord
        /\ pc'[r] = "submit" => redis'[t] = InitialRecord
    BY <1>1, <2>1
  <2>3. reply[r].outcome # "success"
    BY <1>1, <2>1 DEF RecordKnown, RecordShape, HashStatuses
  <2>4. RecordKnown(r)'
    BY <1>3, <2>1, <2>2, <2>3 DEF RecordKnown
  <2> QED BY <1>3, <2>1, <2>2, <2>4, WriteKeeps
<1>6. CASE SaveFailed(r)
  <2>1. /\ pc[r] = "saveFailed" /\ seen' = seen
        /\ redis' = redis \/ redis' = [redis EXCEPT ![t] = FailedRecord(why[r])]
        /\ \A q \in Requests \ {r} : pc'[q] = pc[q] /\ reply'[q] = reply[q]
        /\ reply'[r].outcome # "success" /\ pc'[r] = "done"
    BY <1>1, <1>6 DEF SaveFailed, SetRecord, locals, TypeInv, TypeOK
  <2>2. /\ \A u \in Txs \ {t} : redis'[u] = redis[u]
        /\ redis'[t] = redis[t] \/ redis'[t] = FailedRecord(why[r])
    BY <1>1, <2>1
  <2>3. RecordKnown(r)'
    BY <2>1 DEF RecordKnown
  <2>4. \/ redis'[t] = redis[t]
        \/ redis'[t].status = "failed" /\ redis'[t].hash = FALSE
    BY <1>2, <2>2
  <2>5. \A q \in Requests \ {r} : pc'[q] = pc[q] /\ seen'[q] = seen[q] /\ reply'[q] = reply[q]
    BY <2>1
  <2>6. pc[r] = "saveFailed" /\ \A u \in Txs \ {tx[r]} : redis'[u] = redis[u]
    BY <2>1, <2>2
  <2> HIDE DEF t
  <2> QED BY <1>3, <2>3, <2>4, <2>5, <2>6, WriteKeeps DEF t
<1>7. CASE SaveHash(r) \/ SaveConfirmed(r) \/ SaveTimeout(r)
  <2>1. PICK record \in {SubmittedRecord, ConfirmedRecord, TimeoutRecord} :
          /\ redis' = redis \/ redis' = [redis EXCEPT ![t] = record]
          /\ pc'[r] = "poll" \/ reply'[r].outcome = "success" =>
               redis' = [redis EXCEPT ![t] = record]
    BY <1>7 DEF SaveHash, SaveConfirmed, SaveTimeout, SetRecord, TypeInv, TypeOK
  <2>2. /\ pc[r] \in {"saveHash", "saveConfirmed", "saveTimeout"} /\ seen' = seen
        /\ \A q \in Requests \ {r} : pc'[q] = pc[q] /\ reply'[q] = reply[q]
        /\ pc'[r] \in {"poll", "done"}
    BY <1>7 DEF SaveHash, SaveConfirmed, SaveTimeout, SetRecord, locals, TypeInv, TypeOK
  <2>3. /\ \A u \in Txs \ {t} : redis'[u] = redis[u]
        /\ redis'[t] = redis[t] \/ redis'[t] = record
        /\ pc'[r] = "poll" \/ reply'[r].outcome = "success" => redis'[t] = record
    BY <1>1, <2>1
  <2>4. redis[t].hash \/ pc[r] = "saveHash"
    BY <1>1, <2>2 DEF RecordKnown
  <2>5. RecordKnown(r)'
    BY <1>2, <1>3, <2>2, <2>3 DEF RecordKnown
  <2> QED BY <1>2, <1>3, <2>2, <2>3, <2>4, <2>5, WriteKeeps
<1>8. CASE ReadRecord(r)
  <2>1. redis' = redis /\ \A q \in Requests \ {r} : seen'[q] = seen[q]
    BY <1>8 DEF ReadRecord, TypeInv, TypeOK
  <2>2. /\ pc'[r] \in {"query", "done"}
        /\ \A q \in Requests \ {r} : pc'[q] = pc[q] /\ reply'[q] = reply[q]
        /\ pc'[r] = "query" => seen'[r] = redis[t] /\ reply' = reply
        /\ reply'[r].outcome = "success" => redis[t].hash
    <3>1. redis[t].reason # "success"
      BY <1>1 DEF Records, Reasons
    <3>2. CASE Throw(r)
      BY <3>2 DEF TypeInv, TypeOK
    <3>3. CASE seen' = [seen EXCEPT ![r] = redis[t]] /\ Dispatch(r, redis[t])
      <4>1. \/ Answer(r, "internal_error", FALSE)
            \/ redis[t].status = "confirmed" /\ Answer(r, "success", redis[t].hash)
            \/ Proceed(r, "query")
            \/ redis[t].status = "failed" /\ Answer(r, redis[t].reason, FALSE)
        BY <1>1, <3>3, DispatchCases
      <4>2. seen'[r] = redis[t]
        BY <3>3 DEF TypeInv, TypeOK
      <4>3. pc \in [Requests -> ControlPoints] /\ reply \in [Requests -> Replies]
        BY DEF TypeInv, TypeOK
      <4>4. CASE Proceed(r, "query")
        BY <1>1, <4>2, <4>3, <4>4 DEF RecordKnown
      <4>5. CASE Answer(r, "internal_error", FALSE)
        BY <4>3, <4>5
      <4>6. CASE redis[t].status = "confirmed" /\ Answer(r, "success", redis[t].hash)
        BY <1>1, <4>3, <4>6 DEF RecordShape
      <4>7. CASE Answer(r, redis[t].reason, FALSE)
        BY <3>1, <4>3, <4>7
      <4> QED BY <4>1, <4>4, <4>5, <4>6, <4>7
    <3> QED BY <1>8, <3>2, <3>3 DEF ReadRecord
  <2>3. RecordKnown(r)'
    BY <1>3, <2>1, <2>2 DEF RecordKnown
  <2> QED BY <1>3, <2>1, <2>2, <2>3, WriteKeeps
<1>9. CASE Query(r)
  <2>1. /\ redis' = redis /\ seen' = seen /\ pc[r] = "query"
        /\ \A q \in Requests \ {r} : pc'[q] = pc[q] /\ reply'[q] = reply[q]
        /\ reply'[r].outcome = "success" => reply'[r] = reply[r]
        /\ pc'[r] \in {"saveSeen", "done"} /\ (pc'[r] = "saveSeen" => seen[r].hash)
    BY <1>9 DEF Query, GetTransaction, locals, TypeInv, TypeOK
  <2>2. RecordKnown(r)'
    BY <1>1, <1>3, <2>1 DEF RecordKnown
  <2> QED BY <1>3, <2>1, <2>2, WriteKeeps
<1>10. CASE SaveSeen(r)
  <2> DEFINE record == [seen[r] EXCEPT !.status = "confirmed"]
  <2>1. /\ pc[r] = "saveSeen" /\ seen' = seen
        /\ redis' = redis \/ redis' = [redis EXCEPT ![t] = record]
        /\ \A q \in Requests \ {r} : pc'[q] = pc[q] /\ reply'[q] = reply[q]
        /\ pc'[r] = "done"
    BY <1>10 DEF SaveSeen, SetRecord, locals, TypeInv, TypeOK
  <2>2. seen[r].hash /\ redis[t].hash
    BY <1>1, <2>1 DEF RecordKnown
  <2>3. record.hash /\ record.status = "confirmed"
    BY <1>1, <2>2 DEF Records
  <2> HIDE DEF record
  <2>4. /\ \A u \in Txs \ {t} : redis'[u] = redis[u]
        /\ redis'[t] = redis[t] \/ redis'[t] = record
    BY <1>1, <2>1
  <2>5. RecordKnown(r)'
    BY <1>3, <2>1, <2>2, <2>3, <2>4 DEF RecordKnown
  <2>6. record.status \in HashStatuses
    BY <2>3 DEF HashStatuses
  <2> QED BY <1>3, <2>1, <2>2, <2>3, <2>4, <2>5, <2>6, WriteKeeps
<1> QED BY <1>4, <1>5, <1>6, <1>7, <1>8, <1>9, <1>10 DEF Handle, Claim

LEMMA NextRecord ==
  ASSUME TypeInv, OwnerInv, RecordInv, [Next]_vars, ~keyLost'
  PROVE  RecordInv' /\ \A t \in Txs : Kept(t)
<1>1. ASSUME NEW r \in Requests, Handle(r) PROVE RecordInv' /\ \A t \in Txs : Kept(t)
  BY <1>1, HandleRecord
<1>2. CASE \E r \in Requests : Arrive(r)
  <2>1. PICK r \in Requests : Arrive(r)
    BY <1>2
  <2>2. UNCHANGED <<tx, redis, seen, reply>> /\ \A q \in Requests : pc'[q] = pc[q] \/ pc'[q] = "verify"
    BY <2>1 DEF Arrive, Proceed, GoTo, locals, TypeInv, TypeOK
  <2> QED BY <2>2 DEF RecordInv, RecordKnown, RecordShape, Kept
<1>3. CASE Chain \/ UNCHANGED vars
  <2>1. UNCHANGED <<tx, redis, seen, reply, pc>>
    BY <1>3 DEF Chain, Include, Invalidate, Lapse, locals, vars
  <2> QED BY <2>1 DEF RecordInv, RecordKnown, RecordShape, Kept
<1>4. CASE Crash
  <2>1. /\ UNCHANGED <<tx, redis, seen>>
        /\ \A q \in Requests : /\ pc'[q] \in {"idle", "done"}
                               /\ reply'[q].outcome = "success" => reply'[q] = reply[q]
    BY <1>4 DEF Crash, locals
  <2> QED BY <2>1 DEF RecordInv, RecordKnown, RecordShape, Kept
<1>5. ~Flush /\ \A t \in Txs : ~Expire(t)
  BY KeyNotLost
<1> QED BY <1>1, <1>2, <1>3, <1>4, <1>5 DEF Next

\* Until Redis lets a record go, every key has one owner and every request
\* knows what the record of its transaction still says.
KeysKept == TypeInv /\ (keyLost \/ (OwnerInv /\ RecordInv))

LEMMA NextKeysKept == KeysKept /\ [Next]_vars => KeysKept'
BY NextTypeInv, KeyNotLost, NextOwner, NextRecord DEF KeysKept

LEMMA RecordInvariant == Spec => []KeysKept
<1>1. Init => KeysKept
  BY InitTypeOK DEF Init, TypeInv, PollsLeft, OwnerInv, Owner, ClaimantPoints, RecordInv,
     RecordKnown, RecordShape, NoRecord, NoReply, Record, KeysKept
<1> QED BY <1>1, NextKeysKept, PTL DEF Spec

\* Who was told success finds a record that makes every duplicate a success,
\* as long as Redis has let no record go: late writes of duplicates and of a
\* poll that ran out of time do not take it back (settlePayment:211-215).
THEOREM SuccessStays == Spec => []SuccessIsRepeatable
<1>1. KeysKept => SuccessIsRepeatable
  BY DEF KeysKept, TypeInv, TypeOK, RecordInv, RecordKnown, RecordShape, HashStatuses, SuccessIsRepeatable,
     Honoured
<1> QED BY <1>1, RecordInvariant, PTL

\* As long as Redis has let no record go, a record keeps its hash and a failed
\* one stays as it is, whatever the requests that read it before an await
\* write after it (settlePayment:161-180, handleExistingRecord:253-258).
THEOREM RecordsGoForward == Spec => NothingTakenBack
<1>1. KeysKept /\ [Next]_vars =>
        [~keyLost' =>
           \A t \in Txs :
             /\ redis[t].hash => redis'[t].hash
             /\ redis[t].status = "failed" => redis'[t] = redis[t]]_vars
  BY KeyNotLost, NextRecord DEF KeysKept, Kept
<1> QED BY <1>1, RecordInvariant, PTL DEF Spec, NothingTakenBack

-----------------------------------------------------------------------------
(* The refinement                                                          *)

\* A transaction a node holds was asked for.
AskedFor ==
  \A t \in Txs : chain[t] \in {"pending", "onchain"} =>
    \E r \in Requests : tx[r] = t /\ pc[r] # "idle"

RefinementInv == TypeInv /\ LandedInv /\ AskedFor

\* The mapped variables.
Calls == [r \in Requests |-> CallOf(r)]
Paid == [t \in Txs |-> chain[t] = "onchain"]

-----------------------------------------------------------------------------
(* AskedFor is inductive.                                                  *)

LEMMA HandleNotIdle ==
  ASSUME TypeInv, NEW r \in Requests, Handle(r)
  PROVE  pc[r] # "idle" /\ pc[r] # "done" /\ pc'[r] # "idle" /\ tx' = tx
  <1> USE DEF Proceed, Answer, Throw, GoTo
  <1>t. pc \in [Requests -> ControlPoints]
    BY DEF TypeInv, TypeOK
  <1>1. CASE Verify(r)
    BY <1>1, <1>t DEF Verify
  <1>2. CASE Claim(r)
    BY <1>2, <1>t DEF Claim, ClaimWon, ClaimLost, ClaimResent, SetRecord
  <1>3. CASE Submit(r)
    BY <1>3, <1>t DEF Submit, SubmitAccepted, SubmitInvalid, SubmitTransient,
       SubmitError, Refused
  <1>4. CASE SaveFailed(r) \/ SaveHash(r)
    BY <1>4, <1>t DEF SaveFailed, SaveHash, SetRecord
  <1>5. CASE Poll(r)
    BY <1>5, <1>t DEF Poll, GetTransaction
  <1>6. CASE SaveConfirmed(r) \/ SaveTimeout(r)
    BY <1>6, <1>t DEF SaveConfirmed, SaveTimeout, SetRecord
  <1>7. CASE ReadRecord(r)
    <2>1. redis[tx[r]] \in Records
      BY DEF TypeInv, TypeOK
    <2> QED BY <1>7, <1>t, <2>1, DispatchCases DEF ReadRecord
  <1>8. CASE Query(r)
    BY <1>8, <1>t DEF Query, GetTransaction
  <1>9. CASE SaveSeen(r)
    BY <1>9, <1>t DEF SaveSeen, SetRecord
  <1> QED
    BY <1>1, <1>2, <1>3, <1>4, <1>5, <1>6, <1>7, <1>8, <1>9 DEF Handle

\* A step of a request leaves the other requests where they are, and none of
\* them goes back to where it has not arrived.
LEMMA HandlePoints ==
  ASSUME TypeInv, NEW r \in Requests, Handle(r)
  PROVE  /\ tx' = tx
         /\ pc[r] # "idle" /\ pc[r] # "done"
         /\ pc'[r] # "idle"
         /\ \A q \in Requests \ {r} : pc'[q] = pc[q] /\ reply'[q] = reply[q]
         /\ pc'[r] # "done" => reply' = reply
  <1>1. Ends(r)
    BY HandleEnds DEF TypeInv
  <1>4. \A q \in Requests \ {r} : pc'[q] = pc[q] /\ reply'[q] = reply[q]
    BY <1>1 DEF Ends, Proceed, Answer, GoTo, TypeInv, TypeOK
  <1>5. pc'[r] # "done" => reply' = reply
    BY <1>1 DEF Ends, Proceed, Answer, GoTo, TypeInv, TypeOK
  <1> QED BY <1>4, <1>5, HandleNotIdle

\* No step of a request puts a transaction on the chain.
LEMMA HandlePaid ==
  ASSUME TypeInv, NEW r \in Requests, Handle(r), NEW t \in Txs
  PROVE  /\ chain'[t] = "onchain" <=> chain[t] = "onchain"
         /\ chain'[t] = "pending" => chain[t] = "pending" \/ t = tx[r]
  <1>t. chain \in [Txs -> {"absent", "pending", "onchain", "invalid"}]
    BY DEF TypeInv, TypeOK
  <1>1. CASE Submit(r)
    BY <1>1, <1>t DEF Submit, SubmitAccepted, SubmitInvalid, SubmitTransient,
       SubmitError, Deliver
  <1>2. CASE ~Submit(r)
    BY <1>2 DEF Handle, Verify, Claim, ClaimWon, ClaimLost, ClaimResent,
       SaveFailed, SaveHash, Poll, SaveConfirmed, SaveTimeout, ReadRecord,
       Query, SaveSeen, ledger
  <1> QED BY <1>1, <1>2

LEMMA NextAskedFor ==
  ASSUME TypeInv, AskedFor, [Next]_vars
  PROVE  AskedFor'
  <1>t. /\ pc \in [Requests -> ControlPoints]
        /\ chain \in [Txs -> {"absent", "pending", "onchain", "invalid"}]
        /\ tx \in [Requests -> Txs]
    BY DEF TypeInv, TypeOK
  <1>1. ASSUME NEW r \in Requests, Arrive(r) PROVE AskedFor'
    BY <1>1, <1>t DEF Arrive, Proceed, GoTo, AskedFor, ledger
  <1>2. ASSUME NEW r \in Requests, Handle(r) PROVE AskedFor'
    <2> SUFFICES ASSUME NEW t \in Txs, chain'[t] \in {"pending", "onchain"}
                 PROVE  \E q \in Requests : tx'[q] = t /\ pc'[q] # "idle"
      BY DEF AskedFor
    <2>1. CASE t = tx[r]
      BY <1>2, <2>1, HandlePoints
    <2>2. CASE t # tx[r]
      <3>1. chain[t] \in {"pending", "onchain"}
        BY <1>2, <2>2, HandlePaid
      <3>2. PICK q \in Requests : tx[q] = t /\ pc[q] # "idle"
        BY <3>1 DEF AskedFor
      <3> QED BY <1>2, <3>2, HandlePoints
    <2> QED BY <2>1, <2>2
  <1>3. CASE Chain
    BY <1>3, <1>t DEF Chain, Include, Invalidate, Lapse, AskedFor
  <1>4. CASE (\E t \in Txs : Expire(t)) \/ Flush
    BY <1>4 DEF Expire, Flush, AskedFor, ledger
  <1>5. CASE Crash
    BY <1>5 DEF Crash, AskedFor, ledger
  <1>6. CASE UNCHANGED vars
    BY <1>6 DEF vars, AskedFor
  <1> QED
    BY <1>1, <1>2, <1>3, <1>4, <1>5, <1>6 DEF Next

-----------------------------------------------------------------------------
(* The simulation.                                                         *)

LEMMA InitMaps == Init => Service!ServiceInit
  BY DEF Init, Service!ServiceInit, CallOf

\* What the calls are after a step in terms of the control points and replies.
LEMMA SameCalls ==
  ASSUME \A r \in Requests : CallOf(r)' = CallOf(r)
  PROVE  Calls' = Calls
  BY DEF Calls

LEMMA SamePaid ==
  ASSUME \A t \in Txs : chain'[t] = "onchain" <=> chain[t] = "onchain"
  PROVE  Paid' = Paid
  BY DEF Paid

LEMMA ArriveMaps ==
  ASSUME RefinementInv, NEW r \in Requests, Arrive(r)
  PROVE  Service!Open(r)
  <1>1. /\ pc[r] = "idle" /\ pc' = [pc EXCEPT ![r] = "verify"]
        /\ reply' = reply /\ tx' = tx /\ chain' = chain
    BY DEF Arrive, Proceed, GoTo, ledger
  <1>2. pc \in [Requests -> ControlPoints]
    BY DEF RefinementInv, TypeInv, TypeOK
  <1>3. CallOf(r) = "none" /\ CallOf(r)' = "open"
    BY <1>1, <1>2 DEF CallOf
  <1>4. \A q \in Requests \ {r} : CallOf(q)' = CallOf(q)
    BY <1>1, <1>2 DEF CallOf
  <1>5. Calls[r] = "none" /\ Calls' = [Calls EXCEPT ![r] = "open"]
    BY <1>3, <1>4 DEF Calls
  <1>6. Paid' = Paid
    BY <1>1 DEF Paid
  <1> QED BY <1>1, <1>5, <1>6 DEF Service!Open, Calls, Paid

LEMMA HandleMaps ==
  ASSUME RefinementInv, LandedInv', NEW r \in Requests, Handle(r)
  PROVE  Service!ServiceNext \/ UNCHANGED Service!serviceVars
  <1>1. /\ tx' = tx /\ pc[r] # "idle" /\ pc[r] # "done" /\ pc'[r] # "idle"
        /\ \A q \in Requests \ {r} : pc'[q] = pc[q] /\ reply'[q] = reply[q]
    BY HandlePoints DEF RefinementInv
  <1>2. Paid' = Paid
    BY HandlePaid, SamePaid DEF RefinementInv
  <1>3. CallOf(r) = "open"
    BY <1>1 DEF CallOf
  <1>4. \A q \in Requests \ {r} : CallOf(q)' = CallOf(q)
    BY <1>1 DEF CallOf
  <1>5. CASE pc'[r] # "done"
    <2>1. CallOf(r)' = "open"
      BY <1>1, <1>5 DEF CallOf
    <2>2. Calls' = Calls
      BY <1>3, <1>4, <2>1, SameCalls
    <2> QED BY <1>1, <1>2, <2>2 DEF Service!serviceVars, Calls, Paid
  <1>6. CASE pc'[r] = "done" /\ reply'[r].outcome = "success"
    <2>1. CallOf(r)' = "yes"
      BY <1>6 DEF CallOf
    <2>2. Calls' = [Calls EXCEPT ![r] = "yes"] /\ Calls[r] = "open"
      BY <1>3, <1>4, <2>1 DEF Calls
    <2>3. tx[r] \in Txs
      BY DEF RefinementInv, TypeInv, TypeOK
    <2>4. chain'[tx[r]] = "onchain"
      BY <1>1, <1>6 DEF LandedInv, SuccessMeansOnChain
    <2>5. Paid[tx[r]]
      BY <2>3, <2>4, HandlePaid DEF Paid, RefinementInv
    <2>6. Service!Succeed(r)
      BY <1>1, <1>2, <2>2, <2>5 DEF Service!Succeed, Calls, Paid
    <2> QED BY <2>6 DEF Service!ServiceNext
  <1>7. CASE pc'[r] = "done" /\ reply'[r].outcome # "success"
    <2>1. CallOf(r)' = "no"
      BY <1>7 DEF CallOf
    <2>2. Calls' = [q \in Requests |-> IF q \in {r} THEN "no" ELSE Calls[q]]
      BY <1>4, <2>1 DEF Calls
    <2>3. {r} # {} /\ \A q \in {r} : q \in Requests /\ Calls[q] = "open"
      BY <1>3 DEF Calls
    <2>4. Service!EndWithout({r})
      BY <1>1, <1>2, <2>2, <2>3
         DEF Service!EndWithout, Service!OpenCalls, Calls, Paid
    <2> QED BY <2>4 DEF Service!ServiceNext
  <1> QED BY <1>5, <1>6, <1>7

LEMMA IncludeMaps ==
  ASSUME RefinementInv, NEW t \in Txs, Include(t)
  PROVE  Service!Land(t)
  <1>1. /\ chain[t] = "pending" /\ chain' = [chain EXCEPT ![t] = "onchain"]
        /\ pc' = pc /\ reply' = reply /\ tx' = tx
    BY DEF Include
  <1>2. chain \in [Txs -> {"absent", "pending", "onchain", "invalid"}]
    BY DEF RefinementInv, TypeInv, TypeOK
  <1>3. PICK r \in Requests : tx[r] = t /\ pc[r] # "idle"
    BY <1>1 DEF RefinementInv, AskedFor
  <1>4. CallOf(r) # "none"
    BY <1>3 DEF CallOf
  <1>5. Calls[r] # "none"
    BY <1>4 DEF Calls
  <1>6. Calls' = Calls
    BY <1>1, SameCalls DEF CallOf
  <1>7. ~Paid[t] /\ Paid' = [Paid EXCEPT ![t] = TRUE]
    BY <1>1, <1>2 DEF Paid
  <1> QED BY <1>1, <1>3, <1>5, <1>6, <1>7 DEF Service!Land, Calls, Paid

LEMMA QuietMaps ==
  ASSUME RefinementInv,
         \/ \E t \in Txs : Invalidate(t) \/ Lapse(t) \/ Expire(t)
         \/ Flush
         \/ UNCHANGED vars
  PROVE  UNCHANGED Service!serviceVars
  <1>1. pc' = pc /\ reply' = reply /\ tx' = tx
    BY DEF Invalidate, Lapse, Expire, Flush, vars
  <1>2. chain \in [Txs -> {"absent", "pending", "onchain", "invalid"}]
    BY DEF RefinementInv, TypeInv, TypeOK
  <1>3. \A t \in Txs : chain'[t] = "onchain" <=> chain[t] = "onchain"
    BY <1>2 DEF Invalidate, Lapse, Expire, Flush, vars, ledger
  <1>4. Calls' = Calls
    BY <1>1, SameCalls DEF CallOf
  <1>5. Paid' = Paid
    BY <1>3, SamePaid
  <1> QED BY <1>1, <1>4, <1>5 DEF Service!serviceVars, Calls, Paid

LEMMA CrashMaps ==
  ASSUME RefinementInv, Crash
  PROVE  Service!ServiceNext
  <1> DEFINE cut == {r \in Requests : pc[r] \notin {"idle", "done"}}
  <1>1. /\ cut # {} /\ tx' = tx /\ chain' = chain
        /\ \A r \in Requests :
             pc'[r] = IF pc[r] = "idle" THEN "idle" ELSE "done"
        /\ \A r \in Requests :
             reply'[r] = IF pc[r] \in {"idle", "done"}
                           THEN reply[r]
                           ELSE [outcome |-> "aborted", hash |-> FALSE]
    BY DEF Crash, ledger
  <1>2. \A r \in Requests : CallOf(r)' = IF r \in cut THEN "no" ELSE CallOf(r)
    BY <1>1 DEF CallOf
  <1>3. \A r \in cut : r \in Requests /\ Calls[r] = "open"
    BY DEF CallOf, Calls
  <1>4. cut \in SUBSET Requests
    OBVIOUS
  <1> HIDE DEF cut
  <1>5. Calls' = [r \in Requests |-> IF r \in cut THEN "no" ELSE Calls[r]]
    BY <1>2 DEF Calls
  <1>6. Paid' = Paid
    BY <1>1 DEF Paid
  <1>7. Service!EndWithout(cut)
    BY <1>1, <1>3, <1>5, <1>6
       DEF Service!EndWithout, Service!OpenCalls, Calls, Paid
  <1> QED BY <1>4, <1>7 DEF Service!ServiceNext

LEMMA NextMaps ==
  RefinementInv /\ LandedInv' /\ [Next]_vars
    => [Service!ServiceNext]_Service!serviceVars
  <1> SUFFICES ASSUME RefinementInv, LandedInv', [Next]_vars
               PROVE  Service!ServiceNext \/ UNCHANGED Service!serviceVars
    OBVIOUS
  <1>1. ASSUME NEW r \in Requests, Arrive(r) PROVE Service!ServiceNext
    BY <1>1, ArriveMaps DEF Service!ServiceNext
  <1>2. ASSUME NEW t \in Txs, Include(t) PROVE Service!ServiceNext
    BY <1>2, IncludeMaps DEF Service!ServiceNext
  <1> QED
    BY <1>1, <1>2, HandleMaps, QuietMaps, CrashMaps DEF Next, Chain

\* The settlement does what its callers are promised (settle-payment.ts:117-271
\* behind routes/settle.ts:38-101): a call succeeds only when its transaction
\* is on the chain, and no transaction gets there unasked.
THEOREM ImplementsServiceSafely == Spec => Service!ServiceSpec
  <1>1. Init => RefinementInv
    BY InitTypeOK DEF Init, RefinementInv, TypeInv, PollsLeft, LandedInv,
       FoundOnChain, SuccessMeansOnChain, ConfirmedMeansOnChain, NoReply,
       NoRecord, Record, AskedFor
  <1>2. RefinementInv /\ [Next]_vars => RefinementInv'
    BY NextTypeInv, NextLanded, NextAskedFor DEF RefinementInv, TypeInv
  <1>3. RefinementInv' => LandedInv'
    BY DEF RefinementInv
  <1> QED
    BY <1>1, <1>2, <1>3, InitMaps, NextMaps, PTL DEF Spec, Service!ServiceSpec

=============================================================================
