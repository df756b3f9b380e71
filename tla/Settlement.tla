----------------------------- MODULE Settlement -----------------------------
(***************************************************************************)
(* POST /settle: re-verify, claim the deduplication key, submit, poll.     *)
(*                                                                         *)
(* Every request is one run of settlePayment (src/settle/settle-payment.ts)*)
(* inside the route handler of src/routes/settle.ts.  A run gives up the   *)
(* event loop at every await, so a request is a process with one control   *)
(* point per awaited call and all requests interleave.  They share the     *)
(* deduplication records in Redis and, through Blockfrost, the chain.      *)
(*                                                                         *)
(* A transaction stands for the CBOR bytes of the request, for their       *)
(* SHA-256 key and for the hash Blockfrost returns.  Of txHash the model   *)
(* keeps whether it is known ('' before step 4 of settlePayment).          *)
(*                                                                         *)
(* The chain is as Blockfrost shows it: "onchain" once GET /txs/{hash}     *)
(* finds the transaction, "pending" from the moment a node holds it.       *)
(* Rollbacks are not modelled: the code looks once (depth 1).              *)
(***************************************************************************)
EXTENDS Naturals

CONSTANTS
  Requests,      \* the POST /settle calls that may arrive
  Txs,           \* the signed transactions they carry
  MaxAttempts,   \* MAX_RETRIES + 1: submission attempts of one withRetry
  MaxPolls,      \* POLL_TIMEOUT_MS / POLL_INTERVAL_MS: queries of one poll
  Faults         \* the faults that may occur, of those named below

ASSUME SettlementAssumption ==
  /\ MaxAttempts \in Nat \ {0}
  /\ MaxPolls \in Nat \ {0}
  /\ Faults \subseteq {"crash",    \* the process dies and is restarted
                       "redis",    \* a Redis command fails or is resent
                       "expire",   \* DEDUP_TTL_SECONDS pass, key unused
                       "flush"}    \* Redis loses its data at any time

VARIABLES
  pc,          \* the call each request waits for
  tx,          \* the transaction it carries
  attempt,     \* the submission attempt withRetry is in
  polls,       \* queries pollConfirmation has made
  why,         \* the reason a refused submission will be recorded with
  seen,        \* the record a duplicate read from Redis
  reply,       \* the answer sent
  redis,       \* the deduplication record of each transaction
  chain,       \* the transaction as Blockfrost shows it
  lapsed,      \* TRUE once the current slot is past the TTL
  submitters,  \* history: the requests that handed it to Blockfrost
  keyLost      \* history: Redis has let a record go

vars == <<pc, tx, attempt, polls, why, seen, reply, redis, chain, lapsed,
          submitters, keyLost>>

\* What settlePayment's records say.  status "none" is a missing key.
Reasons == {"invalid_transaction", "submission_rejected"}
Statuses == {"none", "submitted", "confirmed", "timeout", "failed"}
Records == [status : Statuses, hash : BOOLEAN, reason : Reasons \cup {"none"}]

Record(status, hash, reason) ==
  [status |-> status, hash |-> hash, reason |-> reason]
NoRecord == Record("none", FALSE, "none")

\* initialRecord, and the records that spread it or submittedRecord.
InitialRecord == Record("submitted", FALSE, "none")
SubmittedRecord == Record("submitted", TRUE, "none")
ConfirmedRecord == Record("confirmed", TRUE, "none")
FailedRecord(reason) == Record("failed", FALSE, reason)

\* Mutant: the timeout record spreads initialRecord, as the failed one does.
TimeoutRecordOfInitial == Record("timeout", FALSE, "none")
TimeoutRecord == Record("timeout", TRUE, "none")

\* SettleResult, "http500" for an exception that reached the route handler
\* and "aborted" for a connection cut by a crash.
Outcomes == {"success", "verification_failed", "confirmation_timeout",
             "internal_error", "http500", "aborted"} \cup Reasons
Replies == [outcome : Outcomes \cup {"none"}, hash : BOOLEAN]
NoReply == [outcome |-> "none", hash |-> FALSE]

ControlPoints == {"idle", "verify", "claim", "submit", "saveFailed",
                  "saveHash", "poll", "saveConfirmed", "saveTimeout",
                  "getRecord", "query", "saveSeen", "done"}

\* Between winning SET NX and the last write of the record.
ClaimantPoints == {"submit", "saveFailed", "saveHash", "poll",
                   "saveConfirmed", "saveTimeout"}

TypeOK ==
  /\ pc \in [Requests -> ControlPoints]
  /\ tx \in [Requests -> Txs]
  /\ attempt \in [Requests -> 0..MaxAttempts]
  /\ polls \in [Requests -> 0..MaxPolls]
  /\ why \in [Requests -> Reasons \cup {"none"}]
  /\ seen \in [Requests -> Records]
  /\ reply \in [Requests -> Replies]
  /\ redis \in [Txs -> Records]
  /\ chain \in [Txs -> {"absent", "pending", "onchain", "invalid"}]
  /\ lapsed \in [Txs -> BOOLEAN]
  /\ submitters \in [Txs -> SUBSET Requests]
  /\ keyLost \in BOOLEAN

Init ==
  /\ pc = [r \in Requests |-> "idle"]
  /\ tx \in [Requests -> Txs]
  /\ attempt = [r \in Requests |-> 0]
  /\ polls = [r \in Requests |-> 0]
  /\ why = [r \in Requests |-> "none"]
  /\ seen = [r \in Requests |-> NoRecord]
  /\ reply = [r \in Requests |-> NoReply]
  /\ redis = [t \in Txs |-> NoRecord]
  /\ chain = [t \in Txs |-> "absent"]
  /\ lapsed = [t \in Txs |-> FALSE]
  /\ submitters = [t \in Txs |-> {}]
  /\ keyLost = FALSE

-----------------------------------------------------------------------------
(* Steps shared by the handlers                                            *)

locals == <<attempt, polls, why, seen>>
ledger == <<chain, lapsed, submitters>>

GoTo(r, point) == pc' = [pc EXCEPT ![r] = point]

Answer(r, outcome, hash) ==
  /\ GoTo(r, "done")
  /\ reply' = [reply EXCEPT ![r] = [outcome |-> outcome, hash |-> hash]]

\* An awaited call threw: settlePayment rejects, the route answers HTTP 500.
Throw(r) == Answer(r, "http500", FALSE)

\* Nothing but the control point moves.
Proceed(r, point) == GoTo(r, point) /\ UNCHANGED reply

\* SET key record EX ttl, after which `Done` happens.  With Redis faults the
\* command may also throw, applied or not.
SetRecord(r, record, Done) ==
  \/ redis' = [redis EXCEPT ![tx[r]] = record] /\ Done
  \/ /\ "redis" \in Faults
     /\ \/ redis' = [redis EXCEPT ![tx[r]] = record]
        \/ UNCHANGED redis
     /\ Throw(r)

\* Mutant: a transaction a node merely holds counts as found.
GetTransactionOfMempool(r, hash, Found, Null) ==
  \/ hash /\ chain[tx[r]] \in {"pending", "onchain"} /\ Found
  \/ ~(hash /\ chain[tx[r]] = "onchain") /\ Null
  \/ Throw(r)

\* blockfrost.getTransaction: the transaction, null, or an exception once
\* the retries of withRetry are exhausted.  No transaction has the hash ''.
GetTransaction(r, hash, Found, Null) ==
  \/ hash /\ chain[tx[r]] = "onchain" /\ Found
  \/ ~(hash /\ chain[tx[r]] = "onchain") /\ Null
  \/ Throw(r)

-----------------------------------------------------------------------------
(* settlePayment                                                           *)

\* The request arrives and is parsed.
Arrive(r) ==
  /\ pc[r] = "idle"
  /\ Proceed(r, "verify")
  /\ UNCHANGED <<tx, keyLost, locals, redis, ledger>>

\* Step 1.  Whether the transaction pays what this request requires is the
\* request's own affair; a transaction past its TTL never passes.
Verify(r) ==
  /\ pc[r] = "verify"
  /\ \/ ~lapsed[tx[r]] /\ Proceed(r, "claim")
     \/ Answer(r, "verification_failed", FALSE)
     \/ Throw(r)
  /\ UNCHANGED <<tx, keyLost, locals, redis, ledger>>

\* Mutant: SET without NX.
ClaimWithoutNX(r) ==
  /\ pc[r] = "claim"
  /\ SetRecord(r, InitialRecord, Proceed(r, "submit"))
  /\ attempt' = [attempt EXCEPT ![r] = 1]
  /\ UNCHANGED <<tx, keyLost, polls, why, seen, ledger>>

\* Step 2, SET NX wins the key.
ClaimWon(r) ==
  /\ pc[r] = "claim"
  /\ redis[tx[r]].status = "none"
  /\ SetRecord(r, InitialRecord, Proceed(r, "submit"))
  /\ attempt' = [attempt EXCEPT ![r] = 1]
  /\ UNCHANGED <<tx, keyLost, polls, why, seen, ledger>>

\* Step 2, SET NX returns null.
ClaimLost(r) ==
  /\ pc[r] = "claim"
  /\ redis[tx[r]].status # "none"
  /\ Proceed(r, "getRecord") \/ ("redis" \in Faults /\ Throw(r))
  /\ UNCHANGED <<tx, keyLost, locals, redis, ledger>>

\* Step 2, the connection drops after Redis applied SET NX: ioredis resends
\* the command on reconnection, and finds the key taken by itself.
ClaimResent(r) ==
  /\ "redis" \in Faults
  /\ pc[r] = "claim"
  /\ redis[tx[r]].status = "none"
  /\ redis' = [redis EXCEPT ![tx[r]] = InitialRecord]
  /\ Proceed(r, "getRecord")
  /\ UNCHANGED <<tx, keyLost, locals, ledger>>

\* A node takes the bytes unless their inputs are spent or it holds them.
Deliver(t) ==
  chain' = [chain EXCEPT ![t] = IF @ = "absent" THEN "pending" ELSE @]

HandOver(r) ==
  submitters' = [submitters EXCEPT ![tx[r]] = @ \cup {r}]

Refused(r, reason) ==
  /\ why' = [why EXCEPT ![r] = reason]
  /\ Proceed(r, "saveFailed")

\* Step 3, Blockfrost returns the hash.
SubmitAccepted(r) ==
  /\ pc[r] = "submit"
  /\ chain[tx[r]] \in {"absent", "pending"}
  /\ Deliver(tx[r])
  /\ HandOver(r)
  /\ Proceed(r, "saveHash")
  /\ UNCHANGED <<tx, keyLost, attempt, polls, why, seen, redis, lapsed>>

\* Step 3, a 400: invalid, or already in a mempool or on the chain.
SubmitInvalid(r) ==
  /\ pc[r] = "submit"
  /\ chain[tx[r]] # "absent"
  /\ HandOver(r)
  /\ Refused(r, "invalid_transaction")
  /\ UNCHANGED <<tx, keyLost, attempt, polls, seen, redis, chain, lapsed>>

\* Step 3, a retryable error, before or after the node took the bytes: try
\* again, and on the last attempt throw a chain error.
SubmitTransient(r) ==
  /\ pc[r] = "submit"
  /\ Deliver(tx[r]) \/ UNCHANGED chain
  /\ HandOver(r)
  /\ \/ /\ attempt[r] < MaxAttempts
        /\ attempt' = [attempt EXCEPT ![r] = @ + 1]
        /\ UNCHANGED <<pc, reply, why>>
     \/ /\ attempt[r] = MaxAttempts
        /\ Refused(r, "submission_rejected")
        /\ UNCHANGED attempt
  /\ UNCHANGED <<tx, keyLost, polls, seen, redis, lapsed>>

\* Step 3, any other error is thrown at once.
SubmitError(r) ==
  /\ pc[r] = "submit"
  /\ Deliver(tx[r]) \/ UNCHANGED chain
  /\ HandOver(r)
  /\ Refused(r, "submission_rejected")
  /\ UNCHANGED <<tx, keyLost, attempt, polls, seen, redis, lapsed>>

\* The failed record spreads initialRecord: its txHash stays ''.
SaveFailed(r) ==
  /\ pc[r] = "saveFailed"
  /\ SetRecord(r, FailedRecord(why[r]), Answer(r, why[r], FALSE))
  /\ UNCHANGED <<tx, keyLost, locals, ledger>>

\* Step 4.
SaveHash(r) ==
  /\ pc[r] = "saveHash"
  /\ SetRecord(r, SubmittedRecord, Proceed(r, "poll"))
  /\ polls' = [polls EXCEPT ![r] = 0]
  /\ UNCHANGED <<tx, keyLost, attempt, why, seen, ledger>>

\* Mutant: the deadline is taken anew for every query.
PollNewDeadline(r) ==
  /\ pc[r] = "poll"
  /\ polls' = [polls EXCEPT ![r] = IF @ = 0 THEN 1 ELSE 0]
  /\ GetTransaction(r, TRUE, Proceed(r, "saveConfirmed"),
                    UNCHANGED <<pc, reply>>)
  /\ UNCHANGED <<tx, keyLost, attempt, why, seen, redis, ledger>>

\* Step 5.  The deadline falls after any query, at the latest after MaxPolls:
\* a query takes as long as its retries take.
Poll(r) ==
  /\ pc[r] = "poll"
  /\ polls' = [polls EXCEPT ![r] = @ + 1]
  /\ GetTransaction(r, TRUE,
       Proceed(r, "saveConfirmed"),
       \/ polls[r] + 1 < MaxPolls /\ UNCHANGED <<pc, reply>>
       \/ Proceed(r, "saveTimeout"))
  /\ UNCHANGED <<tx, keyLost, attempt, why, seen, redis, ledger>>

\* Mutant: the answer of a timed-out poll is a success.
SaveTimeoutAsSuccess(r) ==
  /\ pc[r] = "saveTimeout"
  /\ SetRecord(r, TimeoutRecord, Answer(r, "success", TRUE))
  /\ UNCHANGED <<tx, keyLost, locals, ledger>>

SaveConfirmed(r) ==
  /\ pc[r] = "saveConfirmed"
  /\ SetRecord(r, ConfirmedRecord, Answer(r, "success", TRUE))
  /\ UNCHANGED <<tx, keyLost, locals, ledger>>

\* The write is unconditional, whatever the record says by now.
SaveTimeout(r) ==
  /\ pc[r] = "saveTimeout"
  /\ SetRecord(r, TimeoutRecord, Answer(r, "confirmation_timeout", TRUE))
  /\ UNCHANGED <<tx, keyLost, locals, ledger>>

-----------------------------------------------------------------------------
(* handleExistingRecord                                                    *)

\* What a duplicate does with the record it read.
Dispatch(r, record) ==
  CASE record.status = "none" -> Answer(r, "internal_error", FALSE)
    [] record.status = "confirmed" -> Answer(r, "success", record.hash)
    [] record.status \in {"submitted", "timeout"} -> Proceed(r, "query")
    [] record.status = "failed" -> Answer(r, record.reason, FALSE)

ReadRecord(r) ==
  /\ pc[r] = "getRecord"
  /\ \/ /\ seen' = [seen EXCEPT ![r] = redis[tx[r]]]
        /\ Dispatch(r, redis[tx[r]])
     \/ "redis" \in Faults /\ Throw(r) /\ UNCHANGED seen
  /\ UNCHANGED <<tx, keyLost, attempt, polls, why, redis, ledger>>

Query(r) ==
  /\ pc[r] = "query"
  /\ GetTransaction(r, seen[r].hash,
       Proceed(r, "saveSeen"),
       Answer(r, "confirmation_timeout", seen[r].hash))
  /\ UNCHANGED <<tx, keyLost, locals, redis, ledger>>

\* The record read earlier, marked confirmed, replaces the one there now.
SaveSeen(r) ==
  /\ pc[r] = "saveSeen"
  /\ SetRecord(r, [seen[r] EXCEPT !.status = "confirmed"],
               Answer(r, "success", seen[r].hash))
  /\ UNCHANGED <<tx, keyLost, locals, ledger>>

-----------------------------------------------------------------------------
(* The chain, Redis and the process                                        *)

\* A block with the transaction becomes visible.
Include(t) ==
  /\ chain[t] = "pending"
  /\ chain' = [chain EXCEPT ![t] = "onchain"]
  /\ UNCHANGED <<pc, tx, keyLost, locals, reply, redis, lapsed, submitters>>

\* An input is spent by another transaction.
Invalidate(t) ==
  /\ chain[t] \in {"absent", "pending"}
  /\ chain' = [chain EXCEPT ![t] = "invalid"]
  /\ UNCHANGED <<pc, tx, keyLost, locals, reply, redis, lapsed, submitters>>

\* The slot passes the TTL: what is not on the chain will never be.
Lapse(t) ==
  /\ ~lapsed[t]
  /\ lapsed' = [lapsed EXCEPT ![t] = TRUE]
  /\ chain' = [chain EXCEPT ![t] = IF @ = "onchain" THEN @ ELSE "invalid"]
  /\ UNCHANGED <<pc, tx, keyLost, locals, reply, redis, submitters>>

Claimants(t) == {r \in Requests : tx[r] = t /\ pc[r] \in ClaimantPoints}

\* Every write renews the 24 hours, far longer than any claimant lives: a
\* record only expires when nobody is between its claim and its last write.
Expire(t) ==
  /\ "expire" \in Faults
  /\ redis[t].status # "none"
  /\ Claimants(t) = {}
  /\ redis' = [redis EXCEPT ![t] = NoRecord]
  /\ keyLost' = TRUE
  /\ UNCHANGED <<pc, tx, locals, reply, ledger>>

Flush ==
  /\ "flush" \in Faults
  /\ \E t \in Txs : redis[t].status # "none"
  /\ redis' = [t \in Txs |-> NoRecord]
  /\ keyLost' = TRUE
  /\ UNCHANGED <<pc, tx, locals, reply, ledger>>

\* Everything in the process is gone; Redis keeps what it had.
Crash ==
  /\ "crash" \in Faults
  /\ \E r \in Requests : pc[r] \notin {"idle", "done"}
  /\ pc' = [r \in Requests |-> IF pc[r] = "idle" THEN "idle" ELSE "done"]
  /\ reply' = [r \in Requests |->
                 IF pc[r] \in {"idle", "done"}
                   THEN reply[r]
                   ELSE [outcome |-> "aborted", hash |-> FALSE]]
  /\ UNCHANGED <<tx, keyLost, locals, redis, ledger>>

-----------------------------------------------------------------------------
Submit(r) == SubmitAccepted(r) \/ SubmitInvalid(r) \/ SubmitTransient(r)
             \/ SubmitError(r)

Claim(r) == ClaimWon(r) \/ ClaimLost(r) \/ ClaimResent(r)

Handle(r) ==
  \/ Verify(r) \/ Claim(r) \/ Submit(r) \/ SaveFailed(r) \/ SaveHash(r)
  \/ Poll(r) \/ SaveConfirmed(r) \/ SaveTimeout(r)
  \/ ReadRecord(r) \/ Query(r) \/ SaveSeen(r)

Chain == \E t \in Txs : Include(t) \/ Invalidate(t) \/ Lapse(t)

Next ==
  \/ \E r \in Requests : Arrive(r) \/ Handle(r)
  \/ Chain
  \/ \E t \in Txs : Expire(t)
  \/ Flush
  \/ Crash

Spec == Init /\ [][Next]_vars

\* Every awaited call settles: Blockfrost requests and Redis commands time
\* out, so a request that waits is eventually resumed.
FairSpec == Spec /\ \A r \in Requests : WF_vars(Handle(r))

-----------------------------------------------------------------------------
(* Properties                                                              *)

\* POST /settle waits for the chain: a success is only answered for a
\* transaction that is on it, whatever crashes, fails or is lost
\* (settlePayment:199-208, handleExistingRecord:243-260).
SuccessMeansOnChain ==
  \A r \in Requests :
    reply[r].outcome = "success" => chain[tx[r]] = "onchain" /\ reply[r].hash

\* A record says confirmed only of a transaction that is on the chain, so
\* that the next duplicate may answer from Redis alone
\* (handleExistingRecord:243-245).
ConfirmedMeansOnChain ==
  \A t \in Txs :
    redis[t].status = "confirmed" => chain[t] = "onchain" /\ redis[t].hash

\* SET NX: as long as Redis has let no record go, at most one request ever
\* hands a transaction to Blockfrost, however many arrive, crash or retry
\* (settlePayment:143-154).
AtMostOneSubmitter ==
  keyLost \/ \A t \in Txs : \A r1, r2 \in submitters[t] : r1 = r2

\* The settlement is idempotent for who was told it succeeded: as long as
\* Redis has let no record go, the record, late writes included, makes every
\* duplicate a success (settlePayment:211-215 against
\* handleExistingRecord:243-260).
Honoured(record) ==
  \/ record.status = "confirmed"
  \/ record.status \in {"submitted", "timeout"} /\ record.hash

SuccessIsRepeatable ==
  \A r \in Requests :
    reply[r].outcome = "success" /\ ~keyLost => Honoured(redis[tx[r]])

\* No late write takes back what a record says, although duplicates write what
\* they read before an await: as long as Redis has let no record go, a hash stays
\* in it, and "failed" stays for good (settlePayment:161-180, :211-215, :253-258).
NothingTakenBack ==
  [][~keyLost' =>
       \A t \in Txs :
         /\ redis[t].hash => redis'[t].hash
         /\ redis[t].status = "failed" => redis'[t] = redis[t]]_vars

\* Every request that arrived is answered or its connection is cut
\* (pollConfirmation:77-92 ends at its deadline).
EveryRequestAnswered ==
  \A r \in Requests : pc[r] # "idle" ~> pc[r] = "done"

=============================================================================
