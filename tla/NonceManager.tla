---------------------------- MODULE NonceManager ----------------------------
(***************************************************************************)
(* PendingNonceManager under Eip155ChainProvider::send_transaction         *)
(* (x402-rs-main/crates/chains/x402-chain-eip155/src/chain/                *)
(* pending_nonce_manager.rs, provider.rs).                                 *)
(*                                                                         *)
(* Tasks of an async runtime send transactions from a few signers.  A task *)
(* is polled by a worker thread; an await gives the worker back, but the   *)
(* lock of a DashMap shard blocks the worker itself until it is free.      *)
(* The node keeps, per signer, the nonces mined and those in its pool.     *)
(***************************************************************************)
EXTENDS Naturals, FiniteSets

CONSTANTS
  Tasks,     \* calls of send_transaction
  NSigners,  \* signer_addresses.len()
  Workers,   \* worker threads of the runtime
  Faults     \* the faults that may occur, of those named below

ASSUME NonceAssumption ==
  /\ IsFiniteSet(Tasks) /\ "nobody" \notin Tasks
  /\ NSigners \in Nat \ {0}
  /\ Workers \in Nat \ {0}
  /\ Faults \subseteq {"rpc",       \* a request to the node fails
                       "timeout",   \* the receipt does not come in time
                       "cancel",    \* the client goes, the task is dropped
                       "restart"}   \* the process ends and starts again

Signers == 0..(NSigners - 1)

\* Every task uses one nonce; NONE stands for the sentinel u64::MAX.
Nonces == 0..Cardinality(Tasks)
NONE == Cardinality(Tasks) + 1

VARIABLES
  cursor,  \* signer_cursor, modulo the number of signers
  pc,      \* what each task waits for
  signer,  \* the signer it was given
  nonce,   \* the nonce it was given
  cache,   \* the nonce in each signer's mutex
  owner,   \* the task that holds the mutex across an await
  mined,   \* the number of mined transactions of each signer
  pool,    \* the nonces of its transactions in the node's pool
  reset    \* history: the signers whose count was thrown away

vars == <<cursor, pc, signer, nonce, cache, owner, mined, pool, reset>>
node == <<mined, pool>>

Nobody == "nobody"

TypeOK ==
  /\ cursor \in Signers
  /\ pc \in [Tasks -> {"idle", "entry", "blocked", "lock", "fetch", "send",
                       "receipt", "reset", "resetLock", "done"}]
  /\ signer \in [Tasks -> Signers]
  /\ nonce \in [Tasks -> Nonces \cup {NONE}]
  /\ cache \in [Signers -> Nonces \cup {NONE}]
  /\ owner \in [Signers -> Tasks \cup {Nobody}]
  /\ mined \in [Signers -> Nonces]
  /\ pool \in [Signers -> SUBSET Nonces]
  /\ reset \subseteq Signers

Init ==
  /\ cursor = 0
  /\ pc = [t \in Tasks |-> "idle"]
  /\ signer = [t \in Tasks |-> 0]
  /\ nonce = [t \in Tasks |-> NONE]
  /\ cache = [a \in Signers |-> NONE]
  /\ owner = [a \in Signers |-> Nobody]
  /\ mined = [a \in Signers |-> 0]
  /\ pool = [a \in Signers |-> {}]
  /\ reset = {}

-----------------------------------------------------------------------------

\* reset_nonce keeps its reference into the map while it awaits the mutex;
\* two signers are taken to be in two shards.
ShardHeld(a) == \E t \in Tasks : pc[t] = "resetLock" /\ signer[t] = a

\* A worker is left to poll a task.
FreeWorker == Cardinality({t \in Tasks : pc[t] = "blocked"}) < Workers

At(t, point) == FreeWorker /\ pc[t] = point
GoTo(t, point) == pc' = [pc EXCEPT ![t] = point]

\* eth_getTransactionCount(pending): past what is mined and what follows it
\* in the pool without a gap.
PendingCount(a) ==
  CHOOSE n \in mined[a]..(Cardinality(Tasks) + 1) :
    n \notin pool[a] /\ \A m \in mined[a]..(n - 1) : m \in pool[a]

-----------------------------------------------------------------------------
(* send_transaction up to the nonce                                        *)

\* The next signer; the gas price or the estimate may fail, and then no
\* nonce was taken and none is reset.
Start(t) ==
  /\ At(t, "idle")
  /\ signer' = [signer EXCEPT ![t] = cursor]
  /\ cursor' = (cursor + 1) % NSigners
  /\ \/ GoTo(t, "entry")
     \/ "rpc" \in Faults /\ GoTo(t, "done")
  /\ UNCHANGED <<nonce, cache, owner, node, reset>>

\* nonces.entry() takes the shard for writing, for an instant, or blocks.
Entry(t) ==
  /\ At(t, "entry")
  /\ GoTo(t, IF ShardHeld(signer[t]) THEN "blocked" ELSE "lock")
  /\ UNCHANGED <<cursor, signer, nonce, cache, owner, node, reset>>

\* The shard is free again.
Unblock(t) ==
  /\ pc[t] = "blocked"
  /\ ~ShardHeld(signer[t])
  /\ GoTo(t, "lock")
  /\ UNCHANGED <<cursor, signer, nonce, cache, owner, node, reset>>

\* Mutant: the mutex is let go while the node is asked.
LockAndLetGo(t) ==
  LET a == signer[t] IN
  /\ At(t, "lock")
  /\ owner[a] = Nobody
  /\ IF cache[a] = NONE
       THEN GoTo(t, "fetch") /\ UNCHANGED <<nonce, cache>>
       ELSE /\ nonce' = [nonce EXCEPT ![t] = cache[a] + 1]
            /\ cache' = [cache EXCEPT ![a] = cache[a] + 1]
            /\ GoTo(t, "send")
  /\ UNCHANGED <<cursor, signer, owner, node, reset>>

\* The mutex is free: count on, or keep it and ask the node.
Lock(t) ==
  LET a == signer[t] IN
  /\ At(t, "lock")
  /\ owner[a] = Nobody
  /\ IF cache[a] = NONE
       THEN /\ owner' = [owner EXCEPT ![a] = t]
            /\ GoTo(t, "fetch")
            /\ UNCHANGED <<nonce, cache>>
       ELSE /\ nonce' = [nonce EXCEPT ![t] = cache[a] + 1]
            /\ cache' = [cache EXCEPT ![a] = cache[a] + 1]
            /\ GoTo(t, "send")
            /\ UNCHANGED owner
  /\ UNCHANGED <<cursor, signer, node, reset>>

\* Mutant: the cache holds the next nonce and not the last one.
FetchedNext(t) ==
  LET a == signer[t] IN
  /\ At(t, "fetch")
  /\ owner' = [owner EXCEPT ![a] = Nobody]
  /\ \/ /\ nonce' = [nonce EXCEPT ![t] = PendingCount(a)]
        /\ cache' = [cache EXCEPT ![a] = PendingCount(a) + 1]
        /\ GoTo(t, "send")
     \/ /\ "rpc" \in Faults
        /\ GoTo(t, "reset")
        /\ UNCHANGED <<nonce, cache>>
  /\ UNCHANGED <<cursor, signer, node, reset>>

\* Mutant: an error leaves the mutex locked.
FetchedStillLocked(t) ==
  LET a == signer[t] IN
  /\ At(t, "fetch")
  /\ \/ /\ nonce' = [nonce EXCEPT ![t] = PendingCount(a)]
        /\ cache' = [cache EXCEPT ![a] = PendingCount(a)]
        /\ owner' = [owner EXCEPT ![a] = Nobody]
        /\ GoTo(t, "send")
     \/ /\ "rpc" \in Faults
        /\ GoTo(t, "reset")
        /\ UNCHANGED <<nonce, cache, owner>>
  /\ UNCHANGED <<cursor, signer, node, reset>>

\* The node answers, or the error leaves get_next_nonce and the mutex.
Fetched(t) ==
  LET a == signer[t] IN
  /\ At(t, "fetch")
  /\ owner' = [owner EXCEPT ![a] = Nobody]
  /\ \/ /\ nonce' = [nonce EXCEPT ![t] = PendingCount(a)]
        /\ cache' = [cache EXCEPT ![a] = PendingCount(a)]
        /\ GoTo(t, "send")
     \/ /\ "rpc" \in Faults
        /\ GoTo(t, "reset")
        /\ UNCHANGED <<nonce, cache>>
  /\ UNCHANGED <<cursor, signer, node, reset>>

-----------------------------------------------------------------------------
(* send_transaction with the nonce                                         *)

Taken(a) == {n \in Nonces : n < mined[a]} \cup pool[a]
IntoPool(t) == pool' = [pool EXCEPT ![signer[t]] = @ \cup {nonce[t]}]

\* The node takes the transaction, behind a gap too.
Accepted(t) ==
  /\ At(t, "send")
  /\ nonce[t] \notin Taken(signer[t])
  /\ IntoPool(t)
  /\ GoTo(t, "receipt")
  /\ UNCHANGED <<cursor, signer, nonce, cache, owner, mined, reset>>

\* The nonce is used up, or another transaction in the pool has it.
Rejected(t) ==
  /\ At(t, "send")
  /\ nonce[t] \in Taken(signer[t])
  /\ GoTo(t, "reset")
  /\ UNCHANGED <<cursor, signer, nonce, cache, owner, node, reset>>

\* The request fails, before or after the node took the transaction.
SendFails(t) ==
  /\ "rpc" \in Faults
  /\ At(t, "send")
  /\ UNCHANGED pool \/ (nonce[t] \notin Taken(signer[t]) /\ IntoPool(t))
  /\ GoTo(t, "reset")
  /\ UNCHANGED <<cursor, signer, nonce, cache, owner, mined, reset>>

Receipt(t) ==
  /\ At(t, "receipt")
  /\ nonce[t] < mined[signer[t]]
  /\ GoTo(t, "done")
  /\ UNCHANGED <<cursor, signer, nonce, cache, owner, node, reset>>

NoReceipt(t) ==
  /\ "timeout" \in Faults
  /\ At(t, "receipt")
  /\ GoTo(t, "reset")
  /\ UNCHANGED <<cursor, signer, nonce, cache, owner, node, reset>>

-----------------------------------------------------------------------------
(* reset_nonce                                                             *)

\* The next call asks the node again.
ThrowAway(signers) ==
  /\ cache' = [a \in Signers |-> IF a \in signers THEN NONE ELSE cache[a]]
  /\ reset' = reset \cup {a \in signers : cache[a] # NONE}

\* The mutex is free, and the reset is done at once.
ResetNow(t) ==
  /\ At(t, "reset")
  /\ owner[signer[t]] = Nobody
  /\ ThrowAway({signer[t]})
  /\ GoTo(t, "done")
  /\ UNCHANGED <<cursor, signer, nonce, owner, node>>

\* Another task asks the node: wait for it, with the shard read-locked.
ResetWaits(t) ==
  /\ At(t, "reset")
  /\ owner[signer[t]] # Nobody
  /\ GoTo(t, "resetLock")
  /\ UNCHANGED <<cursor, signer, nonce, cache, owner, node, reset>>

ResetAfterWait(t) ==
  /\ At(t, "resetLock")
  /\ owner[signer[t]] = Nobody
  /\ ThrowAway({signer[t]})
  /\ GoTo(t, "done")
  /\ UNCHANGED <<cursor, signer, nonce, owner, node>>

-----------------------------------------------------------------------------
(* The node and the process                                                *)

Mine(a) ==
  /\ mined[a] \in pool[a]
  /\ pool' = [pool EXCEPT ![a] = @ \ {mined[a]}]
  /\ mined' = [mined EXCEPT ![a] = @ + 1]
  /\ UNCHANGED <<cursor, pc, signer, nonce, cache, owner, reset>>

Restart ==
  /\ "restart" \in Faults
  /\ \E t \in Tasks : pc[t] \notin {"idle", "done"}
  /\ cursor' = 0
  /\ pc' = [t \in Tasks |-> IF pc[t] = "idle" THEN "idle" ELSE "done"]
  /\ ThrowAway(Signers)
  /\ owner' = [a \in Signers |-> Nobody]
  /\ UNCHANGED <<signer, nonce, node>>

\* The HTTP client is gone and the runtime drops the task at its await,
\* with the locks it holds; a request under way may still be answered.
Cancel(t) ==
  /\ "cancel" \in Faults
  /\ pc[t] \in {"lock", "fetch", "send", "receipt", "resetLock"}
  /\ owner' = [a \in Signers |-> IF owner[a] = t THEN Nobody ELSE owner[a]]
  /\ \/ UNCHANGED pool
     \/ pc[t] = "send" /\ nonce[t] \notin Taken(signer[t]) /\ IntoPool(t)
  /\ GoTo(t, "done")
  /\ UNCHANGED <<cursor, signer, nonce, cache, mined, reset>>

Polled(t) ==
  \/ Entry(t) \/ Lock(t) \/ Fetched(t)
  \/ Accepted(t) \/ Rejected(t) \/ SendFails(t) \/ Receipt(t) \/ NoReceipt(t)
  \/ ResetNow(t) \/ ResetWaits(t) \/ ResetAfterWait(t)

Next ==
  \/ \E t \in Tasks : Start(t) \/ Polled(t) \/ Unblock(t) \/ Cancel(t)
  \/ \E a \in Signers : Mine(a)
  \/ Restart

Spec == Init /\ [][Next]_vars

\* The runtime polls what is ready, requests to the node end, the receipt is
\* there or late, and the node mines what is due.
FairSpec ==
  /\ Spec
  /\ \A t \in Tasks : WF_vars(Polled(t)) /\ WF_vars(Unblock(t))
  /\ \A a \in Signers : WF_vars(Mine(a))

-----------------------------------------------------------------------------
(* Properties                                                              *)

HasNonce(t) == pc[t] \in {"send", "receipt"}

SameNonce(t1, t2) ==
  /\ HasNonce(t1) /\ HasNonce(t2)
  /\ signer[t1] = signer[t2] /\ nonce[t1] = nonce[t2]

\* The mutex, kept while the node is asked and dropped after the count, is
\* enough for two tasks under way never to be given one nonce, errors and
\* cancelled calls included, unless a reset or a restart threw the count of
\* their signer away (get_next_nonce:53-76).
UniqueNonces ==
  \A t1, t2 \in Tasks :
    SameNonce(t1, t2) => t1 = t2 \/ signer[t1] \in reset

\* The manager never skips a nonce: what is missing below a transaction in
\* the pool was given to a call that failed, was dropped, or is still to
\* send it; resets, restarts and the gaps they meet included
\* (get_next_nonce:63-76, provider.rs:286-311).
NoNonceSkipped ==
  \A a \in Signers : \A n \in pool[a] : \A m \in mined[a]..n :
    m \in pool[a] \/ \E t \in Tasks : signer[t] = a /\ nonce[t] = m

\* "We also don't want to hold the dashmap lock through the await point"
\* (pending_nonce_manager.rs:54): no map lock keeps a call from its end.
EveryCallEnds ==
  \A t \in Tasks : pc[t] # "idle" ~> pc[t] = "done"

=============================================================================
