# Verification of the x402 facilitator

TLA+ models, TLC runs and TLAPS proofs for this repository: a Cardano x402
payment facilitator in TypeScript (`src/`, about 5 000 lines), and the Rust
project it keeps beside it for other chains (`x402-rs-main/`, about 16 800
lines). Source paths below are relative to the repository.

To check it: `tlc -config MCSettlement.cfg MCSettlement` (and so on for every
run of `PROJECT.json`), `tlapm SettlementProofs.tla` (and the other `*Proofs.tla`).

## 1. The system

### 1.1 Components, their state and how they interact

| Component | Source | State it keeps | Operations |
|---|---|---|---|
| Settlement | `src/settle/settle-payment.ts`, `src/routes/settle.ts` | one deduplication record per transaction in Redis (`settle:<sha256>`, 24 h) | claim, submit, poll, answer a duplicate |
| Blockfrost client | `src/chain/blockfrost-client.ts` | none | submit, query, each with `withRetry` |
| UTXO reservation | `src/chain/utxo-reservation.ts` | a Map in the process and its copy in Redis | reserve, release, releaseAll, clean, load after a restart |
| UTXO cache | `src/chain/utxo-cache.ts`, `provider.ts` | a bounded Map (L1) and Redis keys (L2) | get, set, evict, invalidate, getUtxos |
| Chain provider | `src/chain/provider.ts` | protocol parameters, cached for 5 minutes | getMinUtxoLovelace, getCurrentSlot, delegation to the two above |
| Verification | `src/verify/*` | none | a list of checks over a decoded transaction |
| Payment gate (SDK) | `src/sdk/payment-gate.ts`, `facilitator-client.ts` | none; a time-out per call | verify, then settle, then let the handler run |
| Upload, download, storage | `src/routes/upload.ts`, `download.ts`, `src/storage/*` | files named by the hash of their content | put, has, get |
| Status, health, supported routes | `src/routes/*.ts` | none | queries |
| Server, configuration, plugins | `src/server.ts`, `src/index.ts`, `src/config/*`, `src/plugins/*` | wiring | start, stop |
| eip155 transaction sending (Rust) | `.../x402-chain-eip155/src/chain/` | next nonce per signer, behind a mutex, in a concurrent map | get_next_nonce, reset_nonce, send_transaction |
| exact schemes on eip155, Solana, Aptos (Rust) | `.../x402-chain-*/src/v?_*_exact/` | none; everything is the chain's | verify, settle; on the client's side sign |
| axum paygate and facilitator client (Rust) | `.../x402-axum/` | the cached answer of `/supported` | verify and settle around a handler, offer |
| reqwest client (Rust) | `.../x402-reqwest/`, `x402-types/src/scheme/client.rs` | none | choose an offer, sign, ask again |
| Facilitator server (Rust) | `x402-rs-main/facilitator/`, `x402-facilitator-local`, `x402-types` | registries of chains and of handlers, the shutdown token | start, route, answer, drain |
| Money amounts (Rust) | `x402-types/src/util/money_amount.rs`, `chain/types.rs` of the chains | none | parse a price |

    client -> upload route -> payment gate -> facilitator client
                   |                               | HTTP, with a time-out
                   v                               v
               storage                 /verify, /settle -> settlement
                                                   |  SET NX / SET / GET   |  submit, query
                                                   v                       v
                                                 Redis               Blockfrost -> Cardano
                                                   ^                       ^
                  reservation, cache (chain provider) ---------------------+

    reqwest client -> axum layer (paygate) -> facilitator client
                          |                        | HTTP, with a time-out
                          v                        v
                    the application      server: routes -> exact scheme of the chain
                                                                |  send_transaction, send_and_confirm
                                                                v
                                                    EVM node, Solana cluster, Aptos node

Everything in TypeScript runs on one event loop: between two awaits nothing
interleaves, at every await anything may. So the steps of the models are the
stretches between awaits. The gate calls the facilitator over HTTP, usually in
the same process. In Rust, tasks of an async runtime interleave at their awaits
as well, and in addition a lock that is not asynchronous can block a worker
thread.

### 1.2 What is hard here

- *Interleaving at awaits*: duplicates of one payment, queries against
  invalidations, uploads of one content, nonces of one signer.
- *Lost answers*: a submission taken by Blockfrost whose answer is lost, a
  Redis command that was executed and is sent again, a gate that stops waiting.
- *Crashes*: Redis keeps what the process knew; records, reservations and cache
  keys have to make sense to the next process.
- *Time*: TTLs in two layers, reservations that outlive or do not outlive their
  holder, deadlines of polls.
- *Fire-and-forget writes*, which order and may lose.
- *Checks far from their use*: a payment is verified, simulated and sent at three
  moments of a chain that moves; an offer is made, signed and compared while prices,
  fee payers and caches change.
- *Money in foreign hands*: a fee payer signs what clients have assembled.

`PROJECT.json` lists every such place with its line, and the property that
watches it.

## 2. Modules

| Module | Models | Correctness it states |
|---|---|---|
| `Settlement` | settlement, component 1 | success means on chain; until a key is lost one submitter, repeatable success and records that never lose what they knew; every request answered |
| `SettlementService` | what `/settle` promises, abstractly | the specification the two sides below meet at |
| `SettlementRefinement` | the mapping from `Settlement` | `Settlement` implements `SettlementService`, fairness included |
| `UtxoReservation` | reservations | exclusive grants; the cap; Redis follows the Map; nothing reserved for ever |
| `UtxoCache` | both cache layers, `getUtxos`, `invalidateCache` | bounded Map; bound on staleness; what an invalidation guarantees |
| `PaidUpload` | payment gate, upload, download, filesystem storage, over `SettlementService` | settle before execution; what is stored stays found and whole; every upload answered |
| `NonceManager` | the Rust nonce manager and `send_transaction` | unique nonces; none skipped; every call ends |
| `Paygate` | the Rust gate with its facilitator client, and the reqwest client that pays it | what is charged is served or lost; one service per payment; the price of now; fresh offers; every request ends |
| `Eip155Exact` | the exact scheme on an EVM chain, both versions, with its client | its part of what `ExactSchemes` states |
| `SolanaExact` | the same on Solana, over websocket or polling | its part |
| `AptosExact` | the same on Aptos (version 2 only) | its part |
| `ExactSchemes` | the handlers a facilitator has, side by side | success means paid; one success per payment; 400 means nothing sent; verify agrees with settle; honest payments are taken; the fee payer is protected; reverts are deserved; requests are answered |
| `FacilitatorServer` | the server's life: configuration, providers, handlers, routes, signals, drain | one provider per chain; served as configured; only queued requests are lost; shutdown ends |
| `MoneyAmount` | prices as texts and what two chains make of them | the documented format is read exactly; 64 and 256 bits agree where they can |
| `MC*` | instances for TLC | symmetry sets, offers, files, texts |
| `*Proofs` | theorems | section 4 |

`PaidUpload` is composed with the settlement through the abstract module: its
facilitator is `SettlementService`, and that `Settlement` implements
`SettlementService` is checked and, for the safety part, proved. So what is proved
of the gate holds for the gate over the real settlement. `ExactSchemes` composes the
three chains by choosing one: handlers of different chains share no state.
`FacilitatorServer` models the way to a handler, `ExactSchemes` what it does there,
`NonceManager` how the EVM one sends. `Paygate` has an external facilitator that may
behave like any of them: it repeats or rejects a used payment, and its answers get lost.

### 2.1 How state and actions correspond to the code

**Settlement.** One process per request; `pc` is the call it awaits. `Verify` is
`settlePayment:128-133`; `ClaimWon`, `ClaimLost` and `ClaimResent` are the three
fates of `SET NX` (143-154), the third being a command that was executed and sent
again by the Redis client; the `Submit*` actions are one attempt of `withRetry` around
`txSubmit` each, including a 400 for a transaction the node has already; `SaveFailed`,
`SaveHash`, `SaveConfirmed`, `SaveTimeout` are the writes of the record; `Poll` is one query
of `pollConfirmation`; `ReadRecord`, `Query`, `SaveSeen` are `handleExistingRecord`, which
writes back what it *read before* its await (`seen`). A Redis failure at a write
is the route's HTTP 500. `Include`, `Invalidate` and `Lapse` are the chain's. A
transaction, its bytes, its key and its hash are one value; of the hash the model
keeps whether the record has it. `keyLost` is a history variable: Redis has let a record go, by
`Expire` or `Flush`.

**UtxoReservation.** `map` holds holder and *time left* of each UTXO, `pipe` the Redis
commands that are on the way in order, `redis` what is stored. Every operation
starts with `cleanExpired` where the code does. `grant` is what each request knows of its own
grants. Any request may call `Release` on any UTXO at any time, for the code asks nothing: it deletes
the entry whoever holds it. Two history variables: `robbed`, the grants that were ended by another request's
release, and `lost`, the UTXOs of which a Redis command has failed (what is claimed of Redis is claimed of the others).

**UtxoCache.** A query is idle, waits for Redis, for Blockfrost, or for its SET. A list
of UTXOs is its age and the number of invalidations it has seen, which is what the
properties tell apart. All commands share one connection, hence the order of
`pipe`. `order` is the Map's order by expiry (all entries live equally long, so the
smallest `expiresAt` is the entry written first). `spoilt` is a history variable: the
addresses whose invalidation met a query under way or whose DEL failed.

**PaidUpload.** The gate's four outcomes, then the upload handler: body, `mkdir`, `writeFile` as
truncate and pieces, answer. `NotSettled` is possible at any time while the gate
waits: that is the client's time-out (30 s, against 120 s of polling). `has` and `get` of a
download are separate steps; under a disk error both answer as if the file were not there
(`CannotRead`), and the history variable `unread` keeps the downloads that met one.

**NonceManager.** A task goes through signer selection, the map (`Entry`), the mutex (`Lock`,
`Fetched`), sending, the receipt and, on errors, `reset_nonce`. A reset that has to wait for the
mutex keeps the map's shard (`ShardHeld`); a task that needs it then blocks its worker. The
node keeps mined transactions and a pool per signer, takes transactions behind a
gap and mines in order. `Cancel` is a settle request whose client disconnects: the task is
dropped at its await with its locks. `reset` is a history variable, the signers whose count
was thrown away. Two signers are assumed to be in two shards of the map.

**Paygate.** One request of an application goes through reqwest's middleware (`Bypass` or
`AskForPayment` at the layer, `Sign` or `CannotPay` at the client, then `TakePayment`), the gate's calls
(`FacilitatorVerify`, `FacilitatorSettle`, whose answers are on the `wire` until `Hear`, or until
`GiveUp` if the client was configured with a time-out, `config.timeout`; by default it has none) and the handler (`CallInner`), in the order the layer's setting says. `Resolve` is the dynamic
price tag at this moment, `Enriched` what a 402 adds to it, `Fits` what a payment is compared with: of
version 1 the scheme and network, of version 2 the whole tag. `CacheHit`, `CacheMiss`, `Fetched`
are `supported()`: a miss reads, awaits and writes, so misses overlap. `told` is a history variable, the
settlement answers that reached the gate. A `config` fixes version, order, networks, client, time-out and what the facilitator does
with a used payment (the Cardano one repeats its answer, an EVM token rejects).

**Eip155Exact.** A payment is an ERC-3009 authorization and its signature, of a plain account, of
a deployed wallet (ERC-1271) or of one to be deployed (ERC-6492). `Arrive` and `Go` are the checks
without a call, in the code's order; `ReadBalance`, `Simulate`, `ReadCode`, `EstimateGas`, `SendTransaction`,
`Receipt`, `NoReceipt` are the awaits; `CallFails` is a failing call at any of them with the answer its
error is converted to. `CallFor` is `settle_payment`'s choice of the contract call, `Simulation`
`verify_payment`'s. `Mine` executes on the chain of that moment: `moved`, `code`, balances.

**SolanaExact.** A transaction is the list of its programs with the values that are checked. `Refused` is
`verify_transaction` up to its first call; `GetAccounts`, `Simulate`, `Subscribe`, `Send`, `Notified` or
`Confirmed` are the awaits. Two settlements of one payment share one transaction, since it is
its signature. `Land` lets the cluster execute, reject or forget.

**AptosExact.** `Refused` is the comparison of call and arguments, `SignTransaction` the sponsor's signature,
`Submitted`, `Rejected` and `AnswerLost` the node's three answers, the latter two the same to the code.

**FacilitatorServer.** `Load`, `Connect`, `Register`, `Bind`, `Serve` are `run()` with one step per entry of a
loop; `ChainRegistry` and `SchemeRegistry` are functions. A network is a tuple of its parts.
`SlugOf` and `HandlerOf` route; `Answer`, `Supported`, `Unsupported`, `Refuse` are what `handlers.rs` replies.
`Signal`, `Cancel`, `Drain`, `Stop` are the shutdown; before `SigDown` is installed a signal kills.

**MoneyAmount.** Texts are tuples of characters, `Cleaned` deletes as the regular expression
does, `from_str` reads what is left into a `Decimal` of 96 bits and 28 places and rounds what does not fit
(`Rounded`: rust_decimal's, hence external), `parse` checks ranges, `TenTo` are the powers of ten, `Eip155Parse` and `SolanaParse` scale. Here the conversion is the
subject, so it is modelled by the character; `Meaning` is the independent reference definition.

## 3. Runs

Bounds are in the `.cfg` files; requests, transactions, UTXOs and so on are model
values. Deadlock checking is off where the environment may simply have nothing
left to do (all requests answered, time not modelled); it is on for the reservation and cache,
which can always go on.

### 3.1 Runs that pass

| Run | Question | Bounds and why they are enough |
|---|---|---|
| `settle` | Under every fault: does success mean on chain, is every request answered, does the settlement implement the service? And until a key is lost: one submitter, repeatable success, no lost knowledge? | 2 requests on one transaction: a claimant and a duplicate that writes back late, or acts after the other's key is gone; 2 attempts, so that a submission is repeated; 2 polls; 64 185 states. The safety properties and the steps of the refinement are proved for any number of requests |
| `reservation` | Exclusive grants, cap, Redis follows the Map, everything free again and again | 2 requests and 2 UTXOs, cap 1, so the cap binds before the UTXOs run out; TTL 2, so a reservation can be reloaded half-way; 2 commands on the way; releases at any time; 207 000 states |
| `cache` | Bounded Map, staleness, quiet invalidation | 2 addresses over a Map of 1, so every fill evicts; 2 queries; TTL 2, so an entry can be warmed when half its time is over |
| `upload` | Settle before execution; stored stays found and whole; every upload answered | 2 uploads that share or do not share transactions and contents, in 2 pieces, so that a file can be half written; crash, and disk errors of writes and reads; 100 000 states |
| `nonce` | Unique nonces, none skipped, every call ends | 3 tasks on one signer: one that asks the node, one that resets, one that needs the shard; a worker each |
| `gate` | What is charged is served or lost, a payment serves once and at the current price, offers are fresh, and requests end? | 2 requests, so that one replays the other's header and two misses of the cache overlap; four layers: one where time passes (TTL 1, delay 1) and three whose prices change, one of them with a rotating fee payer; both versions and orders, with a time-out and without; 205 001 states |
| `exact` | What do the answers of the three chains' handlers mean? | 2 requests that may settle one payment together; three kinds of wallets, offers of both versions, here and elsewhere; ten Solana transactions, most of them wrong in one way; four settings; five Aptos payments |
| `server` | Does a file become the server it describes, and does that stop well? | ten files: two spellings of a chain, unknown, disabled, unbuildable and doubled entries, and five that must not start; 2 clients, 11 requests; 157 420 states |
| `money` | Is the documented format read exactly, and do the widths agree? | every text of up to 5 characters over `0 1 9 . , - $`, 4 token widths; word and Decimal are scaled: the word lies between MAX and 10 * MAX as 2^64 does between MAX * 10^10 and MAX * 10^11, a Decimal holds three digits and two places, so that the longest texts are rounded, up to one place less; 169 744 states |

Every property has a mutant in `PROJECT.json`: a change of the model as a plausible bug
would make it in the code, under which the run reports the property violated. The type
invariants (`TypeOK`) are stated in the modules and proved (section 4), and so are not among the runs' properties.

### 3.2 Runs that show a disagreement

Each is one property that a comment, a document or a type of the repository
states and the code does not keep; `PROJECT.json` quotes the line.

| Run | Stated | What happens |
|---|---|---|
| `nonce_workers` | the map's lock is not held over an await | `reset_nonce` holds it; with one worker thread everything stops |
| `gate_offer` | a payment must match what was offered | the 402 of version 2 offers the tag with the facilitator's fee payer, the payment is compared with the tag without: no Solana payment is ever accepted |
| `gate_unpaid` | a failed settlement becomes a 402 | only a failed *call* does: an answer with status 200 that says `"success": false`, as this repository's own `POST /settle` gives, goes into the header and the request is served unpaid, before or after execution |

### 3.3 Seen in the code, without a run of their own

Settlement and storage (TypeScript):

- A duplicate that finds a `failed` record repeats the failure, also when the submission had been taken, only its
  answer was lost and the transaction is on the chain (`settle-payment.ts:266`).
- `release(utxoRef)` deletes the entry whoever holds it (`utxo-reservation.ts:92`): a release after the TTL ends
  the reservation of whoever was granted the UTXO since, and the next `reserve` grants it a second time. `ExclusiveGrant`
  says that nothing but such a release breaks the exclusion; callers have to see to it themselves.
- An invalidation is undone by a query under way, which stores the list it fetched before
  (`utxo-cache.ts:160`): hence "quiet" in `QuietInvalidationForcesFetch`.
- `put` truncates the final path although the content is stored already (`fs-backend.ts:25`): a download that meets a
  second upload is sent a prefix with status 200. `WholeAtRest` speaks of files nobody is writing.
- `has` and `get` answer every error of the disk, permissions or too many open files included, as "not there"
  (`fs-backend.ts:36-40`, `49-54`): stored content is answered 404 `Content not found`. `StoredStaysFound` excepts the downloads
  under which the disk failed.
- A duplicate that arrives before the submission returned is answered a timeout with the
  hash `''` (`settle-payment.ts:263-271`); `settle/types.ts:99` says it is present on a timeout.
- With Redis failures a claim can be abandoned: the resent `SET NX` loses to itself, the record stays
  `submitted` without a hash, and duplicates are told to wait until the key expires after 24 h
  (`ClaimResent` is the step).
- A deletion Redis did not execute and a restart load more reservations than
  `maxConcurrent` (`utxo-reservation.ts:170`); `CapKept` is stated without such losses.
- `getReservation` (`utxo-reservation.ts:144`) returns expired entries, unlike `isReserved`.
- A list warmed from L2 gets a second TTL (`utxo-cache.ts:103`): `StaleAtMostTwice` is the bound that
  holds, the documents speak of one TTL.
- `getUtxos` awaits the cache write its comment calls fire-and-forget (`provider.ts:137-138`): when
  it fails, the query fails although Blockfrost has answered.
- L1 evicts the entry written first, not the one used longest ago (`utxo-cache.ts:137-155`);
  `docs/architecture.md:184` calls it LRU.

Transactions, gate and server (Rust):

- A receipt that times out resets the signer's nonce (`provider.rs:308`); if another task has one it has not sent,
  the next call fetches the same. `UniqueNonces` excepts signers that were reset.
- A transaction whose receipt timed out may still be mined after its settlement was answered 500.
- A simulation that reverts is answered 500 for a plain or deployed wallet and 400 for one to be deployed.
- The EVM client signs with an empty domain when an offer has no `extra`; such a payment is refused. Offers with less
  than 6 s to pay cannot be paid.
- Solana: a failing call while verifying is answered 400; `verify` does not check the payer's own signature (the
  simulation ignores signatures); the client sets a compute price without regard to the facilitator's maximum; without a
  websocket a transaction that failed or expired is polled for ever, and with one the notification is
  awaited without a time-out (`provider.rs:373`); either holds up a shutdown for ever, which `ShutdownEnds` excepts; two settlements of one transaction can both succeed.
- Aptos: a submission whose answer is lost is answered 400 although the node may have taken it, and success is
  answered before the transaction is executed, where `x402-types/src/scheme/mod.rs:62-63` says settling waits for confirmation.
- `POST /settle` for an unknown scheme is answered with the body of a failed verification (`handlers.rs`); a failed
  settlement says `errorReason` there and `error_reason` in `proto/v1.rs:110-119`.
- `LiteralOrEnv` rejects the JSON boolean `sponsor_gas: true`, which its comment says it supports.
- The gate's facilitator client has no time-out unless one is configured (`facilitator_client.rs:291`, `:389`, `:436`): a
  request waits for a facilitator that does not answer for ever, and a settlement on Solana may be such a call. `EveryRequestEnds`
  excepts requests held up by one call, without a time-out.
- A client that disconnects drops its handler in the middle of a settlement.
- `Decimal::from_str` rounds what does not fit 96 bits or 28 places: for a token of 19 or more decimals a price may become
  another amount than it says ("999999998.99999999999999999999" becomes 999999999 tokens of 20 decimals). With at most 18, as all
  tokens listed in the repository have, such a text is refused, for its precision or its size.
- `SolanaTokenDeployment::parse` panics (`chain/types.rs:228`) where the digits do not fit 64 bits and the token has
  places enough; "10,50" is read as 1050; trailing zeros count as precision.
- After a restart with a gap in the node's pool, the counted nonces run into those of
  transactions that waited behind the gap, and are "too low" once these are mined.

### 3.4 Fairness

- `Settlement`: each request's handler is weakly fair. Justified because every awaited
  call ends: Blockfrost requests have `REQUEST_TIMEOUT_MS`, Redis commands `maxRetriesPerRequest: 3`,
  sleeps are timers. The chain is *not* assumed to include anything.
- `UtxoReservation`: time passes, and a process that died is started again (the server's
  supervisor); neither Redis nor the requests are assumed to do anything.
- `UtxoCache`: none, its properties are safety properties.
- `PaidUpload`: the gate and the file operations end (the time-out is one of the gate's
  actions); the facilitator is not assumed to answer.
- `NonceManager`: tasks that can be polled are polled, requests end, and the node mines what is
  due. The receipt has a time-out in every live run, as in the code.
- `Paygate`: each request's steps of gate and client are weakly fair, handlers included, and so is a time-out that was
  configured. The facilitator is not assumed to answer at all: its calls have no time-out by default, and behind them a
  chain may never confirm.
- `ExactSchemes`: each request's handler, and on the EVM the receipt's time-out. The chains are not assumed to do anything,
  which is why `RequestsAnswered` on Solana speaks of transactions that land.
- `FacilitatorServer`: start and shutdown go on, accepted requests are handled, and a settlement ends that waits
  for a receipt with a time-out (eip155) or for no transaction (Aptos). On Solana it need not, by polling or by websocket (`ShutdownEnds` says so). Clients and signals are free.
- `MoneyAmount`: none.

## 4. Proofs

All leaves are checked by `tlapm` for arbitrary constants under the named assumptions
of the modules (positive bounds, finite sets, faults among the named ones).

Every module with a proof has its `TypeCorrect` (`[]TypeOK`); counters are the point there: `TypeInv` of the settlement adds
that polls remain while a request polls, `PipeTypeOK` of the reservation that the pipe has room.

| Theorem | States | Argument |
|---|---|---|
| `SuccessIsOnChain` (`SettlementProofs`) | success and confirmed records mean on chain | `LandedInv` adds `FoundOnChain`: a request that is about to record `confirmed` has found its transaction, and what is on the chain stays there |
| `SubmittedOnce` | one submitter until Redis lets a record go | `OwnerInv`: whoever is past the claim, or has submitted, is the only one, and the key exists. Expiry and flushing do break it, hence `keyLost`: `KeyNotLost` and `NextKeysKept` say that as long as it is false every step keeps the keys |
| `SuccessStays`, `RecordsGoForward` | a success is repeatable; no step takes a hash away or changes a failed record; until a record is let go | `RecordInv`: what each request knows of the record it read is still so when it writes; every write is one of four kinds (`WriteKeeps`) and `OwnerInv` leaves the first two to one request |
| `ImplementsServiceSafely` | the settlement implements `SettlementService` but for fairness | each step maps to a step or a stutter; `AskedFor` says that a transaction a node holds was asked for by a request that has arrived |
| `GrantsAreExclusive` (`UtxoReservationProofs`) | of two running grants of one UTXO, one was ended by another request's release | `GrantIsInMap`: the time a request believes it has is the time the Map gives it in its name, unless it was robbed; two requests that were not would be two holders of one entry. Crashes clear both, and reloaded reservations belong to no living request |
| `RedisFollows`, `CapIsKept` | what is on the way to Redis leaves there what the Map holds; the cap survives crashes | `RedisInv`: executing the commands on the way gives the Map (`Follows`), and after *each prefix* of them no more than `maxConcurrent` reservations live (`Capped`), for a crash may come after any. It rests on what the commands do, a fold: section 4.1 |
| `MapIsBounded` (`UtxoCacheProofs`) | the Map never exceeds its bound | `order` lists each address of the Map once; a write that adds an entry to a full Map evicts one |
| `StaleTwiceAtMost` | what is served is younger than two lifetimes | `Ages`: the age of a list in Redis and the time its key has left add up to at most one lifetime; in the Map, which may be warmed from Redis at the end of that time, to less than two |
| `QuietInvalidations` | a quiet invalidation forces a fetch | `Waits` and `Gens`: the commands on the way are those of waiting queries or DELs; of an address that is not spoilt every stored list, and every list on the way, is of the current generation or behind the DEL that removes it |
| `PaidBeforeExecution` (`PaidUploadProofs`) | settle before execution | an answer `yes` is given only for a paid transaction and payment is stable, so whoever passes the gate is paid. The facilitator's steps are service steps (`NextIsServiceStep`), nothing else is used of it |
| `FilesAreWhole`, `StoredIsFound` | files at rest are whole; what was stored is found by a download the disk does not fail | `FileInv`: what is written or stored has a file (`HasFile`), a file that is not whole has a writer whose pieces are all in it, or a failed write (`Covered`), answers come at the end (`Answered`) |
| `NoncesAreUnique`, `NoncesAreGapless` (`NonceManagerProofs`) | no nonce twice without a reset, none skipped | `Points`, `Mutex` (one task asks the node, and the count is unknown then), `Counted` (what the node or the cache counts was given to a task), `Ordered` (nonces of a signer that was not reset are distinct and below the cache). That a nonce stays below the number of tasks is a pigeonhole argument over finite sets |
| `ChargesAreServed`, `PaymentsServeOnce` (`PaygateProofs`) | the accounts of the gate | `Shape` (what a request at each stage has), `Money` (whose settlement moved which payment, and what the gate has been told of it) |
| `PricesAreCurrent`, `OffersAreFresh` | price and offer are of now | `Money` ties the payment to a tag resolved for this request; `Fresh` bounds the age of what a slow `/supported` answer writes into the cache |
| `SuccessIsPaid`, `OneSuccess`, `BadRequestIsHarmless`, `SponsorIsProtected` (`ExactSchemesProofs`) | what answers mean | one invariant per chain (`EvmInv`, `SolInv`, `AptInv`): what each stage of a handler has checked of its payment; a token moves an authorization once. A step is one of its chain's and leaves the others be |
| `HonestIsTaken` | what an honest client makes of an offer passes the checks before any call | `SignedAsOffered`, `BuiltAsOffered`: a payment keeps what its client read off the offer and off its clock; an authorization starts `Backdate` before that clock, so it has started by the facilitator's, and three instructions leave no fourth to forbid |
| `VerifyAgrees`, `RevertsAreDeserved` | the two paths to the EVM chain agree; reverts are deserved | by cases of signature and deployment; `EvmCalls` says that a call was chosen for a set of deployed wallets that has only grown since |
| `OneProvider` (`FacilitatorServerProofs`) | the handlers of a chain share one provider | `StartInv`: the registry has each provider under the chain its entry stands for (`ChainsOK`) and each handler the provider of its slug's chain (`HandlersOK`), for no handler is built before the last provider is |
| `ServesTheFile` | what the file asks for is what is built, routed and listed | `LastCounts`: of the entries read so far each has its handlers, or a later entry has. That what is listed is routed to the handler that lists it is about the two tables of names: each chain of one name has that name and back (`NamesAgree`) |
| `DocumentedPricesAreExact` (`PaygateProofs`) | a price in the documented format becomes the amount it means, or is refused for its precision or size, if a Decimal can hold it or the token has no more decimals than a Decimal has room for (`Roomy`) | `PricesInv`: what a parser has said is a function of the text. Reading digit by digit and counting each by its place agree at *every place* of the text (`MeaningIs`); deleting symbols and separators changes neither the number (`MantissaOfCleaned`) nor the fraction (`CleanedPrice`); `ScaledBounds` moves `MIN` and `MAX` from the number to the amount. What does not fit becomes a Decimal with all its places, or a full one (`HeldIs`, `RoundedIs`): too fine or too large for a token that leaves room, as the text itself is |
| `PricesAgree` | the two chains read a price the same, for any width of the word | products of positive numbers are at least their factors, so what Solana refuses by one of its three tests would not have fitted |
| `AcceptedIsNotLost` | no step drops an accepted request | `LostNext`: only `Drain` and `Kill` take requests away, and only those the server has not accepted; the drain waits for the others |

### 4.1 Lemmas about the operators

- *Folds.* `Drained` is a fold over a sequence, that is a recursive function on the sets of its places. The library's
  induction theorems cannot be instantiated, but a set of naturals has a least element (`LeastNatural`, from the
  library's well-foundedness of `<`), so a least counterexample serves instead: `FoldIs` gives the fold in a closed
  form, `Result`: of each key the last command for it counts. What follows about prefixes (`StoredPrefix`),
  appended commands (`StoredAfter`), an executed first command (`StoredTail`) and the passing of
  time (`StoredAged`, which ages stored and travelling entries alike) needs no more induction.
- *Cardinalities.* `SetKeeps` and `DropKeeps` say of `SET` and `DEL` how many reservations live after every prefix: `SET` is sent
  only below the cap, but to a Redis that still holds what the `DEL`s before it have not removed yet, and these come first.
- *Recursive functions.* `Recursion` gives the function a recursion over the places of a text defines, by the same
  argument; `MantissaReads`, `CleanedKeeps` and `MeaningSums` apply it to the three of `MoneyAmount`, `TenToIs` is its like
  for the powers of ten, of which `TenToSum` is the law of exponents. `UpTo` is then induction along a text.
- *Counting.* `DigitsInIs`: how a count of digits changes when its interval grows at either end.
- *Tables.* `NamesAreDistinct` and `NamesAgree`: the two tables of networks are inverse to each other on the chains they name.

`FilesAssumption` is the assumption `FacilitatorServer` makes of its files: chains and schemes are sequences of entries, as
`ChainsConfig(Vec<ChainConfig>)` (`facilitator/src/config.rs:80`) and `Vec<SchemeConfig>` (`x402-types/src/config.rs:209`) are.
`MoneyAssumption`: texts are sequences of characters, digits have the values 0 to 9 and are none of the four symbols, a Decimal holds at least zero. The theorems
about prices (of `PriceSpec`) are with the gate's, whose price tags these amounts are: `PaygateProofs` extends both modules.

### 4.2 What the proofs found out about the model

- The `CASE` of `Reference` had overlapping guards: a network without a reference satisfied the first *and* that of its namespace, and
  which is taken is then not determined. TLC takes the first, as the code does; now the first excludes the others.
- Of `10^n` and `SelectSeq` the prover knows nothing, and a fold over the places of a text is a function on *sets* of places:
  `MoneyAmount` now has recursive functions along the text for them (`TenTo`, `Cleaned`, `mantissa`, `Meaning`). The proof of `DocumentedIsExact` uses neither where the separators stand nor
  that every point has digits around it: what it needs is one point, no sign and no other character (`Price`).
- `RedisFollowsMap` and `CapKept` are not inductive, even together with the types: the invariant has to speak of every prefix of the
  commands on the way, and of a process that is down (which has sent nothing: `Crash` empties the pipe).

### 4.3 Only model-checked

- everything under fairness: liveness, and the fairness part of the refinement. Every invariant and every action property
  a passing run checks has its theorem.

## 5. Abstractions worth knowing

- Rollbacks of the chain are not modelled: the code looks once, at depth 1.
- A file that a failing disk or a crash left partial stays partial until its content is
  uploaded again; `WholeAtRest` excepts such contents.
- In `UtxoCache` time advances only when nothing is on the way but calls to Blockfrost: a tick
  is longer than a round trip to Redis.
- In `NonceManager` a request to the node that fails has reached it by then or never.
- The settlement's verification is one step with two outcomes.
- Signatures, hashes and encodings in the Rust schemes are values: a payment is forged or it is not.
- In `ExactSchemes` one chain is chosen per behaviour, which loses nothing since handlers of different chains share no state.
- A rotation of Solana fee payers is a change of one value; price changes are bounded by the `config`.
- `MoneyAmount` leaves out texts whose point has no digit on one side, and those with something wrong behind more digits than a
  Decimal holds: what those are is up to `rust_decimal`. Its rounding is modelled from its documented behaviour, not from code of this repository.
- The bounds `MaxTime`, `MaxPayments`, `time`, `prices`, `payers` cap the environment; no handler looks at them.

## 6. What could follow

1. `VerifyPipeline`: the checks of `src/verify/checks.ts` as predicates over an abstract transaction, all
   errors collected, and the conversions (slots, lovelace, assets) against a reference definition.
2. `BlockfrostRetry` and the status route: attempts, delays and the mapping of exhausted errors
   (425 is thrown raw), recovery by `/status` as `docs/operations.md` describes it, composed with `Settlement`.
3. `ProtocolParams`: the 5-minute cache with concurrent fetches.
4. `Paygate` over `ExactSchemes` by an abstract facilitator, as `PaidUpload` is over `SettlementService`.

## 7. Not modelled

CBOR decoding, the token registry's table, IPFS storage (one HTTP call per operation), the verification's single
checks, logging, metrics, telemetry, OpenAPI, the TypeScript configuration schemas, serialization of the Rust protocol types
and its derive macros: pure functions, wiring or I/O without state of their own. They are listed as components with the reason.
