------------------------------ MODULE UtxoCache ------------------------------
(***************************************************************************)
(* The two-layer UTXO cache (src/chain/utxo-cache.ts) under                *)
(* ChainProvider.getUtxos and invalidateCache (src/chain/provider.ts).     *)
(*                                                                         *)
(* A query looks in the Map (L1), then awaits Redis (L2), then awaits      *)
(* Blockfrost and stores what it got in both.  Queries and invalidations   *)
(* interleave at every await.  All Redis commands go down one connection   *)
(* and are executed in the order they were sent.                           *)
(*                                                                         *)
(* A list of UTXOs is kept as what tells two lists of one address apart:   *)
(* its age in ticks since Blockfrost answered, and how many times the      *)
(* address had been invalidated by then.  A tick is longer than a round    *)
(* trip (REQUEST_TIMEOUT_MS is a third of the default TTL): what is on     *)
(* the way arrives before time advances.                                   *)
(***************************************************************************)
EXTENDS Naturals, Sequences, SequencesExt

CONSTANTS
  Addresses,
  Queries,           \* concurrent callers of getUtxos
  Ttl,               \* utxoTtlSeconds, in ticks
  MaxL1Entries,      \* maxL1Entries
  MaxInvalidations,  \* bound of the model: invalidations of one address
  Faults             \* {"redis"} when a Redis command may fail, else {}

ASSUME CacheAssumption ==
  /\ Ttl \in Nat \ {0}
  /\ MaxL1Entries \in Nat \ {0}
  /\ MaxInvalidations \in Nat
  /\ Faults \subseteq {"redis"}

VARIABLES
  pc,      \* what each query waits for
  addr,    \* the address it asks for
  since,   \* how often the address had been invalidated when it started
  data,    \* the list it carries
  answer,  \* what its last call returned
  l1,      \* the Map: list and time left of each address
  order,   \* the addresses in the Map, the one that expires first in front
  l2,      \* the Redis keys: list and time left
  pipe,    \* Redis commands sent and not executed
  gen,     \* how often each address has been invalidated
  spoilt   \* history: addresses invalidated while a query for them was under
           \* way, or whose DEL failed

vars == <<pc, addr, since, data, answer, l1, order, l2, pipe, gen, spoilt>>

MaxAge == 2 * Ttl   \* lists that old or older are not told apart
Lists == [age : 0..MaxAge, gen : 0..MaxInvalidations]
Fresh(a) == [age |-> 0, gen |-> gen[a]]
NoList == [age |-> 0, gen |-> 0]

\* left = 0 is an expired entry or a missing one.
Slots == [list : Lists, left : 0..Ttl]
Empty == [list |-> NoList, left |-> 0]

Answers == [kind : {"none", "utxos", "error"}, list : Lists]
NoAnswer == [kind |-> "none", list |-> NoList]

\* Commands carry the query that awaits them; nobody awaits a DEL.
Commands ==
  [op : {"get"}, q : Queries]
  \cup [op : {"set"}, q : Queries]
  \cup [op : {"del"}, a : Addresses]

TypeOK ==
  /\ pc \in [Queries -> {"idle", "get", "hit", "miss", "fetch", "fetched", "set"}]
  /\ addr \in [Queries -> Addresses]
  /\ since \in [Queries -> 0..MaxInvalidations]
  /\ data \in [Queries -> Lists]
  /\ answer \in [Queries -> Answers]
  /\ l1 \in [Addresses -> Slots]
  /\ order \in Seq(Addresses) /\ IsInjective(order)
  /\ l2 \in [Addresses -> Slots]
  /\ pipe \in Seq(Commands)
  /\ gen \in [Addresses -> 0..MaxInvalidations]
  /\ spoilt \subseteq Addresses

Init ==
  /\ pc = [q \in Queries |-> "idle"]
  /\ addr \in [Queries -> Addresses]
  /\ since = [q \in Queries |-> 0]
  /\ data = [q \in Queries |-> NoList]
  /\ answer = [q \in Queries |-> NoAnswer]
  /\ l1 = [a \in Addresses |-> Empty]
  /\ order = <<>>
  /\ l2 = [a \in Addresses |-> Empty]
  /\ pipe = <<>>
  /\ gen = [a \in Addresses |-> 0]
  /\ spoilt = {}

-----------------------------------------------------------------------------
(* The Map                                                                 *)

layer1 == <<l1, order>>

ToBack(s, a) == Append(RemoveFirst(s, a), a)

\* Mutant: set() without evictIfOverCap.
L1SetUnbounded(a, list) ==
  /\ l1' = [l1 EXCEPT ![a] = [list |-> list, left |-> Ttl]]
  /\ order' = ToBack(order, a)

\* l1.set and evictIfOverCap: of too many entries the one that expires
\* first goes, and all entries live equally long.
L1Set(a, list) ==
  LET filled == [l1 EXCEPT ![a] = [list |-> list, left |-> Ttl]]
      written == ToBack(order, a) IN
  IF Len(written) <= MaxL1Entries
    THEN l1' = filled /\ order' = written
    ELSE /\ l1' = [filled EXCEPT ![Head(written)] = Empty]
         /\ order' = Tail(written)

L1Delete(a) ==
  /\ l1' = [l1 EXCEPT ![a] = Empty]
  /\ order' = RemoveFirst(order, a)

-----------------------------------------------------------------------------
(* getUtxos                                                                *)

Send(command) == pipe' = Append(pipe, command)
GoTo(q, point) == pc' = [pc EXCEPT ![q] = point]

Return(q, kind, list) ==
  /\ GoTo(q, "idle")
  /\ data' = [data EXCEPT ![q] = NoList]
  /\ answer' = [answer EXCEPT ![q] = [kind |-> kind, list |-> list]]

\* The call starts and finds the address in the Map, or asks Redis.
Start(q, a) ==
  /\ pc[q] = "idle"
  /\ addr' = [addr EXCEPT ![q] = a]
  /\ since' = [since EXCEPT ![q] = gen[a]]
  /\ \/ /\ l1[a].left > 0
        /\ Return(q, "utxos", l1[a].list)
        /\ UNCHANGED <<layer1, pipe>>
     \/ /\ l1[a].left = 0
        /\ L1Delete(a)
        /\ Send([op |-> "get", q |-> q])
        /\ GoTo(q, "get")
        /\ UNCHANGED <<answer, data>>
  /\ UNCHANGED <<l2, gen, spoilt>>

\* Mutant: the key in Redis gets a new time to live as well.
WarmBoth(q) ==
  /\ pc[q] = "hit"
  /\ L1Set(addr[q], data[q])
  /\ l2' = [l2 EXCEPT ![addr[q]] = [list |-> data[q], left |-> Ttl]]
  /\ Return(q, "utxos", data[q])
  /\ UNCHANGED <<addr, since, pipe, gen, spoilt>>

\* Redis answered the key: warm the Map, for a full time to live.
WarmL1(q) ==
  /\ pc[q] = "hit"
  /\ L1Set(addr[q], data[q])
  /\ Return(q, "utxos", data[q])
  /\ UNCHANGED <<addr, since, l2, pipe, gen, spoilt>>

\* Redis answered null: ask Blockfrost.
AskBlockfrost(q) ==
  /\ pc[q] = "miss"
  /\ GoTo(q, "fetch")
  /\ UNCHANGED <<addr, since, data, answer, layer1, l2, pipe, gen, spoilt>>

\* Blockfrost answers, an empty list for a 404; or its retries are exhausted.
Blockfrost(q) ==
  /\ pc[q] = "fetch"
  /\ \/ /\ data' = [data EXCEPT ![q] = Fresh(addr[q])]
        /\ GoTo(q, "fetched")
        /\ UNCHANGED answer
     \/ Return(q, "error", NoList)
  /\ UNCHANGED <<addr, since, layer1, l2, pipe, gen, spoilt>>

\* cache.set: the Map at once, Redis awaited.
Store(q) ==
  /\ pc[q] = "fetched"
  /\ L1Set(addr[q], data[q])
  /\ Send([op |-> "set", q |-> q])
  /\ GoTo(q, "set")
  /\ UNCHANGED <<addr, since, data, answer, l2, gen, spoilt>>

-----------------------------------------------------------------------------
(* invalidateCache, invalidateAll                                          *)

UnderWay(a) == \E q \in Queries : pc[q] # "idle" /\ addr[q] = a

\* Mutant: the key in Redis is left to expire.
InvalidateL1Only(a) ==
  /\ gen[a] < MaxInvalidations
  /\ gen' = [gen EXCEPT ![a] = @ + 1]
  /\ L1Delete(a)
  /\ spoilt' = IF UnderWay(a) THEN spoilt \cup {a} ELSE spoilt
  /\ UNCHANGED <<pc, addr, since, data, answer, l2, pipe>>

Invalidate(a) ==
  /\ gen[a] < MaxInvalidations
  /\ gen' = [gen EXCEPT ![a] = @ + 1]
  /\ L1Delete(a)
  /\ Send([op |-> "del", a |-> a])
  /\ spoilt' = IF UnderWay(a) THEN spoilt \cup {a} ELSE spoilt
  /\ UNCHANGED <<pc, addr, since, data, answer, l2>>

\* The Map is emptied, Redis is not.
InvalidateAll ==
  /\ order # <<>>
  /\ l1' = [a \in Addresses |-> Empty]
  /\ order' = <<>>
  /\ UNCHANGED <<pc, addr, since, data, answer, l2, pipe, gen, spoilt>>

\* The process ends and starts again: its queries and the commands Redis has
\* not executed are gone, a DEL among them too.
Restart ==
  /\ pipe # <<>> \/ order # <<>>
  /\ pc' = [q \in Queries |-> "idle"]
  /\ data' = [q \in Queries |-> NoList]
  /\ answer' = [q \in Queries |-> NoAnswer]
  /\ l1' = [a \in Addresses |-> Empty]
  /\ order' = <<>>
  /\ pipe' = <<>>
  /\ spoilt' = spoilt \cup {a \in Addresses : Contains(pipe, [op |-> "del", a |-> a])}
  /\ UNCHANGED <<addr, since, l2, gen>>

-----------------------------------------------------------------------------
(* Redis and time                                                          *)

ExecuteGet(q) ==
  /\ IF l2[addr[q]].left > 0
       THEN GoTo(q, "hit") /\ data' = [data EXCEPT ![q] = l2[addr[q]].list]
       ELSE GoTo(q, "miss") /\ UNCHANGED data
  /\ UNCHANGED <<l2, answer>>

Written(q) == [l2 EXCEPT ![addr[q]] = [list |-> data[q], left |-> Ttl]]

\* The reply to SET ends getUtxos.
ExecuteSet(q) ==
  /\ l2' = Written(q)
  /\ Return(q, "utxos", data[q])

ExecuteDel(a) ==
  /\ l2' = [l2 EXCEPT ![a] = Empty]
  /\ UNCHANGED <<pc, data, answer>>

Redis ==
  /\ pipe # <<>>
  /\ LET command == Head(pipe) IN
       \/ command.op = "get" /\ ExecuteGet(command.q)
       \/ command.op = "set" /\ ExecuteSet(command.q)
       \/ command.op = "del" /\ ExecuteDel(command.a)
  /\ pipe' = Tail(pipe)
  /\ UNCHANGED <<addr, since, layer1, gen, spoilt>>

\* The command is lost, or its reply is; who awaits it gets the error.
RedisFails ==
  /\ "redis" \in Faults
  /\ pipe # <<>>
  /\ LET command == Head(pipe) IN
       \/ /\ command.op \in {"get", "set"}
          /\ Return(command.q, "error", NoList)
          /\ \/ UNCHANGED l2
             \/ command.op = "set" /\ l2' = Written(command.q)
          /\ UNCHANGED spoilt
       \/ /\ command.op = "del"
          /\ spoilt' = spoilt \cup {command.a}
          /\ UNCHANGED <<pc, data, answer, l2>>
  /\ pipe' = Tail(pipe)
  /\ UNCHANGED <<addr, since, layer1, gen>>

Older(list) == [list EXCEPT !.age = IF @ = MaxAge THEN @ ELSE @ + 1]
Aged(slot) ==
  IF slot.left = 0 THEN slot
  ELSE [list |-> Older(slot.list), left |-> slot.left - 1]

\* Redis drops what expires; the Map keeps it until the address is asked for.
Tick ==
  /\ pipe = <<>>
  /\ \A q \in Queries : pc[q] \in {"idle", "fetch"}
  /\ l1' = [a \in Addresses |-> Aged(l1[a])]
  /\ l2' = [a \in Addresses |-> IF l2[a].left <= 1 THEN Empty ELSE Aged(l2[a])]
  /\ UNCHANGED <<pc, addr, since, data, answer, order, pipe, gen, spoilt>>

Next ==
  \/ \E q \in Queries :
       \/ \E a \in Addresses : Start(q, a)
       \/ WarmL1(q) \/ AskBlockfrost(q) \/ Blockfrost(q) \/ Store(q)
  \/ \E a \in Addresses : Invalidate(a)
  \/ InvalidateAll \/ Restart
  \/ Redis \/ RedisFails
  \/ Tick

Spec == Init /\ [][Next]_vars

-----------------------------------------------------------------------------
(* Properties                                                              *)

\* evictIfOverCap removes one entry, once per write: that is enough, the Map
\* never grows beyond its maximum (utxo-cache.ts:104-107, :120-124, :137).
L1Bounded == Len(order) <= MaxL1Entries

\* Expiry of the two layers adds up: a list warmed from Redis at the end of
\* its time gets a second one, and no third (utxo-cache.ts:99-107, :129).
StaleAtMostTwice ==
  \A q \in Queries : answer[q].kind = "utxos" => answer[q].list.age < 2 * Ttl

\* One connection orders DEL after every older command and before every
\* newer one: an invalidation that finds no query of its address under way,
\* and whose DEL succeeds, does force the next query to fetch, although
\* nobody awaits the DEL (utxo-cache.ts:160-168 against :84-113).
QuietInvalidationForcesFetch ==
  \A q \in Queries :
    pc[q] = "idle" /\ answer[q].kind = "utxos" /\ addr[q] \notin spoilt
      => answer[q].list.gen >= since[q]

=============================================================================
