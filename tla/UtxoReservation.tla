--------------------------- MODULE UtxoReservation ---------------------------
(***************************************************************************)
(* Locks on UTXOs with a time to live (src/chain/utxo-reservation.ts),     *)
(* reached through ChainProvider (src/chain/provider.ts).                  *)
(*                                                                         *)
(* The Map in the process decides; Redis gets every change as a command    *)
(* nobody waits for, in the order they were sent, and is read once, when   *)
(* the process starts.  A command may fail, and those on the way are lost  *)
(* with the process.                                                       *)
(*                                                                         *)
(* Time is kept as the time left: expiresAt - Date.now(), never below 0.   *)
(* A key's own PX is not modelled: it is set after expiresAt was computed  *)
(* and cannot end before it, and loadFromRedis skips what is past it.      *)
(***************************************************************************)
EXTENDS Naturals, FiniteSets, Sequences, SequencesExt

CONSTANTS
  Utxos,          \* "txHash#outputIndex" references
  Requests,       \* request ids
  Nobody,         \* the holder of a UTXO that is not in the Map
  Ttl,            \* ttlSeconds, in ticks
  MaxConcurrent,  \* maxConcurrent
  MaxPipe,        \* bound of the model: commands on the way to Redis
  Faults          \* the faults that may occur, of those named below

ASSUME ReservationAssumption ==
  /\ IsFiniteSet(Utxos)
  /\ Nobody \notin Requests
  /\ Ttl \in Nat \ {0}
  /\ MaxConcurrent \in Nat \ {0}
  /\ MaxPipe \in Nat
  /\ Faults \subseteq {"crash",   \* the process dies and is restarted
                       "lose"}    \* a Redis command fails

VARIABLES
  up,        \* FALSE from a crash until loadFromRedis is done
  map,       \* reservations: the holder of each UTXO and the time left
  pipe,      \* commands sent to Redis and not executed yet, oldest first
  redis,     \* the reservation each key holds
  grant,     \* the time left of each grant, as the request knows it
  robbed,    \* history: the running grants whose entry another one deleted
  lost       \* history: the UTXOs of which a Redis command has failed

vars == <<up, map, pipe, redis, grant, robbed, lost>>

Entries == [holder : Requests \cup {Nobody}, left : 0..Ttl]
Free == [holder |-> Nobody, left |-> 0]

Entry(r, left) == [holder |-> r, left |-> left]

SetCommand(u, entry) == [op |-> "set", utxo |-> u, entry |-> entry]
DelCommand(u) == [op |-> "del", utxo |-> u, entry |-> Free]
Commands == [op : {"set", "del"}, utxo : Utxos, entry : Entries]

Reserved == {u \in Utxos : map[u].holder # Nobody}

TypeOK ==
  /\ up \in BOOLEAN
  /\ map \in [Utxos -> Entries]
  /\ pipe \in Seq(Commands)
  /\ Len(pipe) <= MaxPipe
  /\ redis \in [Utxos -> Entries]
  /\ grant \in [Requests -> [Utxos -> 0..Ttl]]
  /\ robbed \subseteq Requests \X Utxos
  /\ lost \subseteq Utxos

Init ==
  /\ up = TRUE
  /\ map = [u \in Utxos |-> Free]
  /\ pipe = <<>>
  /\ redis = [u \in Utxos |-> Free]
  /\ grant = [r \in Requests |-> [u \in Utxos |-> 0]]
  /\ robbed = {}
  /\ lost = {}

-----------------------------------------------------------------------------
(* The Map and the commands                                                *)

\* Mutant: a reservation is taken for expired one tick early.
ExpiredEarly == {u \in Reserved : map[u].left <= 1}
\* cleanExpired: expiresAt <= now.
Expired == {u \in Reserved : map[u].left = 0}

\* The Map without the UTXOs of `gone`, and the deletions that go with it.
Without(gone) == [u \in Utxos |-> IF u \in gone THEN Free ELSE map[u]]
Deletions(gone) ==
  LET order == SetToSeq(gone) IN [i \in DOMAIN order |-> DelCommand(order[i])]

\* Mutant: the new commands overtake those on the way.
SendFirst(commands) ==
  /\ Len(pipe) + Len(commands) <= MaxPipe
  /\ pipe' = commands \o pipe

Send(commands) ==
  /\ Len(pipe) + Len(commands) <= MaxPipe
  /\ pipe' = pipe \o commands

\* Mutant: the cap is compared with > .
BelowCapOffByOne == Cardinality(Reserved \ Expired) <= MaxConcurrent
BelowCap == Cardinality(Reserved \ Expired) < MaxConcurrent

-----------------------------------------------------------------------------
(* The operations                                                          *)

\* reserve() granted.
Reserve(r, u) ==
  /\ up
  /\ u \notin Reserved \ Expired
  /\ BelowCap
  /\ map' = [Without(Expired) EXCEPT ![u] = Entry(r, Ttl)]
  /\ Send(Append(Deletions(Expired), SetCommand(u, Entry(r, Ttl))))
  /\ grant' = [grant EXCEPT ![r][u] = Ttl]
  /\ robbed' = robbed \ {<<r, u>>}
  /\ UNCHANGED <<up, redis, lost>>

\* reserve() refused, isReserved() and getActiveCount() only drop what has
\* expired.
CleanExpired ==
  /\ up
  /\ Expired # {}
  /\ map' = Without(Expired)
  /\ Send(Deletions(Expired))
  /\ UNCHANGED <<up, redis, grant, robbed, lost>>

\* release(), called by r with the reference alone: it deletes the entry
\* whoever holds it, be it that the grant of r has run out and another request
\* was granted the UTXO since, that r gives it back twice or never had it.
Release(r, u) ==
  /\ up
  /\ map' = Without({u})
  /\ Send(<<DelCommand(u)>>)
  /\ grant' = [grant EXCEPT ![r][u] = 0]
  /\ robbed' = robbed \cup
       {<<h, u>> : h \in {q \in Requests \ {r} : map[u].holder = q /\ grant[q][u] > 0}}
  /\ UNCHANGED <<up, redis, lost>>

\* releaseAll() deletes what is reserved in the request's name.
ReleaseAll(r) ==
  LET own == {u \in Utxos : map[u].holder = r} IN
  /\ up
  /\ map' = Without(own)
  /\ Send(Deletions(own))
  /\ grant' = [grant EXCEPT ![r] = [u \in Utxos |-> 0]]
  /\ UNCHANGED <<up, redis, robbed, lost>>

Loaded(u) == IF redis[u].left > 0 THEN redis[u] ELSE Free

\* Mutant: what is loaded is reserved anew, for a full time to live.
LoadFromRedisRenewing ==
  /\ ~up
  /\ up' = TRUE
  /\ redis' = [u \in Utxos |->
       IF redis[u].left > 0 THEN Entry(redis[u].holder, Ttl) ELSE redis[u]]
  /\ map' = [u \in Utxos |-> IF redis[u].left > 0 THEN redis'[u] ELSE Free]
  /\ UNCHANGED <<pipe, grant, robbed, lost>>

\* loadFromRedis(), before the server serves; the cap is not looked at.
LoadFromRedis ==
  /\ ~up
  /\ up' = TRUE
  /\ map' = [u \in Utxos |-> Loaded(u)]
  /\ UNCHANGED <<pipe, redis, grant, robbed, lost>>

-----------------------------------------------------------------------------
(* Redis, the process and time                                             *)

Execute(command, keys) == [keys EXCEPT ![command.utxo] = command.entry]

Deliver ==
  /\ pipe # <<>>
  /\ redis' = Execute(Head(pipe), redis)
  /\ pipe' = Tail(pipe)
  /\ UNCHANGED <<up, map, grant, robbed, lost>>

Lose ==
  /\ "lose" \in Faults
  /\ pipe # <<>>
  /\ pipe' = Tail(pipe)
  /\ lost' = lost \cup {Head(pipe).utxo}
  /\ UNCHANGED <<up, map, redis, grant, robbed>>

\* The requests die with the process; what is executed in Redis stays.
Crash ==
  /\ "crash" \in Faults
  /\ up
  /\ up' = FALSE
  /\ map' = [u \in Utxos |-> Free]
  /\ pipe' = <<>>
  /\ grant' = [r \in Requests |-> [u \in Utxos |-> 0]]
  /\ robbed' = {}
  /\ UNCHANGED <<redis, lost>>

Less(n) == IF n = 0 THEN 0 ELSE n - 1
Older(entry) == [entry EXCEPT !.left = Less(@)]

Tick ==
  /\ map' = [u \in Utxos |-> Older(map[u])]
  /\ redis' = [u \in Utxos |-> Older(redis[u])]
  /\ pipe' = [i \in DOMAIN pipe |-> [pipe[i] EXCEPT !.entry = Older(@)]]
  /\ grant' = [r \in Requests |-> [u \in Utxos |-> Less(grant[r][u])]]
  /\ robbed' = {p \in robbed : grant'[p[1]][p[2]] > 0}
  /\ UNCHANGED <<up, lost>>

Next ==
  \/ \E r \in Requests, u \in Utxos : Reserve(r, u) \/ Release(r, u)
  \/ \E r \in Requests : ReleaseAll(r)
  \/ CleanExpired
  \/ LoadFromRedis
  \/ Deliver \/ Lose
  \/ Crash
  \/ Tick

Spec == Init /\ [][Next]_vars

\* Time passes, and a process that died is started again.
FairSpec == Spec /\ WF_vars(Tick) /\ WF_vars(LoadFromRedis)

-----------------------------------------------------------------------------
(* Properties                                                              *)

\* "Reserve a UTXO for exclusive use during transaction construction"
\* (utxo-reservation.ts:42): of two requests with a running grant of one UTXO,
\* one had its entry deleted by a release() of another.  Nothing else breaks
\* the exclusion: no expiry at the same instant, no cleaning in the middle of
\* a call, no restart with what Redis kept (release:91-98 does not look at
\* the holder; reserve:50-76, cleanExpired:189-205).
ExclusiveGrant ==
  \A u \in Utxos : \A r1, r2 \in Requests :
    r1 # r2 /\ grant[r1][u] > 0 /\ grant[r2][u] > 0 =>
      <<r1, u>> \in robbed \/ <<r2, u>> \in robbed

\* "Maximum concurrent UTXO reservations" (chain/config.ts:52): as long as no
\* Redis command fails, the Map never holds more that have not expired, also
\* when it is loaded after a crash, where the code does not look at the cap
\* (loadFromRedis:164-177 against reserve:57-64).
CapKept == lost = {} => Cardinality(Reserved \ Expired) <= MaxConcurrent

\* What Redis will hold of a UTXO once all commands on the way are executed.
Drained == FoldLeft(LAMBDA keys, command : Execute(command, keys), redis, pipe)

\* Redis is always on the way to the Map: where no command has failed, those
\* sent leave in Redis exactly the reservations that have not expired, so
\* that a restart recovers them all and revives none (reserve:76-80,
\* release:94-98, cleanExpired:195-199 against loadFromRedis:153-183).
RedisFollowsMap ==
  up => \A u \in Utxos \ lost :
          LET stored == Drained[u] IN
          IF map[u].left > 0 THEN stored = map[u] ELSE stored.left = 0

\* No reservation lives for ever, however often the process restarts with
\* what Redis kept and although nothing but the clock may ever free it: every
\* UTXO can be reserved again and again (cleanExpired:189-205,
\* loadFromRedis:170-173 keeps the old expiresAt).
NothingReservedForEver ==
  \A u \in Utxos : []<>(up /\ u \notin Reserved \ Expired)

=============================================================================
