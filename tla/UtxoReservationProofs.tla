------------------------ MODULE UtxoReservationProofs ------------------------
(***************************************************************************)
(* For any UTXOs, requests, time to live and cap, with crashes, restarts   *)
(* and lost Redis commands:                                                *)
(*   - a running grant is exclusive until a release() of another request   *)
(*     deletes its entry, which release() does whoever calls it;           *)
(*   - Redis is always on the way to the Map;                              *)
(*   - the cap is kept, after a restart too.                               *)
(* The last two are about what a sequence of commands does to Redis, a     *)
(* fold: that is put in a closed form here, the last command for each key, *)
(* by induction from the least counterexample (LeastNatural).              *)
(***************************************************************************)
EXTENDS UtxoReservation, FiniteSetTheorems, SequenceTheorems, WellFoundedInduction,
        TLAPS

\* The parts of TypeOK the argument needs.
GrantTypeOK ==
  /\ up \in BOOLEAN
  /\ map \in [Utxos -> Entries]
  /\ redis \in [Utxos -> Entries]
  /\ grant \in [Requests -> [Utxos -> 0..Ttl]]

\* A grant that runs and whose entry nobody else has deleted.
Intact(r, u) == grant[r][u] > 0 /\ <<r, u>> \notin robbed

\* A request's idea of an intact grant is what the Map says: the entry is in
\* its name and has the same time left.
GrantIsInMap ==
  \A r \in Requests : \A u \in Utxos :
    Intact(r, u) => map[u].holder = r /\ map[u].left = grant[r][u]

\* Nobody is granted anything while the process is down.
NoGrantWhileDown ==
  ~up => \A r \in Requests : \A u \in Utxos : grant[r][u] = 0

IInv == GrantTypeOK /\ GrantIsInMap /\ NoGrantWhileDown

\* What is on the way to Redis.
PipeTypeOK ==
  /\ pipe \in Seq(Commands)
  /\ Len(pipe) <= MaxPipe

-----------------------------------------------------------------------------

LEMMA EntryType ==
  /\ Free \in Entries
  /\ Free.left = 0
  /\ \A r \in Requests : \A n \in 0..Ttl :
       Entry(r, n) \in Entries /\ Entry(r, n).holder = r /\ Entry(r, n).left = n
  /\ \A e \in Entries : e.left \in Nat /\ e.left <= Ttl /\ Older(e) \in Entries
  /\ \A e \in Entries : Older(e).holder = e.holder /\ Older(e).left = Less(e.left)
  BY ReservationAssumption DEF Entries, Free, Entry, Older, Less

LEMMA MapWithout ==
  ASSUME map \in [Utxos -> Entries], NEW gone
  PROVE  /\ Without(gone) \in [Utxos -> Entries]
         /\ \A u \in Utxos : u \notin gone => Without(gone)[u] = map[u]
  BY EntryType DEF Without

\* An entry an intact grant stands for has not expired.
LEMMA GrantedIsReserved ==
  ASSUME IInv, NEW r \in Requests, NEW u \in Utxos, Intact(r, u)
  PROVE  u \in Reserved \ Expired
  <1>1. map[u].holder = r /\ map[u].left = grant[r][u]
    BY DEF IInv, GrantIsInMap
  <1>2. u \in Reserved
    BY <1>1, ReservationAssumption DEF Reserved
  <1>3. grant[r][u] \in 0..Ttl /\ grant[r][u] > 0
    BY DEF IInv, GrantTypeOK, Intact
  <1> QED BY <1>1, <1>2, <1>3 DEF Expired

-----------------------------------------------------------------------------

LEMMA InitOK == Init => IInv
  <1> SUFFICES ASSUME Init PROVE IInv
    OBVIOUS
  <1>1. GrantTypeOK
    BY EntryType, ReservationAssumption DEF Init, GrantTypeOK
  <1>2. GrantIsInMap
    BY DEF Init, GrantIsInMap, Intact
  <1>3. NoGrantWhileDown
    BY DEF Init, NoGrantWhileDown
  <1> QED BY <1>1, <1>2, <1>3 DEF IInv

LEMMA ReserveOK ==
  ASSUME IInv, NEW r \in Requests, NEW u \in Utxos, Reserve(r, u)
  PROVE  IInv'
  <1> DEFINE left == Without(Expired)
  <1>1. /\ left \in [Utxos -> Entries]
        /\ \A v \in Utxos : v \notin Expired => left[v] = map[v]
    BY MapWithout DEF IInv, GrantTypeOK
  <1>2. /\ map' = [left EXCEPT ![u] = Entry(r, Ttl)]
        /\ grant' = [grant EXCEPT ![r][u] = Ttl]
        /\ robbed' = robbed \ {<<r, u>>}
        /\ up /\ up' = up /\ redis' = redis
        /\ u \notin Reserved \ Expired
    BY DEF Reserve
  <1>3. Ttl \in Nat /\ Ttl \in 0..Ttl /\ Ttl > 0
    BY ReservationAssumption
  <1>4. Entry(r, Ttl) \in Entries /\ Entry(r, Ttl).holder = r /\ Entry(r, Ttl).left = Ttl
    BY <1>3, EntryType
  <1> HIDE DEF left
  <1>5. map' \in [Utxos -> Entries]
    BY <1>1, <1>2, <1>4
  <1>6. grant' \in [Requests -> [Utxos -> 0..Ttl]]
    BY <1>2, <1>3 DEF IInv, GrantTypeOK
  <1>7. GrantTypeOK'
    BY <1>2, <1>5, <1>6 DEF IInv, GrantTypeOK
  <1>8. GrantIsInMap'
    <2> SUFFICES ASSUME NEW s \in Requests, NEW v \in Utxos, Intact(s, v)'
                 PROVE  map'[v].holder = s /\ map'[v].left = grant'[s][v]
      BY DEF GrantIsInMap
    <2>1. CASE s = r /\ v = u
      <3>1. grant'[s][v] = Ttl
        BY <1>2, <2>1 DEF IInv, GrantTypeOK
      <3>2. map'[v] = Entry(r, Ttl)
        BY <1>1, <1>2, <2>1
      <3> QED BY <3>1, <3>2, <2>1, <1>4
    <2>2. CASE ~(s = r /\ v = u)
      <3>1. grant'[s][v] = grant[s][v] /\ Intact(s, v)
        BY <1>2, <2>2 DEF IInv, GrantTypeOK, Intact
      <3>2. v \in Reserved \ Expired
        BY <3>1, GrantedIsReserved
      <3>3. v # u
        BY <3>2, <1>2
      <3>4. map'[v] = map[v]
        BY <3>2, <3>3, <1>1, <1>2
      <3> QED BY <3>1, <3>4 DEF IInv, GrantIsInMap
    <2> QED BY <2>1, <2>2
  <1>9. NoGrantWhileDown'
    BY <1>2 DEF NoGrantWhileDown
  <1> QED BY <1>7, <1>8, <1>9 DEF IInv

\* What releases or drops entries keeps the invariant when no grant on them is
\* intact after the step.
LEMMA DropOK ==
  ASSUME IInv, NEW gone, map' = Without(gone), up' = up, redis' = redis,
         grant' \in [Requests -> [Utxos -> 0..Ttl]],
         \A r \in Requests : \A u \in Utxos :
           Intact(r, u)' =>
             u \notin gone /\ grant'[r][u] = grant[r][u] /\ Intact(r, u),
         up
  PROVE  IInv'
  <1>1. /\ map' \in [Utxos -> Entries]
        /\ \A u \in Utxos : u \notin gone => map'[u] = map[u]
    BY MapWithout DEF IInv, GrantTypeOK
  <1>2. GrantTypeOK'
    BY <1>1 DEF IInv, GrantTypeOK
  <1>3. GrantIsInMap'
    <2> SUFFICES ASSUME NEW r \in Requests, NEW u \in Utxos, Intact(r, u)'
                 PROVE  map'[u].holder = r /\ map'[u].left = grant'[r][u]
      BY DEF GrantIsInMap
    <2>1. map'[u] = map[u] /\ grant'[r][u] = grant[r][u] /\ Intact(r, u)
      BY <1>1
    <2> QED BY <2>1 DEF IInv, GrantIsInMap
  <1>4. NoGrantWhileDown'
    BY DEF NoGrantWhileDown
  <1> QED BY <1>2, <1>3, <1>4 DEF IInv

\* A release deletes the entry of a running grant only if the grant ends with
\* it or is robbed.
LEMMA ReleaseOK ==
  ASSUME IInv, NEW r \in Requests, NEW u \in Utxos, Release(r, u)
  PROVE  IInv'
  <1> DEFINE victims == {q \in Requests \ {r} : map[u].holder = q /\ grant[q][u] > 0}
  <1>1. /\ map' = Without({u}) /\ up /\ up' = up /\ redis' = redis
        /\ grant' = [grant EXCEPT ![r][u] = 0]
        /\ robbed' = robbed \cup {<<h, u>> : h \in victims}
    BY DEF Release
  <1>2. grant \in [Requests -> [Utxos -> 0..Ttl]] /\ Ttl \in Nat
    BY ReservationAssumption DEF IInv, GrantTypeOK
  <1>3. grant' \in [Requests -> [Utxos -> 0..Ttl]]
    BY <1>1, <1>2
  <1>4. ASSUME NEW s \in Requests, NEW v \in Utxos, Intact(s, v)'
        PROVE  v \notin {u} /\ grant'[s][v] = grant[s][v] /\ Intact(s, v)
    <2>1. CASE s = r /\ v = u
      <3>1. grant'[s][v] = 0
        BY <1>1, <1>2, <2>1
      <3> QED BY <3>1, <1>4 DEF Intact
    <2>2. CASE ~(s = r /\ v = u)
      <3>1. grant'[s][v] = grant[s][v] /\ Intact(s, v)
        BY <1>1, <1>2, <1>4, <2>2 DEF Intact
      <3>2. CASE v = u
        <4>1. s \in Requests \ {r} /\ grant[s][u] > 0 /\ map[u].holder = s
          BY <2>2, <3>1, <3>2 DEF IInv, GrantIsInMap, Intact
        <4>2. <<s, u>> \in robbed'
          BY <1>1, <4>1
        <4> QED BY <1>4, <3>2, <4>2 DEF Intact
      <3> QED BY <3>1, <3>2
    <2> QED BY <2>1, <2>2
  <1> HIDE DEF victims
  <1> QED BY <1>1, <1>3, <1>4, DropOK

LEMMA ReleaseAllOK ==
  ASSUME IInv, NEW r \in Requests, ReleaseAll(r)
  PROVE  IInv'
  <1> DEFINE own == {u \in Utxos : map[u].holder = r}
  <1>1. /\ map' = Without(own) /\ up /\ up' = up /\ redis' = redis
        /\ grant' = [grant EXCEPT ![r] = [u \in Utxos |-> 0]] /\ robbed' = robbed
    BY DEF ReleaseAll
  <1>2. grant \in [Requests -> [Utxos -> 0..Ttl]] /\ Ttl \in Nat
    BY ReservationAssumption DEF IInv, GrantTypeOK
  <1>3. grant' \in [Requests -> [Utxos -> 0..Ttl]]
    BY <1>1, <1>2
  <1>4. ASSUME NEW s \in Requests, NEW v \in Utxos, Intact(s, v)'
        PROVE  v \notin own /\ grant'[s][v] = grant[s][v] /\ Intact(s, v)
    <2>1. s # r
      <3> SUFFICES ASSUME s = r PROVE FALSE
        OBVIOUS
      <3>1. grant'[s][v] = 0
        BY <1>1, <1>2
      <3> QED BY <3>1, <1>4 DEF Intact
    <2>2. grant'[s][v] = grant[s][v] /\ Intact(s, v)
      BY <1>1, <1>2, <1>4, <2>1 DEF Intact
    <2>3. map[v].holder = s
      BY <2>2 DEF IInv, GrantIsInMap
    <2> QED BY <2>1, <2>2, <2>3
  <1> HIDE DEF own
  <1> QED BY <1>1, <1>3, <1>4, DropOK

LEMMA CleanExpiredOK ==
  ASSUME IInv, CleanExpired
  PROVE  IInv'
  <1>1. /\ map' = Without(Expired) /\ up /\ up' = up /\ redis' = redis
        /\ grant' = grant /\ robbed' = robbed
    BY DEF CleanExpired
  <1>2. grant' \in [Requests -> [Utxos -> 0..Ttl]]
    BY <1>1 DEF IInv, GrantTypeOK
  <1>3. ASSUME NEW s \in Requests, NEW v \in Utxos, Intact(s, v)'
        PROVE  v \notin Expired /\ grant'[s][v] = grant[s][v] /\ Intact(s, v)
    <2>1. Intact(s, v)
      BY <1>1, <1>3 DEF Intact
    <2> QED BY <1>1, <2>1, GrantedIsReserved
  <1> QED BY <1>1, <1>2, <1>3, DropOK

LEMMA LoadFromRedisOK ==
  ASSUME IInv, LoadFromRedis
  PROVE  IInv'
  <1>1. /\ ~up /\ up' = TRUE /\ map' = [u \in Utxos |-> Loaded(u)]
        /\ redis' = redis /\ grant' = grant
    BY DEF LoadFromRedis
  <1>2. \A u \in Utxos : Loaded(u) \in Entries
    BY EntryType DEF IInv, GrantTypeOK, Loaded
  <1>3. \A r \in Requests : \A u \in Utxos : grant'[r][u] = 0
    BY <1>1 DEF IInv, NoGrantWhileDown
  <1>4. GrantTypeOK'
    BY <1>1, <1>2 DEF IInv, GrantTypeOK
  <1>5. GrantIsInMap' /\ NoGrantWhileDown'
    BY <1>3 DEF GrantIsInMap, NoGrantWhileDown, Intact
  <1> QED BY <1>4, <1>5 DEF IInv

LEMMA CrashOK ==
  ASSUME IInv, Crash
  PROVE  IInv'
  <1>1. /\ up' = FALSE /\ map' = [u \in Utxos |-> Free] /\ redis' = redis
        /\ grant' = [r \in Requests |-> [u \in Utxos |-> 0]]
    BY DEF Crash
  <1>2. 0 \in 0..Ttl
    BY ReservationAssumption
  <1>3. [r \in Requests |-> [u \in Utxos |-> 0]] \in [Requests -> [Utxos -> 0..Ttl]]
    BY <1>2
  <1>4. [u \in Utxos |-> Free] \in [Utxos -> Entries]
    BY EntryType
  <1>5. GrantTypeOK'
    BY <1>1, <1>3, <1>4 DEF IInv, GrantTypeOK
  <1>6. GrantIsInMap' /\ NoGrantWhileDown'
    BY <1>1 DEF GrantIsInMap, NoGrantWhileDown, Intact
  <1> QED BY <1>5, <1>6 DEF IInv

LEMMA DeliverOK ==
  ASSUME IInv, pipe \in Seq(Commands), Deliver
  PROVE  IInv'
  <1>1. /\ redis' = Execute(Head(pipe), redis)
        /\ up' = up /\ map' = map /\ grant' = grant /\ robbed' = robbed
    BY DEF Deliver
  <1>2. Head(pipe) \in Commands
    BY DEF Deliver
  <1>3. redis' \in [Utxos -> Entries]
    BY <1>1, <1>2 DEF IInv, GrantTypeOK, Execute, Commands
  <1> QED
    BY <1>1, <1>3 DEF IInv, GrantTypeOK, GrantIsInMap, NoGrantWhileDown, Intact

LEMMA TickOK ==
  ASSUME IInv, Tick
  PROVE  IInv'
  <1>1. /\ map' = [u \in Utxos |-> Older(map[u])]
        /\ redis' = [u \in Utxos |-> Older(redis[u])]
        /\ grant' = [r \in Requests |-> [u \in Utxos |-> Less(grant[r][u])]]
        /\ robbed' = {p \in robbed : grant'[p[1]][p[2]] > 0}
        /\ up' = up
    BY DEF Tick
  <1>2. \A n \in 0..Ttl : Less(n) \in 0..Ttl
    BY ReservationAssumption DEF Less
  <1>3. GrantTypeOK'
    BY <1>1, <1>2, EntryType DEF IInv, GrantTypeOK
  <1>4. GrantIsInMap'
    <2> SUFFICES ASSUME NEW r \in Requests, NEW u \in Utxos, Intact(r, u)'
                 PROVE  map'[u].holder = r /\ map'[u].left = grant'[r][u]
      BY DEF GrantIsInMap
    <2>1. grant'[r][u] = Less(grant[r][u]) /\ map'[u] = Older(map[u])
      BY <1>1
    <2>0. grant'[r][u] > 0 /\ <<r, u>> \notin robbed
      BY <1>1 DEF Intact
    <2>2. grant[r][u] \in 0..Ttl /\ map[u] \in Entries
      BY DEF IInv, GrantTypeOK
    <2>3. grant[r][u] > 0
      BY <2>0, <2>1, <2>2 DEF Less
    <2>4. map[u].holder = r /\ map[u].left = grant[r][u]
      BY <2>0, <2>3 DEF IInv, GrantIsInMap, Intact
    <2> QED BY <2>1, <2>2, <2>4, EntryType
  <1>5. NoGrantWhileDown'
    BY <1>1 DEF IInv, NoGrantWhileDown, Less
  <1> QED BY <1>3, <1>4, <1>5 DEF IInv

-----------------------------------------------------------------------------
(* The commands on the way                                                 *)

LEMMA CommandTypes ==
  ASSUME NEW u \in Utxos
  PROVE  /\ DelCommand(u) \in Commands
         /\ \A e \in Entries : SetCommand(u, e) \in Commands
  BY EntryType DEF DelCommand, SetCommand, Commands

\* A finite set can be put in a sequence.
LEMMA SetToSeqType ==
  ASSUME NEW S, IsFiniteSet(S)
  PROVE  SetToSeq(S) \in Seq(S)
  <1>1. Cardinality(S) \in Nat /\ ExistsBijection(1..Cardinality(S), S)
    BY FS_CardinalityType
  <1>2. \E f \in [1..Cardinality(S) -> S] : IsInjective(f)
    BY <1>1 DEF ExistsBijection, Bijection, Injection
  <1>3. SetToSeq(S) \in [1..Cardinality(S) -> S]
    BY <1>2 DEF SetToSeq
  <1> QED BY <1>1, <1>3

LEMMA DeletionsType ==
  ASSUME NEW gone \in SUBSET Utxos
  PROVE  Deletions(gone) \in Seq(Commands)
  <1>1. IsFiniteSet(gone)
    BY FS_Subset, ReservationAssumption
  <1> DEFINE order == SetToSeq(gone)
  <1>2. order \in Seq(Utxos)
    BY <1>1, SetToSeqType
  <1>3. Deletions(gone) = [i \in DOMAIN order |-> DelCommand(order[i])]
    BY DEF Deletions
  <1> HIDE DEF order
  <1>4. DOMAIN order = 1..Len(order) /\ Len(order) \in Nat
    BY <1>2
  <1>5. \A i \in DOMAIN order : DelCommand(order[i]) \in Commands
    BY <1>2, <1>4, CommandTypes
  <1> QED BY <1>3, <1>4, <1>5

LEMMA SendType ==
  ASSUME PipeTypeOK, NEW commands \in Seq(Commands), Send(commands)
  PROVE  pipe' \in Seq(Commands) /\ Len(pipe') <= MaxPipe
  BY DEF PipeTypeOK, Send

LEMMA ShorterPipe ==
  ASSUME PipeTypeOK, pipe # <<>>, pipe' = Tail(pipe)
  PROVE  PipeTypeOK'
  <1>1. Tail(pipe) \in Seq(Commands) /\ Len(Tail(pipe)) = Len(pipe) - 1
    BY DEF PipeTypeOK
  <1>2. Len(pipe) \in Nat /\ MaxPipe \in Nat
    BY ReservationAssumption DEF PipeTypeOK
  <1> QED BY <1>1, <1>2 DEF PipeTypeOK

LEMMA PipeNext ==
  ASSUME GrantTypeOK, PipeTypeOK, Next
  PROVE  PipeTypeOK'
  <1>1. ASSUME NEW r \in Requests, NEW u \in Utxos, Reserve(r, u)
        PROVE  PipeTypeOK'
    <2>1. Deletions(Expired) \in Seq(Commands)
      BY DeletionsType DEF Expired, Reserved
    <2>2. Ttl \in 0..Ttl
      BY ReservationAssumption
    <2>3. SetCommand(u, Entry(r, Ttl)) \in Commands
      BY <2>2, EntryType, CommandTypes
    <2>4. Append(Deletions(Expired), SetCommand(u, Entry(r, Ttl))) \in Seq(Commands)
      BY <2>1, <2>3
    <2>5. Send(Append(Deletions(Expired), SetCommand(u, Entry(r, Ttl))))
      BY <1>1 DEF Reserve
    <2>6. pipe' \in Seq(Commands) /\ Len(pipe') <= MaxPipe
      BY <2>4, <2>5, SendType
    <2> QED BY <2>6 DEF PipeTypeOK
  <1>2. ASSUME NEW r \in Requests, NEW u \in Utxos, Release(r, u)
        PROVE  PipeTypeOK'
    <2>1. <<DelCommand(u)>> \in Seq(Commands)
      BY CommandTypes
    <2>2. pipe' \in Seq(Commands) /\ Len(pipe') <= MaxPipe
      BY <1>2, <2>1, SendType DEF Release
    <2> QED BY <2>2 DEF PipeTypeOK
  <1>4. ASSUME NEW r \in Requests, ReleaseAll(r)
        PROVE  PipeTypeOK'
    <2>1. Deletions({u \in Utxos : map[u].holder = r}) \in Seq(Commands)
      BY DeletionsType
    <2>2. Send(Deletions({u \in Utxos : map[u].holder = r}))
      BY <1>4 DEF ReleaseAll
    <2>3. pipe' \in Seq(Commands) /\ Len(pipe') <= MaxPipe
      BY <2>1, <2>2, SendType
    <2> QED BY <2>3 DEF PipeTypeOK
  <1>5. CASE CleanExpired
    <2>1. Deletions(Expired) \in Seq(Commands)
      BY DeletionsType DEF Expired, Reserved
    <2>2. pipe' \in Seq(Commands) /\ Len(pipe') <= MaxPipe
      BY <1>5, <2>1, SendType DEF CleanExpired
    <2> QED BY <1>5, <2>2 DEF CleanExpired, PipeTypeOK
  <1>6. CASE LoadFromRedis
    BY <1>6 DEF LoadFromRedis, PipeTypeOK
  <1>7. CASE Deliver \/ Lose
    BY <1>7, ShorterPipe DEF Deliver, Lose
  <1>8. CASE Crash
    BY <1>8, ReservationAssumption DEF Crash, PipeTypeOK
  <1>9. CASE Tick
    <2>1. DOMAIN pipe = 1..Len(pipe) /\ Len(pipe) \in Nat
      BY DEF PipeTypeOK
    <2>2. \A i \in DOMAIN pipe : pipe[i] \in Commands
      BY DEF PipeTypeOK
    <2>3. \A c \in Commands : [c EXCEPT !.entry = Older(@)] \in Commands
      BY EntryType DEF Commands
    <2>4. pipe' = [i \in 1..Len(pipe) |-> [pipe[i] EXCEPT !.entry = Older(@)]]
      BY <1>9, <2>1 DEF Tick
    <2>5. pipe' \in Seq(Commands) /\ Len(pipe') = Len(pipe)
      BY <2>1, <2>2, <2>3, <2>4
    <2> QED BY <1>9, <2>5 DEF Tick, PipeTypeOK
  <1> QED
    BY <1>1, <1>2, <1>4, <1>5, <1>6, <1>7, <1>8, <1>9 DEF Next

-----------------------------------------------------------------------------
(* The theorems                                                            *)

LEMMA GrantNext ==
  ASSUME IInv, PipeTypeOK, [Next]_vars
  PROVE  IInv'
  <1>2. CASE Lose
    BY <1>2 DEF Lose, IInv, GrantTypeOK, GrantIsInMap, NoGrantWhileDown, Intact
  <1>3. CASE UNCHANGED vars
    BY <1>3 DEF vars, IInv, GrantTypeOK, GrantIsInMap, NoGrantWhileDown, Intact
  <1>4. CASE Deliver
    BY <1>4, DeliverOK DEF PipeTypeOK
  <1> QED
    BY <1>2, <1>3, <1>4, ReserveOK, ReleaseOK, ReleaseAllOK, CleanExpiredOK,
       LoadFromRedisOK, CrashOK, TickOK DEF Next

\* One UTXO is granted to one request at a time (reserve,
\* utxo-reservation.ts:48-84), through expiry, crashes, restarts and failing
\* Redis commands, whoever releases what and when: of two running grants one
\* had its entry deleted by another request's release().
THEOREM GrantsAreExclusive == Spec => []ExclusiveGrant
  <1>1. Init => IInv /\ PipeTypeOK
    BY InitOK, ReservationAssumption DEF Init, PipeTypeOK
  <1>2. IInv /\ PipeTypeOK /\ [Next]_vars => IInv' /\ PipeTypeOK'
    <2> SUFFICES ASSUME IInv, PipeTypeOK, [Next]_vars PROVE IInv' /\ PipeTypeOK'
      OBVIOUS
    <2>1. CASE UNCHANGED vars
      BY <2>1, GrantNext DEF vars, PipeTypeOK
    <2>2. CASE Next
      BY <2>2, GrantNext, PipeNext DEF IInv
    <2> QED BY <2>1, <2>2
  <1>3. IInv => ExclusiveGrant
    BY DEF IInv, GrantIsInMap, Intact, ExclusiveGrant
  <1> QED BY <1>1, <1>2, <1>3, PTL DEF Spec

-----------------------------------------------------------------------------
(* Types                                                                   *)

LEMMA GrantTypeNext ==
  ASSUME GrantTypeOK, PipeTypeOK, [Next]_vars
  PROVE  GrantTypeOK'
  <1>1. /\ Ttl \in Nat /\ Ttl \in 0..Ttl /\ 0 \in 0..Ttl
        /\ \A r \in Requests : Entry(r, Ttl) \in Entries
    BY ReservationAssumption, EntryType
  <1>2. \A gone : Without(gone) \in [Utxos -> Entries]
    BY MapWithout DEF GrantTypeOK
  <1>3. ASSUME NEW r \in Requests, NEW u \in Utxos, Reserve(r, u)
        PROVE  GrantTypeOK'
    <2> DEFINE left == Without(Expired)
    <2>1. /\ map' = [left EXCEPT ![u] = Entry(r, Ttl)] /\ grant' = [grant EXCEPT ![r][u] = Ttl]
          /\ UNCHANGED <<up, redis>>
      BY <1>3 DEF Reserve
    <2>2. left \in [Utxos -> Entries]
      BY <1>2
    <2> HIDE DEF left
    <2> QED BY <1>1, <2>1, <2>2 DEF GrantTypeOK
  <1>4. ASSUME NEW r \in Requests, NEW u \in Utxos, Release(r, u)
        PROVE  GrantTypeOK'
    BY <1>1, <1>2, <1>4 DEF Release, GrantTypeOK
  <1>6. ASSUME NEW r \in Requests, ReleaseAll(r)
        PROVE  GrantTypeOK'
    BY <1>1, <1>2, <1>6 DEF ReleaseAll, GrantTypeOK
  <1>7. CASE CleanExpired
    BY <1>2, <1>7 DEF CleanExpired, GrantTypeOK
  <1>8. CASE LoadFromRedis
    BY <1>8, EntryType DEF LoadFromRedis, Loaded, GrantTypeOK
  <1>9. CASE Deliver
    <2>1. Head(pipe) \in Commands
      BY <1>9 DEF Deliver, PipeTypeOK
    <2> QED BY <1>9, <2>1 DEF Deliver, Execute, Commands, GrantTypeOK
  <1>10. CASE Lose
    BY <1>10 DEF Lose, GrantTypeOK
  <1>11. CASE Crash
    BY <1>1, <1>11, EntryType DEF Crash, GrantTypeOK
  <1>12. CASE Tick
    <2>1. \A n \in 0..Ttl : Less(n) \in 0..Ttl
      BY ReservationAssumption DEF Less
    <2> QED BY <1>12, <2>1, EntryType DEF Tick, GrantTypeOK
  <1>13. CASE UNCHANGED vars
    BY <1>13 DEF vars, GrantTypeOK
  <1> QED BY <1>3, <1>4, <1>6, <1>7, <1>8, <1>9, <1>10, <1>11, <1>12, <1>13 DEF Next

LEMMA LostNext ==
  ASSUME lost \subseteq Utxos, PipeTypeOK, [Next]_vars
  PROVE  lost' \subseteq Utxos
  <1>1. CASE Lose
    <2>1. Head(pipe) \in Commands
      BY <1>1 DEF Lose, PipeTypeOK
    <2> QED BY <1>1, <2>1 DEF Lose, Commands
  <1>2. CASE ~Lose
    <2>1. lost' = lost
      BY <1>2 DEF Next, vars, Reserve, Release, ReleaseAll, CleanExpired, LoadFromRedis,
                  Deliver, Crash, Tick
    <2> QED BY <2>1
  <1> QED BY <1>1, <1>2

\* Who is robbed is a request, of a UTXO.
LEMMA RobbedNext ==
  ASSUME robbed \subseteq Requests \X Utxos, [Next]_vars
  PROVE  robbed' \subseteq Requests \X Utxos
  <1>1. ASSUME NEW r \in Requests, NEW u \in Utxos, Release(r, u)
        PROVE  robbed' \subseteq Requests \X Utxos
    BY <1>1 DEF Release
  <1>2. ASSUME NEW r \in Requests, NEW u \in Utxos, Reserve(r, u)
        PROVE  robbed' \subseteq Requests \X Utxos
    BY <1>2 DEF Reserve
  <1>3. CASE Tick \/ Crash
    BY <1>3 DEF Tick, Crash
  <1>4. CASE CleanExpired \/ LoadFromRedis \/ Deliver \/ Lose \/ UNCHANGED vars
             \/ \E r \in Requests : ReleaseAll(r)
    BY <1>4 DEF CleanExpired, LoadFromRedis, Deliver, Lose, vars, ReleaseAll
  <1> QED BY <1>1, <1>2, <1>3, <1>4 DEF Next

\* Every variable keeps its type, any release and failing commands included.
THEOREM TypeCorrect == Spec => []TypeOK
  <1> DEFINE TypeInv == /\ GrantTypeOK /\ PipeTypeOK
                        /\ lost \subseteq Utxos /\ robbed \subseteq Requests \X Utxos
  <1>1. Init => TypeInv
    BY InitOK, ReservationAssumption DEF Init, IInv, PipeTypeOK
  <1>2. TypeInv /\ [Next]_vars => TypeInv'
    <2> SUFFICES ASSUME TypeInv, [Next]_vars PROVE TypeInv'
      OBVIOUS
    <2>1. /\ GrantTypeOK'
          /\ lost' \subseteq Utxos /\ robbed' \subseteq Requests \X Utxos
      BY GrantTypeNext, LostNext, RobbedNext
    <2>2. CASE UNCHANGED vars
      BY <2>1, <2>2 DEF vars, PipeTypeOK
    <2>3. CASE Next
      BY <2>1, <2>3, PipeNext
    <2> QED BY <2>2, <2>3
  <1>3. TypeInv => TypeOK
    BY DEF GrantTypeOK, PipeTypeOK, TypeOK
  <1> QED BY <1>1, <1>2, <1>3, PTL DEF Spec

-----------------------------------------------------------------------------
(* What commands executed in their order do                                *)

\* A set of naturals has a least element.
LEMMA LeastNatural ==
  ASSUME NEW T \in SUBSET Nat, T # {}
  PROVE  \E n \in T : \A m \in T : n <= m
  <1> DEFINE R == OpToRel(<, Nat)
  <1>1. IsWellFoundedOn(R, Nat)
    BY NatLessThanWellFounded
  <1>2. \A m, n \in Nat : m < n => <<m, n>> \in R
    BY DEF OpToRel
  <1> HIDE DEF R
  <1>3. PICK n \in T : \A m \in T : ~(<<m, n>> \in R)
    BY <1>1, WFMin
  <1>4. ASSUME NEW m \in T PROVE n <= m
    <2>1. ~(m < n)
      BY <1>2, <1>3
    <2> QED BY <2>1
  <1> QED BY <1>3, <1>4

\* A set of numbers up to n has a greatest.
LEMMA Greatest ==
  ASSUME NEW n \in Nat, NEW S \in SUBSET (1..n), S # {}
  PROVE  Max(S) \in S /\ \A i \in S : i <= Max(S)
  <1> DEFINE T == {n - i : i \in S}
  <1>1. PICK m \in T : \A k \in T : m <= k
    <2>1. \A i \in S : n - i \in Nat
      OBVIOUS
    <2>2. T \in SUBSET Nat /\ T # {}
      BY <2>1
    <2> QED BY <2>2, LeastNatural
  <1>2. PICK x \in S : m = n - x
    OBVIOUS
  <1>3. \A i \in S : x >= i
    <2> TAKE i \in S
    <2>1. n - x <= n - i
      BY <1>1, <1>2
    <2> QED BY <2>1
  <1>4. \E y \in S : \A i \in S : y >= i
    BY <1>3
  <1>5. Max(S) \in S /\ \A i \in S : Max(S) >= i
    BY <1>4, Zenon DEF Max
  <1> QED BY <1>5

\* The last command for u among those at the places in S.
LastFor(commands, S, u, i) ==
  i \in S /\ commands[i].utxo = u /\ \A j \in S : commands[j].utxo = u => j <= i

\* What the keys hold once the commands at the places in S are executed in
\* their order: of each key, what the last command for it says.
Result(keys, commands, S) ==
  [u \in Utxos |-> IF \E i \in S : commands[i].utxo = u
                   THEN commands[CHOOSE i : LastFor(commands, S, u, i)].entry
                   ELSE keys[u]]

LEMMA ResultOfLast ==
  ASSUME NEW keys, NEW commands, NEW S \in SUBSET Nat, NEW u \in Utxos,
         NEW i, LastFor(commands, S, u, i)
  PROVE  Result(keys, commands, S)[u] = commands[i].entry
  <1> DEFINE last == CHOOSE j : LastFor(commands, S, u, j)
  <1>1. LastFor(commands, S, u, last)
    OBVIOUS
  <1>2. \E j \in S : commands[j].utxo = u
    BY DEF LastFor
  <1>3. Result(keys, commands, S)[u] = commands[last].entry
    BY <1>2 DEF Result
  <1> HIDE DEF last
  <1>4. last = i
    BY <1>1 DEF LastFor
  <1> QED BY <1>3, <1>4

LEMMA ResultOfNone ==
  ASSUME NEW keys, NEW commands, NEW S, NEW u \in Utxos, \A i \in S : commands[i].utxo # u
  PROVE  Result(keys, commands, S)[u] = keys[u]
  BY DEF Result

LEMMA LastForExists ==
  ASSUME NEW n \in Nat, NEW commands, NEW S \in SUBSET (1..n), NEW u,
         \E i \in S : commands[i].utxo = u
  PROVE  \E i : LastFor(commands, S, u, i)
  <1> DEFINE T == {i \in S : commands[i].utxo = u}
  <1>1. T \in SUBSET (1..n) /\ T # {}
    OBVIOUS
  <1>2. Max(T) \in T /\ \A i \in T : i <= Max(T)
    BY <1>1, Greatest
  <1> QED BY <1>2 DEF LastFor

LEMMA ResultStep ==
  ASSUME NEW keys \in [Utxos -> Entries], NEW n \in Nat, NEW commands \in [1..n -> Commands],
         NEW S \in SUBSET (1..n), NEW m \in S, \A i \in S : i <= m
  PROVE  Result(keys, commands, S) = Execute(commands[m], Result(keys, commands, S \ {m}))
  <1> DEFINE before == Result(keys, commands, S \ {m})
             after == Result(keys, commands, S)
  <1>1. commands[m].utxo \in Utxos /\ S \in SUBSET Nat /\ S \ {m} \in SUBSET Nat
    BY DEF Commands
  <1>2. ASSUME NEW u \in Utxos
        PROVE  after[u] = IF commands[m].utxo = u THEN commands[m].entry ELSE before[u]
    <2>1. CASE commands[m].utxo = u
      <3>1. LastFor(commands, S, u, m)
        BY <2>1 DEF LastFor
      <3> QED BY <1>1, <2>1, <3>1, ResultOfLast
    <2>2. CASE commands[m].utxo # u
      <3>1. \A i : LastFor(commands, S, u, i) <=> LastFor(commands, S \ {m}, u, i)
        BY <2>2 DEF LastFor
      <3>2. CASE \E i \in S : commands[i].utxo = u
        <4>1. PICK i : LastFor(commands, S, u, i)
          BY <3>2, LastForExists
        <4>2. after[u] = commands[i].entry
          BY <1>1, <4>1, ResultOfLast
        <4>3. LastFor(commands, S \ {m}, u, i)
          BY <3>1, <4>1
        <4>4. before[u] = commands[i].entry
          BY <1>1, <4>3, ResultOfLast
        <4> QED BY <2>2, <4>2, <4>4
      <3>3. CASE \A i \in S : commands[i].utxo # u
        <4>1. after[u] = keys[u]
          BY <3>3 DEF Result
        <4>2. \A i \in S \ {m} : commands[i].utxo # u
          BY <3>3
        <4>3. before[u] = keys[u]
          BY <4>2 DEF Result
        <4> QED BY <2>2, <4>1, <4>3
      <3> QED BY <3>2, <3>3
    <2> QED BY <2>1, <2>2
  <1>3. /\ before = [u \in Utxos |-> before[u]]
        /\ after = [u \in Utxos |-> after[u]]
    BY DEF Result
  <1> HIDE DEF before, after
  <1>4. after = Execute(commands[m], before)
    BY <1>1, <1>2, <1>3 DEF Execute
  <1> QED BY <1>4 DEF before, after

\* This is what the fold computes.
LEMMA FoldIs ==
  ASSUME NEW keys \in [Utxos -> Entries], NEW commands \in Seq(Commands)
  PROVE  FoldLeft(LAMBDA k, c : Execute(c, k), keys, commands)
           = Result(keys, commands, DOMAIN commands)
  <1> DEFINE n == Len(commands)
             D == DOMAIN commands
             Step(f) == [s \in SUBSET D |->
                           IF s = {} THEN keys
                           ELSE Execute(commands[Max(s)], f[s \ {Max(s)}])]
             iter == CHOOSE f : f = Step(f)
             R == [s \in SUBSET D |-> Result(keys, commands, s)]
  <1>1. FoldLeft(LAMBDA k, c : Execute(c, k), keys, commands) = iter[D]
    BY DEF FoldLeft, MapThenFoldSet
  <1>2. n \in Nat /\ D = 1..n /\ commands \in [1..n -> Commands]
    OBVIOUS
  <1>3. R = Step(R)
    <2>1. ASSUME NEW s \in SUBSET D
          PROVE  R[s] = Step(R)[s]
      <3>1. CASE s = {}
        <4>1. Result(keys, commands, {}) = keys
          BY DEF Result
        <4> QED BY <3>1, <4>1
      <3>2. CASE s # {}
        <4>1. Max(s) \in s /\ \A i \in s : i <= Max(s)
          BY <1>2, <3>2, Greatest
        <4>2. Result(keys, commands, s)
                = Execute(commands[Max(s)], Result(keys, commands, s \ {Max(s)}))
          BY <1>2, <4>1, ResultStep
        <4>3. s \ {Max(s)} \in SUBSET D
          OBVIOUS
        <4> QED BY <3>2, <4>2, <4>3
      <3> QED BY <3>1, <3>2
    <2> QED BY <2>1
  <1>4. iter = Step(iter)
    <2> DEFINE P(f) == f = Step(f)
    <2>1. \E f : P(f)
      BY <1>3
    <2> HIDE DEF Step
    <2> QED BY <2>1
  <1> HIDE DEF iter
  <1>5. ASSUME NEW k \in Nat, k <= n, iter[1..k] # R[1..k]
        PROVE  FALSE
    <2> DEFINE T == {j \in 0..n : iter[1..j] # R[1..j]}
    <2>1. PICK j \in T : \A i \in T : j <= i
      <3>1. T \in SUBSET Nat /\ T # {}
        BY <1>2, <1>5
      <3> QED BY <3>1, LeastNatural
    <2>2. j \in Nat /\ j <= n /\ 1..j \in SUBSET D
      BY <1>2
    <2>3. CASE j = 0
      <3>1. 1..j = {}
        BY <2>3
      <3> QED BY <1>3, <1>4, <2>1, <2>2, <3>1
    <2>4. CASE j # 0
      <3>1. j - 1 \in 0..n /\ iter[1..(j - 1)] = R[1..(j - 1)]
        <4> HIDE DEF R, n
        <4>1. j - 1 \in 0..n
          BY <1>2, <2>2, <2>4
        <4>2. j - 1 \notin T
          BY <2>1, <2>2, <4>1
        <4> QED BY <4>1, <4>2
      <3>2. 1..j # {} /\ Max(1..j) = j
        <4>1. 1..j # {}
          BY <2>4
        <4>2. Max(1..j) \in 1..j /\ \A i \in 1..j : i <= Max(1..j)
          BY <2>2, <4>1, Greatest
        <4> QED BY <2>2, <2>4, <4>2
      <3>3. (1..j) \ {j} = 1..(j - 1)
        BY <2>4
      <3>4. /\ Step(iter)[1..j] = Execute(commands[j], iter[1..(j - 1)])
            /\ Step(R)[1..j] = Execute(commands[j], R[1..(j - 1)])
        BY <2>2, <3>2, <3>3
      <3> HIDE DEF Step, R
      <3> QED BY <1>3, <1>4, <2>1, <3>1, <3>4
    <2> QED BY <2>3, <2>4
  <1>6. iter[D] = R[D]
    <2> HIDE DEF R
    <2>1. iter[1..n] = R[1..n]
      BY <1>2, <1>5
    <2> QED BY <1>2, <2>1
  <1> QED BY <1>1, <1>6

-----------------------------------------------------------------------------
(* What Redis holds after some of the commands                              *)

\* After the first k commands.
Stored(keys, commands, k) == Result(keys, commands, 1..k)

\* Induction up to n.
LEMMA UpTo ==
  ASSUME NEW n \in Nat, NEW T, 0 \in T, \A k \in 0..(n - 1) : k \in T => k + 1 \in T
  PROVE  0..n \subseteq T
  <1> SUFFICES ASSUME ~(0..n \subseteq T) PROVE FALSE
    OBVIOUS
  <1> DEFINE F == {k \in 0..n : k \notin T}
  <1>1. F \in SUBSET Nat /\ F # {}
    OBVIOUS
  <1>2. PICK k \in F : \A i \in F : k <= i
    BY <1>1, LeastNatural
  <1>3. k \in 0..n /\ k \notin T /\ k # 0
    BY <1>2
  <1>4. k - 1 \in 0..(n - 1) /\ k - 1 \notin F
    BY <1>2, <1>3
  <1>5. k - 1 \in T
    BY <1>4
  <1>6. (k - 1) + 1 \in T
    BY <1>4, <1>5
  <1> QED BY <1>3, <1>6

LEMMA ExecuteType ==
  ASSUME NEW keys \in [Utxos -> Entries], NEW command \in Commands
  PROVE  /\ Execute(command, keys) \in [Utxos -> Entries]
         /\ \A u \in Utxos :
              Execute(command, keys)[u]
                = IF command.utxo = u THEN command.entry ELSE keys[u]
  BY DEF Execute, Commands

LEMMA StoredSteps ==
  ASSUME NEW keys \in [Utxos -> Entries], NEW commands \in Seq(Commands)
  PROVE  /\ Stored(keys, commands, 0) = keys
         /\ \A k \in 0..(Len(commands) - 1) :
              Stored(keys, commands, k + 1) = Execute(commands[k + 1], Stored(keys, commands, k))
  <1>1. Stored(keys, commands, 0) = keys
    <2>1. 1..0 = {}
      OBVIOUS
    <2> QED BY <2>1 DEF Stored, Result
  <1>2. ASSUME NEW k \in 0..(Len(commands) - 1)
        PROVE  Stored(keys, commands, k + 1) = Execute(commands[k + 1], Stored(keys, commands, k))
    <2> DEFINE n == Len(commands)
               S == 1..(k + 1)
    <2>1. n \in Nat /\ commands \in [1..n -> Commands]
      OBVIOUS
    <2>2. S \in SUBSET (1..n) /\ k + 1 \in S /\ \A i \in S : i <= k + 1
      OBVIOUS
    <2>3. S \ {k + 1} = 1..k
      OBVIOUS
    <2> HIDE DEF n, S
    <2>4. Result(keys, commands, S) = Execute(commands[k + 1], Result(keys, commands, S \ {k + 1}))
      BY <2>1, <2>2, ResultStep
    <2> QED BY <2>3, <2>4 DEF Stored, S
  <1> QED BY <1>1, <1>2

LEMMA StoredType ==
  ASSUME NEW keys \in [Utxos -> Entries], NEW commands \in Seq(Commands),
         NEW k \in 0..Len(commands)
  PROVE  Stored(keys, commands, k) \in [Utxos -> Entries]
  <1> DEFINE T == {i \in 0..Len(commands) : Stored(keys, commands, i) \in [Utxos -> Entries]}
  <1>1. Len(commands) \in Nat /\ 0 \in T
    BY StoredSteps
  <1>2. ASSUME NEW i \in 0..(Len(commands) - 1), i \in T
        PROVE  i + 1 \in T
    <2>1. commands[i + 1] \in Commands
      OBVIOUS
    <2>2. Execute(commands[i + 1], Stored(keys, commands, i)) \in [Utxos -> Entries]
      BY <1>2, <2>1, ExecuteType
    <2>3. Stored(keys, commands, i + 1) \in [Utxos -> Entries]
      BY <2>2, StoredSteps
    <2> QED BY <2>3
  <1> HIDE DEF T
  <1>3. 0..Len(commands) \subseteq T
    BY <1>1, <1>2, UpTo
  <1> QED BY <1>3 DEF T

\* Commands sent later change nothing of what the earlier ones do.
LEMMA StoredPrefix ==
  ASSUME NEW keys \in [Utxos -> Entries], NEW commands \in Seq(Commands),
         NEW more \in Seq(Commands), NEW k \in 0..Len(commands)
  PROVE  Stored(keys, commands \o more, k) = Stored(keys, commands, k)
  <1> DEFINE all == commands \o more
             T == {i \in 0..Len(commands) : Stored(keys, all, i) = Stored(keys, commands, i)}
  <1>1. all \in Seq(Commands) /\ Len(all) = Len(commands) + Len(more)
    OBVIOUS
  <1>2. Len(commands) \in Nat /\ Len(more) \in Nat
    OBVIOUS
  <1>3. \A i \in 1..Len(commands) : all[i] = commands[i]
    OBVIOUS
  <1> HIDE DEF all
  <1>4. 0 \in T
    BY <1>1, <1>2, StoredSteps
  <1>5. ASSUME NEW i \in 0..(Len(commands) - 1), i \in T
        PROVE  i + 1 \in T
    <2>1. i \in 0..(Len(all) - 1) /\ i + 1 \in 1..Len(commands)
      BY <1>1, <1>2
    <2>2. all[i + 1] = commands[i + 1]
      BY <1>3, <2>1
    <2>3. Stored(keys, all, i + 1) = Stored(keys, commands, i + 1)
      BY <1>1, <1>5, <2>1, <2>2, StoredSteps
    <2> QED BY <2>1, <2>3
  <1> HIDE DEF T
  <1>6. 0..Len(commands) \subseteq T
    BY <1>2, <1>4, <1>5, UpTo
  <1> QED BY <1>6 DEF T, all

\* Those sent later start from what the earlier ones left.
LEMMA StoredAfter ==
  ASSUME NEW keys \in [Utxos -> Entries], NEW commands \in Seq(Commands),
         NEW more \in Seq(Commands), NEW k \in 0..Len(more)
  PROVE  Stored(keys, commands \o more, Len(commands) + k)
           = Stored(Stored(keys, commands, Len(commands)), more, k)
  <1> DEFINE all == commands \o more
             n == Len(commands)
             left == Stored(keys, commands, n)
             T == {i \in 0..Len(more) : Stored(keys, all, n + i) = Stored(left, more, i)}
  <1>1. all \in Seq(Commands) /\ Len(all) = n + Len(more)
    OBVIOUS
  <1>2. n \in Nat /\ Len(more) \in Nat /\ n \in 0..n
    OBVIOUS
  <1>3. \A i \in 1..Len(more) : all[n + i] = more[i]
    OBVIOUS
  <1>4. left \in [Utxos -> Entries]
    BY <1>2, StoredType
  <1>5. Stored(keys, all, n) = left
    BY <1>2, StoredPrefix
  <1> HIDE DEF all, left, n
  <1>6. 0 \in T
    <2>1. n + 0 = n /\ 0 \in 0..Len(more)
      BY <1>2
    <2>2. Stored(left, more, 0) = left
      BY <1>4, StoredSteps
    <2> QED BY <1>5, <2>1, <2>2
  <1>7. ASSUME NEW i \in 0..(Len(more) - 1), i \in T
        PROVE  i + 1 \in T
    <2>1. /\ n + i \in 0..(Len(all) - 1) /\ i + 1 \in 1..Len(more)
          /\ i + 1 \in 0..Len(more) /\ n + (i + 1) = (n + i) + 1
      BY <1>1, <1>2
    <2>2. all[(n + i) + 1] = more[i + 1]
      BY <1>3, <2>1
    <2>3. Stored(keys, all, (n + i) + 1) = Execute(more[i + 1], Stored(keys, all, n + i))
      <3>1. \A j \in 0..(Len(all) - 1) :
              Stored(keys, all, j + 1) = Execute(all[j + 1], Stored(keys, all, j))
        BY <1>1, StoredSteps
      <3> QED BY <2>1, <2>2, <3>1
    <2>4. Stored(left, more, i + 1) = Execute(more[i + 1], Stored(left, more, i))
      BY <1>4, StoredSteps
    <2> QED BY <1>7, <2>1, <2>3, <2>4
  <1> HIDE DEF T
  <1>8. 0..Len(more) \subseteq T
    BY <1>2, <1>6, <1>7, UpTo
  <1> QED BY <1>8 DEF T, all, left, n

\* A command that is executed leaves the others to execute.
LEMMA StoredTail ==
  ASSUME NEW keys \in [Utxos -> Entries], NEW commands \in Seq(Commands), commands # <<>>,
         NEW k \in 0..Len(Tail(commands))
  PROVE  /\ k + 1 \in 0..Len(commands)
         /\ Stored(Execute(Head(commands), keys), Tail(commands), k)
              = Stored(keys, commands, k + 1)
  <1> DEFINE first == <<Head(commands)>>
             rest == Tail(commands)
  <1>1. first \in Seq(Commands) /\ rest \in Seq(Commands) /\ Len(first) = 1 /\ Len(rest) \in Nat
    OBVIOUS
  <1>2. commands = first \o rest /\ Len(commands) = Len(rest) + 1
    OBVIOUS
  <1>3. first[1] = Head(commands)
    OBVIOUS
  <1> HIDE DEF first
  <1>4. Stored(keys, first, 1) = Execute(Head(commands), keys)
    <2>1. 0 \in 0..(Len(first) - 1) /\ 0 + 1 = 1
      BY <1>1
    <2>2. Stored(keys, first, 0 + 1) = Execute(first[0 + 1], Stored(keys, first, 0))
      BY <1>1, <2>1, StoredSteps
    <2> QED BY <1>1, <1>3, <2>1, <2>2, StoredSteps
  <1>5. Stored(keys, first \o rest, Len(first) + k)
          = Stored(Stored(keys, first, Len(first)), rest, k)
    BY <1>1, StoredAfter
  <1>6. Len(first) + k = k + 1 /\ k + 1 \in 0..Len(commands)
    BY <1>1, <1>2
  <1> QED BY <1>1, <1>2, <1>4, <1>5, <1>6

\* Time passes for what is stored and for what is on the way alike.
AgedKeys(keys) == [u \in Utxos |-> Older(keys[u])]
AgedCommands(commands) ==
  [i \in DOMAIN commands |-> [commands[i] EXCEPT !.entry = Older(@)]]

LEMMA AgedTypes ==
  ASSUME NEW keys \in [Utxos -> Entries], NEW commands \in Seq(Commands)
  PROVE  /\ AgedKeys(keys) \in [Utxos -> Entries]
         /\ AgedCommands(commands) \in Seq(Commands)
         /\ Len(AgedCommands(commands)) = Len(commands)
         /\ \A i \in 1..Len(commands) :
              /\ AgedCommands(commands)[i].utxo = commands[i].utxo
              /\ AgedCommands(commands)[i].entry = Older(commands[i].entry)
  <1>1. AgedKeys(keys) \in [Utxos -> Entries]
    BY EntryType DEF AgedKeys
  <1>2. DOMAIN commands = 1..Len(commands) /\ Len(commands) \in Nat
    OBVIOUS
  <1>3. \A c \in Commands : /\ [c EXCEPT !.entry = Older(@)] \in Commands
                            /\ [c EXCEPT !.entry = Older(@)].utxo = c.utxo
                            /\ [c EXCEPT !.entry = Older(@)].entry = Older(c.entry)
    BY EntryType DEF Commands
  <1>4. \A i \in 1..Len(commands) : commands[i] \in Commands
    OBVIOUS
  <1>5. AgedCommands(commands)
          = [i \in 1..Len(commands) |-> [commands[i] EXCEPT !.entry = Older(@)]]
    BY <1>2 DEF AgedCommands
  <1>6. AgedCommands(commands) \in Seq(Commands) /\ Len(AgedCommands(commands)) = Len(commands)
    BY <1>2, <1>3, <1>4, <1>5
  <1>7. ASSUME NEW i \in 1..Len(commands)
        PROVE  /\ AgedCommands(commands)[i].utxo = commands[i].utxo
               /\ AgedCommands(commands)[i].entry = Older(commands[i].entry)
    BY <1>3, <1>4, <1>5
  <1> QED BY <1>1, <1>6, <1>7

LEMMA StoredAged ==
  ASSUME NEW keys \in [Utxos -> Entries], NEW commands \in Seq(Commands),
         NEW k \in 0..Len(commands), NEW u \in Utxos
  PROVE  Stored(AgedKeys(keys), AgedCommands(commands), k)[u]
           = Older(Stored(keys, commands, k)[u])
  <1> DEFINE old == AgedKeys(keys)
             aged == AgedCommands(commands)
             n == Len(commands)
             T == {i \in 0..n : Stored(old, aged, i)[u] = Older(Stored(keys, commands, i)[u])}
  <1>1. /\ old \in [Utxos -> Entries] /\ aged \in Seq(Commands) /\ Len(aged) = n /\ n \in Nat
        /\ \A i \in 1..n : /\ aged[i].utxo = commands[i].utxo
                           /\ aged[i].entry = Older(commands[i].entry)
    <2>1. n \in Nat
      OBVIOUS
    <2> HIDE DEF n
    <2> QED BY <2>1, AgedTypes DEF n
  <1>2. old[u] = Older(keys[u])
    BY DEF AgedKeys
  <1> HIDE DEF old, aged
  <1>3. 0 \in T
    BY <1>1, <1>2, StoredSteps
  <1>4. ASSUME NEW i \in 0..(n - 1), i \in T
        PROVE  i + 1 \in T
    <2>1. i \in 0..n /\ i + 1 \in 0..n /\ i + 1 \in 1..n /\ i \in 0..(Len(aged) - 1) /\ i \in 0..Len(aged)
      BY <1>1
    <2>2. commands[i + 1] \in Commands /\ aged[i + 1] \in Commands
      BY <1>1, <2>1
    <2>3. Stored(old, aged, i) \in [Utxos -> Entries] /\ Stored(keys, commands, i) \in [Utxos -> Entries]
      BY <1>1, <2>1, StoredType
    <2>4. Stored(old, aged, i + 1) = Execute(aged[i + 1], Stored(old, aged, i))
      BY <1>1, <2>1, StoredSteps
    <2>5. Stored(keys, commands, i + 1) = Execute(commands[i + 1], Stored(keys, commands, i))
      BY StoredSteps
    <2>6. Stored(old, aged, i + 1)[u]
            = IF aged[i + 1].utxo = u THEN aged[i + 1].entry ELSE Stored(old, aged, i)[u]
      BY <2>2, <2>3, <2>4, ExecuteType
    <2>7. Stored(keys, commands, i + 1)[u]
            = IF commands[i + 1].utxo = u THEN commands[i + 1].entry ELSE Stored(keys, commands, i)[u]
      BY <2>2, <2>3, <2>5, ExecuteType
    <2>8. Stored(old, aged, i)[u] = Older(Stored(keys, commands, i)[u])
      BY <1>4
    <2>9. /\ aged[i + 1].utxo = commands[i + 1].utxo
          /\ aged[i + 1].entry = Older(commands[i + 1].entry)
      BY <1>1, <2>1
    <2>10. Stored(old, aged, i + 1)[u] = Older(Stored(keys, commands, i + 1)[u])
      BY <2>6, <2>7, <2>8, <2>9
    <2> QED BY <2>1, <2>10
  <1> HIDE DEF T
  <1>5. 0..n \subseteq T
    BY <1>1, <1>3, <1>4, UpTo
  <1> QED BY <1>5 DEF T, old, aged

-----------------------------------------------------------------------------
(* What is stored against what is reserved                                 *)

Unexpired(entry) == entry.holder # Nobody /\ entry.left > 0

\* The reservations a restart would find after the first k commands.
Live(keys, commands, k) == {u \in Utxos : Unexpired(Stored(keys, commands, k)[u])}

\* A restart would find at most so many, whenever the process dies.
Capped(keys, commands) ==
  \A k \in 0..Len(commands) : Cardinality(Live(keys, commands, k)) <= MaxConcurrent

\* The commands lead Redis to the map m, apart from the UTXOs of `gone`.
Follows(m, keys, commands, gone) ==
  \A u \in Utxos \ gone :
    LET stored == Stored(keys, commands, Len(commands))[u] IN
    IF m[u].left > 0 THEN stored = m[u] ELSE stored.left = 0

LEMMA LiveFinite ==
  ASSUME NEW keys, NEW commands, NEW k
  PROVE  IsFiniteSet(Live(keys, commands, k))
  <1>1. Live(keys, commands, k) \in SUBSET Utxos
    BY DEF Live
  <1> QED BY <1>1, FS_Subset, ReservationAssumption

LEMMA NoMoreLive ==
  ASSUME NEW keys1, NEW commands1, NEW k1, NEW keys2, NEW commands2, NEW k2,
         Live(keys2, commands2, k2) \subseteq Live(keys1, commands1, k1),
         Cardinality(Live(keys1, commands1, k1)) <= MaxConcurrent
  PROVE  Cardinality(Live(keys2, commands2, k2)) <= MaxConcurrent
  <1> DEFINE A == Live(keys1, commands1, k1)
             B == Live(keys2, commands2, k2)
  <1>1. IsFiniteSet(A) /\ IsFiniteSet(B)
    BY LiveFinite
  <1> HIDE DEF A, B
  <1>2. B \in SUBSET A /\ Cardinality(A) <= MaxConcurrent
    BY DEF A, B
  <1>3. Cardinality(B) <= Cardinality(A) /\ Cardinality(A) \in Nat /\ Cardinality(B) \in Nat
    BY <1>1, <1>2, FS_Subset, FS_CardinalityType
  <1>4. MaxConcurrent \in Nat
    BY ReservationAssumption
  <1>5. Cardinality(B) <= MaxConcurrent
    BY <1>2, <1>3, <1>4
  <1> QED BY <1>5 DEF B

\* Where Redis follows the map with nothing lost, it leads to the same
\* reservations.
LEMMA LiveIsMap ==
  ASSUME NEW m \in [Utxos -> Entries], NEW keys, NEW commands, Follows(m, keys, commands, {})
  PROVE  Live(keys, commands, Len(commands)) = {u \in Utxos : Unexpired(m[u])}
  <1>1. ASSUME NEW u \in Utxos
        PROVE  Unexpired(Stored(keys, commands, Len(commands))[u]) <=> Unexpired(m[u])
    <2>1. CASE m[u].left > 0
      BY <2>1 DEF Follows
    <2>2. CASE ~(m[u].left > 0)
      <3>1. Stored(keys, commands, Len(commands))[u].left = 0
        BY <2>2 DEF Follows
      <3> QED BY <2>2, <3>1 DEF Unexpired
    <2> QED BY <2>1, <2>2
  <1> QED BY <1>1 DEF Live

\* Commands that delete the UTXOs of a set.
Deletes(commands, gone) ==
  /\ \A i \in DOMAIN commands : \E u \in gone : commands[i] = DelCommand(u)
  /\ \A u \in gone : \E i \in DOMAIN commands : commands[i] = DelCommand(u)

\* They free these and leave the others alone, whichever of them is executed.
LEMMA StoredDeletes ==
  ASSUME NEW keys \in [Utxos -> Entries], NEW commands \in Seq(Commands),
         NEW gone \in SUBSET Utxos, Deletes(commands, gone), NEW u \in Utxos
  PROVE  /\ \A k \in 0..Len(commands) : Stored(keys, commands, k)[u] \in {keys[u], Free}
         /\ Stored(keys, commands, Len(commands))[u] = IF u \in gone THEN Free ELSE keys[u]
  <1> DEFINE n == Len(commands)
             last(k) == CHOOSE i : LastFor(commands, 1..k, u, i)
  <1>1. n \in Nat /\ DOMAIN commands = 1..n
    OBVIOUS
  <1>2. \A v : DelCommand(v).entry = Free /\ DelCommand(v).utxo = v
    BY DEF DelCommand
  <1>3. ASSUME NEW k \in 0..n
        PROVE  IF \E i \in 1..k : commands[i].utxo = u
               THEN Stored(keys, commands, k)[u] = Free
               ELSE Stored(keys, commands, k)[u] = keys[u]
    <2>1. CASE \E i \in 1..k : commands[i].utxo = u
      <3>0. k \in Nat /\ 1..k \in SUBSET (1..k)
        BY <1>1
      <3>1. PICK i : LastFor(commands, 1..k, u, i)
        BY <2>1, <3>0, LastForExists
      <3>2. i \in DOMAIN commands
        BY <1>1, <3>1 DEF LastFor
      <3>3. commands[i].entry = Free
        BY <1>2, <3>2 DEF Deletes
      <3>4. Result(keys, commands, 1..k)[u] = commands[i].entry
        BY <3>1, ResultOfLast
      <3> QED BY <2>1, <3>3, <3>4 DEF Stored
    <2>2. CASE \A i \in 1..k : commands[i].utxo # u
      <3>1. Result(keys, commands, 1..k)[u] = keys[u]
        BY <2>2 DEF Result
      <3> QED BY <2>2, <3>1 DEF Stored
    <2> QED BY <2>1, <2>2
  <1>4. (\E i \in 1..n : commands[i].utxo = u) <=> u \in gone
    <2>1. ASSUME NEW i \in 1..n, commands[i].utxo = u PROVE u \in gone
      BY <1>1, <1>2, <2>1 DEF Deletes
    <2>2. ASSUME u \in gone PROVE \E i \in 1..n : commands[i].utxo = u
      BY <1>1, <1>2, <2>2 DEF Deletes
    <2> QED BY <2>1, <2>2
  <1>5. ASSUME NEW k \in 0..n PROVE Stored(keys, commands, k)[u] \in {keys[u], Free}
    BY <1>3
  <1>6. Stored(keys, commands, n)[u] = IF u \in gone THEN Free ELSE keys[u]
    BY <1>1, <1>3, <1>4
  <1> QED BY <1>5, <1>6

\* Deleting from the map and in Redis.
LEMMA DropKeeps ==
  ASSUME NEW m \in [Utxos -> Entries], NEW keys \in [Utxos -> Entries],
         NEW commands \in Seq(Commands), NEW dels \in Seq(Commands),
         NEW gone \in SUBSET Utxos, Deletes(dels, gone), NEW away
  PROVE  LET left == [u \in Utxos |-> IF u \in gone THEN Free ELSE m[u]] IN
         /\ Follows(m, keys, commands, away) => Follows(left, keys, commands \o dels, away)
         /\ Capped(keys, commands) => Capped(keys, commands \o dels)
  <1> DEFINE left == [u \in Utxos |-> IF u \in gone THEN Free ELSE m[u]]
             all == commands \o dels
             n == Len(commands)
             now == Stored(keys, commands, n)
  <1>1. n \in Nat /\ Len(dels) \in Nat /\ Len(all) = n + Len(dels)
    OBVIOUS
  <1>2. now \in [Utxos -> Entries]
    BY <1>1, StoredType
  <1>3. ASSUME NEW k \in 0..n PROVE Stored(keys, all, k) = Stored(keys, commands, k)
    BY StoredPrefix
  <1>4. ASSUME NEW k \in 0..Len(dels) PROVE Stored(keys, all, n + k) = Stored(now, dels, k)
    BY StoredAfter
  <1> HIDE DEF all, now
  <1>5. ASSUME NEW u \in Utxos
        PROVE  /\ \A k \in 0..Len(dels) : Stored(keys, all, n + k)[u] \in {now[u], Free}
               /\ Stored(keys, all, Len(all))[u] = IF u \in gone THEN Free ELSE now[u]
    <2>1. /\ \A k \in 0..Len(dels) : Stored(now, dels, k)[u] \in {now[u], Free}
          /\ Stored(now, dels, Len(dels))[u] = IF u \in gone THEN Free ELSE now[u]
      BY <1>2, StoredDeletes
    <2>2. Len(dels) \in 0..Len(dels)
      BY <1>1
    <2>3. Stored(keys, all, n + Len(dels)) = Stored(now, dels, Len(dels))
      BY <1>4, <2>2
    <2> HIDE DEF n
    <2> QED BY <1>1, <1>4, <2>1, <2>3
  <1>6. ASSUME Follows(m, keys, commands, away)
        PROVE  Follows(left, keys, all, away)
    <2> SUFFICES ASSUME NEW u \in Utxos \ away
                 PROVE  LET stored == Stored(keys, all, Len(all))[u] IN
                        IF left[u].left > 0 THEN stored = left[u] ELSE stored.left = 0
      BY DEF Follows
    <2>1. IF m[u].left > 0 THEN now[u] = m[u] ELSE now[u].left = 0
      BY <1>6 DEF Follows, now
    <2>2. left[u] = IF u \in gone THEN Free ELSE m[u]
      OBVIOUS
    <2> HIDE DEF left
    <2> QED BY <1>5, <2>1, <2>2, EntryType
  <1>7. ASSUME Capped(keys, commands)
        PROVE  Capped(keys, all)
    <2> SUFFICES ASSUME NEW k \in 0..Len(all)
                 PROVE  Cardinality(Live(keys, all, k)) <= MaxConcurrent
      BY DEF Capped
    <2>1. CASE k <= n
      <3>1. k \in 0..n
        BY <1>1, <2>1
      <3>2. Live(keys, all, k) = Live(keys, commands, k)
        BY <1>3, <3>1 DEF Live
      <3> QED BY <1>7, <3>1, <3>2 DEF Capped
    <2>2. CASE ~(k <= n)
      <3>1. k - n \in 0..Len(dels) /\ n + (k - n) = k /\ n \in 0..n
        BY <1>1, <2>2
      <3>2. ~Unexpired(Free)
        BY DEF Unexpired, Free
      <3>3. ASSUME NEW u \in Utxos, Unexpired(Stored(keys, all, k)[u])
            PROVE  Unexpired(now[u])
        <4>1. Stored(keys, all, k)[u] \in {now[u], Free}
          BY <1>5, <3>1
        <4> QED BY <3>2, <3>3, <4>1
      <3>4. Live(keys, all, k) \subseteq Live(keys, commands, n)
        BY <3>3 DEF Live, now
      <3>5. Cardinality(Live(keys, commands, n)) <= MaxConcurrent
        BY <1>7, <3>1 DEF Capped
      <3> QED BY <3>4, <3>5, NoMoreLive
    <2> QED BY <2>1, <2>2
  <1> QED BY <1>6, <1>7 DEF all

\* Reserving in the map and in Redis.
LEMMA SetKeeps ==
  ASSUME NEW m \in [Utxos -> Entries], NEW keys \in [Utxos -> Entries],
         NEW commands \in Seq(Commands), NEW v \in Utxos, NEW entry \in Entries,
         entry.left > 0, NEW away
  PROVE  /\ Follows(m, keys, commands, away)
              => Follows([m EXCEPT ![v] = entry], keys, Append(commands, SetCommand(v, entry)), away)
         /\ /\ Capped(keys, commands)
            /\ Cardinality(Live(keys, commands, Len(commands))) < MaxConcurrent
            => Capped(keys, Append(commands, SetCommand(v, entry)))
  <1> DEFINE command == SetCommand(v, entry)
             one == <<command>>
             all == Append(commands, command)
             set == [m EXCEPT ![v] = entry]
             n == Len(commands)
             now == Stored(keys, commands, n)
  <1>1. command \in Commands /\ command.utxo = v /\ command.entry = entry
    BY CommandTypes DEF SetCommand
  <1> HIDE DEF command
  <1>2. n \in Nat /\ all \in Seq(Commands) /\ Len(all) = n + 1 /\ one \in Seq(Commands)
    BY <1>1
  <1>3. all = commands \o one /\ all[n + 1] = command
    BY <1>1
  <1>4. now \in [Utxos -> Entries]
    BY <1>2, StoredType
  <1>5. ASSUME NEW k \in 0..n PROVE Stored(keys, all, k) = Stored(keys, commands, k)
    <2> HIDE DEF all, one
    <2> QED BY <1>2, <1>3, StoredPrefix
  <1> HIDE DEF all, now, one
  <1>6. ASSUME NEW u \in Utxos
        PROVE  Stored(keys, all, n + 1)[u] = IF u = v THEN entry ELSE now[u]
    <2>1. n \in 0..(Len(all) - 1) /\ n \in 0..n
      BY <1>2
    <2>2. Stored(keys, all, n + 1) = Execute(all[n + 1], Stored(keys, all, n))
      BY <1>2, <2>1, StoredSteps
    <2>3. Stored(keys, all, n) = now
      BY <1>5, <2>1 DEF now
    <2> QED BY <1>1, <1>3, <1>4, <2>2, <2>3, ExecuteType
  <1>7. ASSUME Follows(m, keys, commands, away)
        PROVE  Follows(set, keys, all, away)
    <2> SUFFICES ASSUME NEW u \in Utxos \ away
                 PROVE  LET stored == Stored(keys, all, Len(all))[u] IN
                        IF set[u].left > 0 THEN stored = set[u] ELSE stored.left = 0
      BY DEF Follows
    <2>1. IF m[u].left > 0 THEN now[u] = m[u] ELSE now[u].left = 0
      BY <1>7 DEF Follows, now
    <2>2. set[u] = IF u = v THEN entry ELSE m[u]
      OBVIOUS
    <2>3. Stored(keys, all, Len(all))[u] = IF u = v THEN entry ELSE now[u]
      BY <1>2, <1>6
    <2> HIDE DEF set, n
    <2> QED BY <2>1, <2>2, <2>3
  <1>8. ASSUME Capped(keys, commands), Cardinality(Live(keys, commands, n)) < MaxConcurrent
        PROVE  Capped(keys, all)
    <2> SUFFICES ASSUME NEW k \in 0..Len(all)
                 PROVE  Cardinality(Live(keys, all, k)) <= MaxConcurrent
      BY DEF Capped
    <2>1. CASE k <= n
      <3>1. k \in 0..n
        BY <1>2, <2>1
      <3>2. Live(keys, all, k) = Live(keys, commands, k)
        BY <1>5, <3>1 DEF Live
      <3> QED BY <1>8, <3>1, <3>2 DEF Capped
    <2>2. CASE ~(k <= n)
      <3> DEFINE A == Live(keys, commands, n)
                 B == Live(keys, all, k)
      <3>1. k = n + 1
        BY <1>2, <2>2
      <3>2. B \subseteq A \cup {v}
        BY <1>6, <3>1 DEF Live, now
      <3>3. IsFiniteSet(A) /\ IsFiniteSet(B)
        BY LiveFinite
      <3>4. Cardinality(A) < MaxConcurrent
        BY <1>8
      <3> HIDE DEF A, B
      <3>5. /\ IsFiniteSet(A \cup {v})
            /\ Cardinality(A \cup {v}) = IF v \in A THEN Cardinality(A) ELSE Cardinality(A) + 1
        BY <3>3, FS_AddElement
      <3>6. B \in SUBSET (A \cup {v})
        BY <3>2
      <3>7. Cardinality(B) <= Cardinality(A \cup {v})
        BY <3>5, <3>6, FS_Subset
      <3>8. Cardinality(A) \in Nat /\ Cardinality(B) \in Nat /\ MaxConcurrent \in Nat
        BY <3>3, FS_CardinalityType, ReservationAssumption
      <3>9. Cardinality(B) <= MaxConcurrent
        BY <3>4, <3>5, <3>7, <3>8
      <3> QED BY <3>9 DEF B
    <2> QED BY <2>1, <2>2
  <1> QED BY <1>7, <1>8 DEF all, command

\* What does not depend on a key is not changed by it.
LEMMA StoredPointwise ==
  ASSUME NEW keys1, NEW keys2, NEW commands, NEW k, NEW u \in Utxos, keys1[u] = keys2[u]
  PROVE  Stored(keys1, commands, k)[u] = Stored(keys2, commands, k)[u]
  BY DEF Stored, Result

-----------------------------------------------------------------------------
(* Redis follows the Map                                                   *)

\* A process that is down reserves nothing and has sent nothing; one that is
\* up has sent all that Redis lacks; and whatever part of it is executed
\* before a crash, a restart finds no more reservations than the cap allows,
\* unless a command failed.
RedisInv ==
  /\ ~up => pipe = <<>> /\ \A u \in Utxos : map[u] = Free
  /\ up => Follows(map, redis, pipe, lost)
  /\ lost = {} => Capped(redis, pipe)

LEMMA DeletionsDelete ==
  ASSUME NEW gone \in SUBSET Utxos
  PROVE  Deletes(Deletions(gone), gone)
  <1> DEFINE order == SetToSeq(gone)
             n == Cardinality(gone)
  <1>1. IsFiniteSet(gone)
    BY FS_Subset, ReservationAssumption
  <1>2. n \in Nat /\ ExistsBijection(1..n, gone)
    BY <1>1, FS_CardinalityType
  <1>3. \E f \in [1..n -> gone] : IsInjective(f)
    BY <1>2 DEF ExistsBijection, Bijection, Injection
  <1>4. order \in [1..n -> gone] /\ IsInjective(order)
    BY <1>3 DEF SetToSeq
  <1>5. Deletions(gone) = [i \in DOMAIN order |-> DelCommand(order[i])]
    BY DEF Deletions
  <1> HIDE DEF order
  <1>6. order \in Surjection(1..n, gone)
    <2>1. order \in Injection(1..n, gone)
      BY <1>4 DEF Injection
    <2>2. IsFiniteSet(1..n) /\ Cardinality(1..n) = n
      BY <1>2, FS_Interval
    <2> QED BY <1>1, <2>1, <2>2, FS_Injection
  <1>7. \A u \in gone : \E i \in 1..n : order[i] = u
    BY <1>6 DEF Surjection
  <1>8. DOMAIN Deletions(gone) = 1..n /\ \A i \in 1..n : Deletions(gone)[i] = DelCommand(order[i])
    BY <1>4, <1>5
  <1> QED BY <1>4, <1>7, <1>8 DEF Deletes

LEMMA DropInv ==
  ASSUME TypeOK, RedisInv, up, up' = up, lost' = lost, redis' = redis,
         NEW gone \in SUBSET Utxos, map' = Without(gone),
         NEW dels \in Seq(Commands), Deletes(dels, gone), Send(dels)
  PROVE  RedisInv'
  <1>1. /\ map \in [Utxos -> Entries] /\ redis \in [Utxos -> Entries] /\ pipe \in Seq(Commands)
        /\ pipe' = pipe \o dels /\ map' = [u \in Utxos |-> IF u \in gone THEN Free ELSE map[u]]
    BY DEF TypeOK, Send, Without
  <1>2. /\ Follows(map, redis, pipe, lost) => Follows(map', redis, pipe', lost)
        /\ Capped(redis, pipe) => Capped(redis, pipe')
    <2> DEFINE left == [u \in Utxos |-> IF u \in gone THEN Free ELSE map[u]]
    <2>1. /\ Follows(map, redis, pipe, lost) => Follows(left, redis, pipe \o dels, lost)
          /\ Capped(redis, pipe) => Capped(redis, pipe \o dels)
      BY <1>1, DropKeeps
    <2> QED BY <1>1, <2>1
  <1>3. Follows(map', redis', pipe', lost')
    BY <1>2 DEF RedisInv
  <1>4. lost' = {} => Capped(redis', pipe')
    BY <1>2 DEF RedisInv
  <1> QED BY <1>3, <1>4 DEF RedisInv

LEMMA ReserveInv ==
  ASSUME TypeOK, RedisInv, NEW r \in Requests, NEW u \in Utxos, Reserve(r, u)
  PROVE  RedisInv'
  <1> DEFINE dels == Deletions(Expired)
             left == Without(Expired)
             entry == Entry(r, Ttl)
             sent == pipe \o dels
  <1>1. /\ up /\ up' = up /\ redis' = redis /\ lost' = lost
        /\ map' = [left EXCEPT ![u] = entry]
        /\ pipe' = pipe \o Append(dels, SetCommand(u, entry))
        /\ Cardinality(Reserved \ Expired) < MaxConcurrent
    BY DEF Reserve, Send, BelowCap
  <1>2. map \in [Utxos -> Entries] /\ redis \in [Utxos -> Entries] /\ pipe \in Seq(Commands)
    BY DEF TypeOK
  <1>3. Expired \in SUBSET Utxos
    BY DEF Expired, Reserved
  <1>4. dels \in Seq(Commands) /\ Deletes(dels, Expired)
    BY <1>3, DeletionsType, DeletionsDelete
  <1>5. entry \in Entries /\ entry.left > 0
    BY ReservationAssumption, EntryType
  <1>6. SetCommand(u, entry) \in Commands
    BY <1>5, CommandTypes
  <1>7. left \in [Utxos -> Entries] /\ left = [v \in Utxos |-> IF v \in Expired THEN Free ELSE map[v]]
    BY <1>2, MapWithout DEF Without
  <1> HIDE DEF dels, left, entry
  <1>8. sent \in Seq(Commands) /\ pipe' = Append(sent, SetCommand(u, entry))
    BY <1>1, <1>2, <1>4, <1>6
  <1>9. /\ Follows(left, redis, sent, lost)
        /\ lost = {} => Capped(redis, sent)
    BY <1>1, <1>2, <1>3, <1>4, <1>7, DropKeeps DEF RedisInv
  <1> HIDE DEF sent
  <1>10. Follows(map', redis', pipe', lost')
    <2>1. Follows([left EXCEPT ![u] = entry], redis, Append(sent, SetCommand(u, entry)), lost)
      BY <1>2, <1>5, <1>7, <1>8, <1>9, SetKeeps
    <2> QED BY <1>1, <1>8, <2>1
  <1>11. ASSUME lost = {} PROVE Capped(redis', pipe')
    <2>1. Live(redis, sent, Len(sent)) = {v \in Utxos : Unexpired(left[v])}
      BY <1>2, <1>7, <1>8, <1>9, <1>11, LiveIsMap
    <2>2. {v \in Utxos : Unexpired(left[v])} = Reserved \ Expired
      <3>1. ASSUME NEW v \in Utxos PROVE Unexpired(left[v]) <=> v \in Reserved \ Expired
        <4>1. map[v].left \in Nat
          BY <1>2, EntryType
        <4>2. ~Unexpired(Free)
          BY DEF Unexpired, Free
        <4> QED BY <1>7, <4>1, <4>2 DEF Unexpired, Reserved, Expired
      <3> QED BY <3>1 DEF Reserved
    <2>3. Cardinality(Live(redis, sent, Len(sent))) < MaxConcurrent
      BY <1>1, <2>1, <2>2
    <2>4. Capped(redis, Append(sent, SetCommand(u, entry)))
      BY <1>2, <1>5, <1>7, <1>8, <1>9, <1>11, <2>3, SetKeeps
    <2> QED BY <1>1, <1>8, <2>4
  <1> QED BY <1>1, <1>10, <1>11 DEF RedisInv

LEMMA DeliverInv ==
  ASSUME TypeOK, RedisInv, Deliver
  PROVE  RedisInv'
  <1>1. /\ map \in [Utxos -> Entries] /\ redis \in [Utxos -> Entries] /\ pipe \in Seq(Commands)
        /\ pipe # <<>> /\ redis' = Execute(Head(pipe), redis) /\ pipe' = Tail(pipe)
        /\ up' = up /\ map' = map /\ lost' = lost
    BY DEF TypeOK, Deliver
  <1>2. up
    BY <1>1 DEF RedisInv
  <1>3. ASSUME NEW k \in 0..Len(pipe')
        PROVE  k + 1 \in 0..Len(pipe) /\ Stored(redis', pipe', k) = Stored(redis, pipe, k + 1)
    BY <1>1, StoredTail
  <1>4. Len(pipe') \in 0..Len(pipe') /\ Len(pipe') + 1 = Len(pipe)
    BY <1>1
  <1>5. Follows(map', redis', pipe', lost')
    <2>1. Follows(map, redis, pipe, lost)
      BY <1>2 DEF RedisInv
    <2>2. Stored(redis', pipe', Len(pipe')) = Stored(redis, pipe, Len(pipe))
      BY <1>3, <1>4
    <2> QED BY <1>1, <2>1, <2>2 DEF Follows
  <1>6. ASSUME Capped(redis, pipe) PROVE Capped(redis', pipe')
    <2> SUFFICES ASSUME NEW k \in 0..Len(pipe')
                 PROVE  Cardinality(Live(redis', pipe', k)) <= MaxConcurrent
      BY DEF Capped
    <2>1. Live(redis', pipe', k) = Live(redis, pipe, k + 1)
      BY <1>3 DEF Live
    <2> QED BY <1>3, <1>6, <2>1 DEF Capped
  <1> QED BY <1>1, <1>2, <1>5, <1>6 DEF RedisInv

LEMMA LoseInv ==
  ASSUME TypeOK, RedisInv, Lose
  PROVE  RedisInv'
  <1> DEFINE key == Head(pipe).utxo
  <1>1. /\ map \in [Utxos -> Entries] /\ redis \in [Utxos -> Entries] /\ pipe \in Seq(Commands)
        /\ pipe # <<>> /\ redis' = redis /\ pipe' = Tail(pipe)
        /\ up' = up /\ map' = map /\ lost' = lost \cup {key}
    BY DEF TypeOK, Lose
  <1>2. up
    BY <1>1 DEF RedisInv
  <1>3. Head(pipe) \in Commands
    BY <1>1
  <1> HIDE DEF key
  <1>4. ASSUME NEW u \in Utxos \ lost'
        PROVE  Stored(redis', pipe', Len(pipe'))[u] = Stored(redis, pipe, Len(pipe))[u]
    <2>1. Len(Tail(pipe)) \in 0..Len(Tail(pipe)) /\ Len(Tail(pipe)) + 1 = Len(pipe)
      BY <1>1
    <2>2. Stored(Execute(Head(pipe), redis), Tail(pipe), Len(Tail(pipe)))
            = Stored(redis, pipe, Len(pipe))
      BY <1>1, <2>1, StoredTail
    <2>3. Execute(Head(pipe), redis)[u] = redis[u]
      BY <1>1, <1>3, ExecuteType DEF key
    <2>4. Stored(Execute(Head(pipe), redis), Tail(pipe), Len(Tail(pipe)))[u]
            = Stored(redis, Tail(pipe), Len(Tail(pipe)))[u]
      BY <2>3, StoredPointwise
    <2> QED BY <1>1, <2>2, <2>4
  <1>5. Follows(map', redis', pipe', lost')
    <2>1. Follows(map, redis, pipe, lost)
      BY <1>2 DEF RedisInv
    <2> QED BY <1>1, <1>4, <2>1 DEF Follows
  <1> QED BY <1>1, <1>2, <1>5 DEF RedisInv

LEMMA CrashInv ==
  ASSUME TypeOK, RedisInv, Crash
  PROVE  RedisInv'
  <1>1. /\ redis \in [Utxos -> Entries] /\ pipe \in Seq(Commands)
        /\ up' = FALSE /\ map' = [u \in Utxos |-> Free] /\ pipe' = <<>>
        /\ redis' = redis /\ lost' = lost
    BY DEF TypeOK, Crash
  <1>2. ASSUME Capped(redis, pipe) PROVE Capped(redis', pipe')
    <2>1. <<>> \in Seq(Commands) /\ Len(<<>>) = 0 /\ 0 \in 0..Len(pipe)
      BY <1>1
    <2>2. Stored(redis, <<>>, 0) = redis /\ Stored(redis, pipe, 0) = redis
      BY <1>1, <2>1, StoredSteps
    <2>3. Live(redis, <<>>, 0) = Live(redis, pipe, 0)
      BY <2>2 DEF Live
    <2>4. Cardinality(Live(redis, <<>>, 0)) <= MaxConcurrent
      BY <1>2, <2>1, <2>3 DEF Capped
    <2>5. \A k \in 0..Len(<<>>) : k = 0
      BY <2>1
    <2> QED BY <1>1, <2>4, <2>5 DEF Capped
  <1> QED BY <1>1, <1>2 DEF RedisInv

LEMMA LoadFromRedisInv ==
  ASSUME TypeOK, RedisInv, LoadFromRedis
  PROVE  RedisInv'
  <1>1. /\ redis \in [Utxos -> Entries] /\ pipe = <<>>
        /\ up' = TRUE /\ map' = [u \in Utxos |-> Loaded(u)] /\ pipe' = pipe
        /\ redis' = redis /\ lost' = lost
    BY DEF TypeOK, LoadFromRedis, RedisInv
  <1>2. Stored(redis, pipe, Len(pipe)) = redis
    <2>1. <<>> \in Seq(Commands) /\ Len(<<>>) = 0
      OBVIOUS
    <2> QED BY <1>1, <2>1, StoredSteps
  <1>3. Follows(map', redis', pipe', lost')
    <2> SUFFICES ASSUME NEW u \in Utxos
                 PROVE  IF Loaded(u).left > 0 THEN redis[u] = Loaded(u) ELSE redis[u].left = 0
      BY <1>1, <1>2 DEF Follows
    <2>1. redis[u].left \in Nat
      BY <1>1, EntryType
    <2> QED BY <2>1, EntryType DEF Loaded
  <1> QED BY <1>1, <1>3 DEF RedisInv

LEMMA TickInv ==
  ASSUME TypeOK, RedisInv, Tick
  PROVE  RedisInv'
  <1>1. /\ map \in [Utxos -> Entries] /\ redis \in [Utxos -> Entries] /\ pipe \in Seq(Commands)
        /\ up' = up /\ lost' = lost /\ map' = AgedKeys(map)
        /\ redis' = AgedKeys(redis) /\ pipe' = AgedCommands(pipe)
    BY DEF TypeOK, Tick, AgedKeys, AgedCommands
  <1>2. Len(pipe') = Len(pipe) /\ pipe' \in Seq(Commands) /\ Len(pipe) \in 0..Len(pipe)
    BY <1>1, AgedTypes
  <1>3. ASSUME NEW k \in 0..Len(pipe), NEW u \in Utxos
        PROVE  /\ Stored(redis, pipe, k)[u] \in Entries
               /\ Stored(redis', pipe', k)[u] = Older(Stored(redis, pipe, k)[u])
    <2>1. Stored(redis, pipe, k) \in [Utxos -> Entries]
      BY <1>1, StoredType
    <2> QED BY <1>1, <2>1, StoredAged
  <1>4. ~up' => pipe' = <<>> /\ \A u \in Utxos : map'[u] = Free
    <2> SUFFICES ASSUME ~up PROVE pipe' = <<>> /\ \A u \in Utxos : map'[u] = Free
      BY <1>1
    <2>1. pipe = <<>> /\ \A u \in Utxos : map[u] = Free
      BY DEF RedisInv
    <2>2. Older(Free) = Free
      BY DEF Older, Less, Free
    <2> QED BY <1>1, <1>2, <2>1, <2>2 DEF AgedKeys
  <1>5. ASSUME up PROVE Follows(map', redis', pipe', lost')
    <2> SUFFICES ASSUME NEW u \in Utxos \ lost
                 PROVE  LET stored == Stored(redis', pipe', Len(pipe))[u] IN
                        IF map'[u].left > 0 THEN stored = map'[u] ELSE stored.left = 0
      BY <1>1, <1>2 DEF Follows
    <2> DEFINE now == Stored(redis, pipe, Len(pipe))[u]
               then == Stored(redis', pipe', Len(pipe))[u]
    <2>1. IF map[u].left > 0 THEN now = map[u] ELSE now.left = 0
      BY <1>5 DEF RedisInv, Follows
    <2>2. now \in Entries /\ then = Older(now) /\ map[u] \in Entries /\ map'[u] = Older(map[u])
      BY <1>1, <1>2, <1>3 DEF AgedKeys
    <2> HIDE DEF now, then
    <2>3. /\ now.left \in Nat /\ then.left = Less(now.left)
          /\ map[u].left \in Nat /\ map'[u].left = Less(map[u].left)
      BY <2>2, EntryType
    <2>4. IF map'[u].left > 0 THEN then = map'[u] ELSE then.left = 0
      BY <2>1, <2>2, <2>3 DEF Less
    <2> QED BY <2>4 DEF then
  <1>6. ASSUME Capped(redis, pipe) PROVE Capped(redis', pipe')
    <2> SUFFICES ASSUME NEW k \in 0..Len(pipe)
                 PROVE  Cardinality(Live(redis', pipe', k)) <= MaxConcurrent
      BY <1>2 DEF Capped
    <2>1. ASSUME NEW u \in Utxos, Unexpired(Stored(redis', pipe', k)[u])
          PROVE  Unexpired(Stored(redis, pipe, k)[u])
      <3> DEFINE now == Stored(redis, pipe, k)[u]
      <3>1. now \in Entries /\ Unexpired(Older(now))
        BY <1>3, <2>1
      <3> HIDE DEF now
      <3>2. Unexpired(now)
        BY <3>1, EntryType DEF Unexpired, Less
      <3> QED BY <3>2 DEF now
    <2>2. Live(redis', pipe', k) \subseteq Live(redis, pipe, k)
      BY <2>1 DEF Live
    <2>3. Cardinality(Live(redis, pipe, k)) <= MaxConcurrent
      BY <1>6 DEF Capped
    <2> QED BY <2>2, <2>3, NoMoreLive
  <1> QED BY <1>1, <1>4, <1>5, <1>6 DEF RedisInv

LEMMA RedisNext ==
  ASSUME TypeOK, RedisInv, [Next]_vars
  PROVE  RedisInv'
  <1>1. ASSUME NEW r \in Requests, NEW u \in Utxos, Release(r, u)
        PROVE  RedisInv'
    <2>1. <<DelCommand(u)>> \in Seq(Commands) /\ {u} \in SUBSET Utxos
      BY CommandTypes
    <2>2. Deletes(<<DelCommand(u)>>, {u})
      <3>1. DOMAIN <<DelCommand(u)>> = {1} /\ <<DelCommand(u)>>[1] = DelCommand(u)
        OBVIOUS
      <3> QED BY <3>1 DEF Deletes
    <2> QED BY <1>1, <2>1, <2>2, DropInv DEF Release
  <1>2. ASSUME NEW r \in Requests, ReleaseAll(r)
        PROVE  RedisInv'
    <2> DEFINE own == {u \in Utxos : map[u].holder = r}
    <2>1. /\ up /\ up' = up /\ lost' = lost /\ redis' = redis
          /\ map' = Without(own) /\ Send(Deletions(own)) /\ own \in SUBSET Utxos
      BY <1>2 DEF ReleaseAll
    <2> HIDE DEF own
    <2> QED BY <2>1, DeletionsType, DeletionsDelete, DropInv
  <1>3. CASE CleanExpired
    <2>1. Expired \in SUBSET Utxos
      BY DEF Expired, Reserved
    <2> QED BY <1>3, <2>1, DeletionsType, DeletionsDelete, DropInv DEF CleanExpired
  <1>4. CASE UNCHANGED vars
    <2>1. UNCHANGED <<up, map, pipe, redis, lost>>
      BY <1>4 DEF vars
    <2> QED BY <2>1 DEF RedisInv
  <1> QED
    BY <1>1, <1>2, <1>3, <1>4, ReserveInv, DeliverInv, LoseInv, CrashInv, LoadFromRedisInv, TickInv
    DEF Next

LEMMA RedisInvHolds == Spec => []RedisInv
  <1>1. Init => RedisInv
    <2> SUFFICES ASSUME Init PROVE RedisInv
      OBVIOUS
    <2>1. /\ up /\ pipe = <<>> /\ map = redis /\ redis \in [Utxos -> Entries]
          /\ \A u \in Utxos : redis[u] = Free
      BY EntryType DEF Init
    <2>2. <<>> \in Seq(Commands) /\ Len(<<>>) = 0
      OBVIOUS
    <2>3. Stored(redis, pipe, 0) = redis /\ Len(pipe) = 0
      BY <2>1, <2>2, StoredSteps
    <2>4. Follows(map, redis, pipe, lost)
      BY <2>1, <2>3, EntryType DEF Follows
    <2>5. Capped(redis, pipe)
      <3>1. Live(redis, pipe, 0) = {}
        BY <2>1, <2>3, EntryType DEF Live, Unexpired
      <3>2. Cardinality(Live(redis, pipe, 0)) = 0
        BY <3>1, FS_EmptySet
      <3>3. \A k \in 0..Len(pipe) : k = 0
        BY <2>3
      <3>4. 0 <= MaxConcurrent
        BY ReservationAssumption
      <3> QED BY <3>2, <3>3, <3>4 DEF Capped
    <2> QED BY <2>1, <2>4, <2>5 DEF RedisInv
  <1>2. TypeOK /\ RedisInv /\ [Next]_vars => RedisInv'
    BY RedisNext
  <1> QED BY <1>1, <1>2, TypeCorrect, PTL DEF Spec

LEMMA DrainedIsStored ==
  ASSUME TypeOK
  PROVE  Drained = Stored(redis, pipe, Len(pipe))
  <1>1. redis \in [Utxos -> Entries] /\ pipe \in Seq(Commands) /\ DOMAIN pipe = 1..Len(pipe)
    BY DEF TypeOK
  <1>2. FoldLeft(LAMBDA k, c : Execute(c, k), redis, pipe) = Result(redis, pipe, DOMAIN pipe)
    BY <1>1, FoldIs
  <1> QED BY <1>1, <1>2 DEF Drained, Stored

\* Redis is always on the way to the Map (reserve:76-80, release:94-98,
\* cleanExpired:195-199, loadFromRedis:153-183), through crashes, restarts,
\* releases by anyone and failing commands, which spoil only the UTXOs they are
\* about, and for any number of commands on the way.
THEOREM RedisFollows == Spec => []RedisFollowsMap
  <1>1. TypeOK /\ RedisInv => RedisFollowsMap
    BY DrainedIsStored DEF RedisInv, Follows, RedisFollowsMap
  <1> QED BY <1>1, TypeCorrect, RedisInvHolds, PTL

\* The cap holds for the Map at every moment, after a restart too, although
\* loadFromRedis does not look at it: a crash leaves in Redis what a part of
\* the commands did, and no such part exceeds the cap.
THEOREM CapIsKept == Spec => []CapKept
  <1>1. TypeOK /\ RedisInv => CapKept
    <2> SUFFICES ASSUME TypeOK, RedisInv, lost = {}
                 PROVE  Cardinality(Reserved \ Expired) <= MaxConcurrent
      BY DEF CapKept
    <2>1. map \in [Utxos -> Entries] /\ pipe \in Seq(Commands)
      BY DEF TypeOK
    <2>2. CASE up
      <3>1. Live(redis, pipe, Len(pipe)) = {u \in Utxos : Unexpired(map[u])}
        BY <2>1, <2>2, LiveIsMap DEF RedisInv
      <3>2. \A u \in Utxos : map[u].left \in Nat
        BY <2>1, EntryType
      <3>3. Reserved \ Expired = {u \in Utxos : Unexpired(map[u])}
        BY <3>2 DEF Reserved, Expired, Unexpired
      <3>4. Len(pipe) \in 0..Len(pipe)
        BY <2>1
      <3>5. Cardinality(Live(redis, pipe, Len(pipe))) <= MaxConcurrent
        BY <3>4 DEF RedisInv, Capped
      <3> QED BY <3>1, <3>3, <3>5
    <2>3. CASE ~up
      <3>1. Reserved \ Expired = {}
        BY <2>3 DEF RedisInv, Reserved, Free
      <3>2. Cardinality(Reserved \ Expired) = 0
        BY <3>1, FS_EmptySet
      <3> QED BY <3>2, ReservationAssumption
    <2> QED BY <2>2, <2>3
  <1> QED BY <1>1, TypeCorrect, RedisInvHolds, PTL

=============================================================================
