--------------------------- MODULE UtxoCacheProofs ---------------------------
(***************************************************************************)
(* How many, how old and how stale the lists of the UTXO cache can be: for *)
(* any number of addresses and concurrent queries, every size of the Map,  *)
(* every time to live, with failures of Redis and restarts.                *)
(***************************************************************************)
EXTENDS UtxoCache, SequenceTheorems, TLAPS

(* The order of the Map, without an address and with it at the back.        *)
LEMMA RemoveFirstOrder ==
  ASSUME NEW s \in Seq(Addresses), IsInjective(s), NEW a \in Addresses
  PROVE  LET t == RemoveFirst(s, a) IN
         /\ t \in Seq(Addresses) /\ IsInjective(t) /\ Len(t) <= Len(s)
         /\ \A i \in 1 .. Len(t) : t[i] # a
  <1>1. CASE ~\E i \in 1 .. Len(s) : s[i] = a
    BY <1>1 DEF RemoveFirst
  <1>2. CASE \E i \in 1 .. Len(s) : s[i] = a
    <2>1. PICK n \in 1 .. Len(s) : s[n] = a
      BY <1>2
    <2>2. \A i \in 1 .. Len(s) : s[i] = a => i = n
      BY <2>1 DEF IsInjective
    <2>3. {i \in 1 .. Len(s) : s[i] = a} = {n}
      BY <2>1, <2>2
    <2>4. RemoveFirst(s, a) = RemoveAt(s, n)
      BY <1>2, <2>3 DEF RemoveFirst, SelectInSeq, Min
    <2> DEFINE front == SubSeq(s, 1, n - 1)
               rear == SubSeq(s, n + 1, Len(s))
               t == front \o rear
    <2>5. /\ t \in Seq(Addresses) /\ Len(t) = Len(s) - 1
          /\ \A i \in 1 .. Len(t) : t[i] = IF i < n THEN s[i] ELSE s[i + 1]
      <3>1. n \in 1 .. Len(s) /\ Len(s) \in Nat /\ \A i \in 1 .. Len(s) : s[i] \in Addresses
        BY <2>1
      <3>2. /\ front \in Seq(Addresses) /\ Len(front) = n - 1
            /\ \A i \in 1 .. n - 1 : front[i] = s[i]
        BY <3>1, SubSeqProperties
      <3>3. /\ rear \in Seq(Addresses) /\ Len(rear) = Len(s) - n
            /\ \A i \in 1 .. Len(s) - n : rear[i] = s[n + i]
        <4>1. /\ rear \in Seq(Addresses)
              /\ Len(rear) = IF n + 1 <= Len(s) THEN Len(s) - (n + 1) + 1 ELSE 0
              /\ \A i \in 1 .. Len(s) - (n + 1) + 1 : rear[i] = s[n + 1 + i - 1]
          BY <3>1, SubSeqProperties
        <4> QED BY <3>1, <4>1
      <3> HIDE DEF front, rear
      <3>4. /\ t \in Seq(Addresses) /\ Len(t) = Len(front) + Len(rear)
            /\ \A i \in 1 .. Len(front) + Len(rear) :
                 t[i] = IF i <= Len(front) THEN front[i] ELSE rear[i - Len(front)]
        BY <3>2, <3>3, ConcatProperties
      <3> HIDE DEF t
      <3>5. Len(t) = Len(s) - 1
        BY <3>1, <3>2, <3>3, <3>4
      <3>6. ASSUME NEW i \in 1 .. Len(t) PROVE t[i] = IF i < n THEN s[i] ELSE s[i + 1]
        <4>1. CASE i < n
          BY <3>1, <3>2, <3>3, <3>4, <4>1
        <4>2. CASE i >= n
          <5>1. i - (n - 1) \in 1 .. Len(s) - n /\ i \notin 1 .. Len(front)
            BY <3>1, <3>2, <3>5, <4>2
          <5>2. t[i] = rear[i - (n - 1)]
            BY <3>1, <3>2, <3>3, <3>4, <3>5, <4>2
          <5> QED BY <3>1, <3>3, <4>2, <5>1, <5>2
        <4> QED BY <3>1, <4>1, <4>2
      <3> QED BY <3>4, <3>5, <3>6
    <2> HIDE DEF t
    <2>6. IsInjective(t)
      <3> SUFFICES ASSUME NEW i \in 1 .. Len(t), NEW j \in 1 .. Len(t), t[i] = t[j]
                   PROVE  i = j
        BY <2>5 DEF IsInjective
      <3>1. Len(s) \in Nat /\ \A x, y \in 1 .. Len(s) : s[x] = s[y] => x = y
        BY DEF IsInjective
      <3> QED BY <2>1, <2>5, <3>1
    <2>7. \A i \in 1 .. Len(t) : t[i] # a
      BY <2>1, <2>2, <2>5
    <2>8. RemoveAt(s, n) = t
      BY DEF RemoveAt, t
    <2> QED BY <2>4, <2>5, <2>6, <2>7, <2>8
  <1> QED BY <1>1, <1>2

LEMMA ToBackOrder ==
  ASSUME NEW s \in Seq(Addresses), IsInjective(s), NEW a \in Addresses
  PROVE  LET t == ToBack(s, a) IN
         /\ t \in Seq(Addresses) /\ IsInjective(t)
         /\ Len(t) \in 1 .. (Len(s) + 1)
         /\ Tail(t) \in Seq(Addresses) /\ IsInjective(Tail(t)) /\ Len(Tail(t)) <= Len(s)
         /\ Head(t) \in Addresses
  <1> DEFINE w == RemoveFirst(s, a)
             t == ToBack(s, a)
  <1>1. /\ w \in Seq(Addresses) /\ IsInjective(w) /\ Len(w) <= Len(s)
        /\ \A i \in 1 .. Len(w) : w[i] # a
    BY RemoveFirstOrder
  <1>2. t = Append(w, a)
    BY DEF ToBack
  <1> HIDE DEF w, t
  <1>3. /\ t \in Seq(Addresses) /\ Len(t) = Len(w) + 1 /\ t[Len(w) + 1] = a
        /\ \A i \in 1 .. Len(w) : t[i] = w[i]
    BY <1>1, <1>2
  <1>4. IsInjective(t)
    BY <1>1, <1>3 DEF IsInjective
  <1>5. /\ Tail(t) \in Seq(Addresses) /\ Len(Tail(t)) = Len(t) - 1
        /\ \A i \in 1 .. Len(Tail(t)) : Tail(t)[i] = t[i + 1]
        /\ Head(t) \in Addresses
    BY <1>3
  <1>6. IsInjective(Tail(t))
    BY <1>3, <1>4, <1>5 DEF IsInjective
  <1> QED BY <1>1, <1>3, <1>4, <1>5, <1>6 DEF t

----------------------------------------------------------------------------
\* Who sent a command and waits for its reply: q waits at "get" or at "set".
Awaits(c, q) == c.op \in {"get", "set"} /\ c.q = q
Deletes(c, a) == c.op = "del" /\ c.a = a

\* The query of a command waits for it, and for no other.
Waits ==
  \A i \in 1 .. Len(pipe) : pipe[i].op \in {"get", "set"} =>
    /\ pc[pipe[i].q] = pipe[i].op
    /\ \A j \in 1 .. Len(pipe) : Awaits(pipe[j], pipe[i].q) => j = i

\* A list in Redis has been there since Blockfrost answered; a list in the Map
\* may come from Redis at the end of its time there.
Ages ==
  /\ \A q \in Queries : data[q].age < Ttl /\ (pc[q] # "hit" => data[q].age = 0)
  /\ \A a \in Addresses : l2[a].left > 0 => l2[a].list.age + l2[a].left <= Ttl
  /\ \A a \in Addresses : l1[a].left > 0 => l1[a].list.age + l1[a].left < 2 * Ttl
  /\ StaleAtMostTwice

\* Of an address nobody has spoilt, every list that can still be found is of
\* the last invalidation, and so is who asks: a list in Redis that is not has
\* its DEL in front of every command for the address.
Current(a) ==
  /\ l1[a].left > 0 => l1[a].list.gen = gen[a]
  /\ \/ l2[a].left > 0 => l2[a].list.gen = gen[a]
     \/ \E i \in 1 .. Len(pipe) : Deletes(pipe[i], a)
  /\ \A i \in 1 .. Len(pipe) : Deletes(pipe[i], a) =>
       \A j \in 1 .. (i - 1) : pipe[j].op \in {"get", "set"} => addr[pipe[j].q] # a

Currently(q) ==
  /\ pc[q] # "idle" => since[q] = gen[addr[q]]
  /\ pc[q] \in {"hit", "fetched", "set"} => data[q].gen = gen[addr[q]]
  /\ pc[q] = "idle" /\ answer[q].kind = "utxos" => answer[q].list.gen >= since[q]

Gens == /\ \A a \in Addresses : a \notin spoilt => Current(a)
        /\ \A q \in Queries : addr[q] \notin spoilt => Currently(q)

IInv == TypeOK /\ L1Bounded /\ Waits /\ Ages /\ Gens

LEMMA Types ==
  /\ Ttl \in Nat \ {0} /\ MaxL1Entries \in Nat \ {0} /\ MaxInvalidations \in Nat
  /\ MaxAge \in Nat /\ MaxAge = 2 * Ttl
  /\ NoList \in Lists /\ Empty \in Slots /\ NoAnswer \in Answers
  /\ \A list \in Lists : list.age \in Nat /\ list.gen \in Nat
  /\ \A list \in Lists : [list |-> list, left |-> Ttl] \in Slots
  /\ \A slot \in Slots : slot.list \in Lists /\ slot.left \in 0 .. Ttl
  BY CacheAssumption DEF MaxAge, NoList, Lists, Empty, Slots, NoAnswer, Answers

LEMMA InitOK == Init => IInv
  <1> SUFFICES ASSUME Init PROVE IInv
    OBVIOUS
  <1>1. TypeOK
    BY Types DEF Init, TypeOK, IsInjective
  <1>2. L1Bounded /\ Waits
    BY Types DEF Init, L1Bounded, Waits
  <1>3. Ages
    BY Types DEF Init, Ages, NoList, NoAnswer, Empty, StaleAtMostTwice
  <1>4. Gens
    BY Types DEF Init, Gens, Current, Currently, NoAnswer, Empty
  <1> QED BY <1>1, <1>2, <1>3, <1>4 DEF IInv

----------------------------------------------------------------------------
(* The Map.                                                                 *)
LEMMA L1SetOK ==
  ASSUME TypeOK, L1Bounded, NEW a \in Addresses, NEW list \in Lists, L1Set(a, list)
  PROVE  /\ l1' \in [Addresses -> Slots] /\ order' \in Seq(Addresses) /\ IsInjective(order')
         /\ L1Bounded'
         /\ \A b \in Addresses : \/ l1'[b] = Empty
                                 \/ l1'[b] = l1[b]
                                 \/ b = a /\ l1'[b] = [list |-> list, left |-> Ttl]
  <1> DEFINE written == ToBack(order, a)
             filled == [l1 EXCEPT ![a] = [list |-> list, left |-> Ttl]]
  <1>1. /\ written \in Seq(Addresses) /\ IsInjective(written)
        /\ Len(written) \in 1 .. (Len(order) + 1)
        /\ Tail(written) \in Seq(Addresses) /\ IsInjective(Tail(written))
        /\ Len(Tail(written)) <= Len(order) /\ Head(written) \in Addresses
    BY ToBackOrder DEF TypeOK
  <1>2. filled \in [Addresses -> Slots] /\ Empty \in Slots
    BY Types DEF TypeOK
  <1> HIDE DEF written
  <1>3. \/ Len(written) <= MaxL1Entries /\ l1' = filled /\ order' = written
        \/ l1' = [filled EXCEPT ![Head(written)] = Empty] /\ order' = Tail(written)
    BY DEF L1Set, written
  <1>4. L1Bounded'
    BY <1>1, <1>3, Types DEF TypeOK, L1Bounded
  <1>5. /\ l1' \in [Addresses -> Slots]
        /\ \A b \in Addresses : l1'[b] = Empty \/ l1'[b] = filled[b]
    BY <1>1, <1>2, <1>3
  <1>6. \A b \in Addresses : filled[b] = IF b = a THEN [list |-> list, left |-> Ttl] ELSE l1[b]
    BY DEF TypeOK
  <1> QED BY <1>1, <1>3, <1>4, <1>5, <1>6

LEMMA L1DeleteOK ==
  ASSUME TypeOK, L1Bounded, NEW a \in Addresses, L1Delete(a)
  PROVE  /\ l1' \in [Addresses -> Slots] /\ order' \in Seq(Addresses) /\ IsInjective(order')
         /\ L1Bounded'
         /\ l1'[a] = Empty /\ \A b \in Addresses \ {a} : l1'[b] = l1[b]
  <1>1. /\ order' \in Seq(Addresses) /\ IsInjective(order') /\ Len(order') <= Len(order)
    BY RemoveFirstOrder DEF L1Delete, TypeOK
  <1>2. L1Bounded'
    BY <1>1, Types DEF L1Bounded, TypeOK
  <1> QED BY <1>1, <1>2, Types DEF L1Delete, TypeOK

(* The pipe.                                                                *)
LEMMA AppendCommand ==
  ASSUME TypeOK, NEW c \in Commands, Send(c)
  PROVE  /\ pipe' \in Seq(Commands) /\ Len(pipe') = Len(pipe) + 1
         /\ pipe'[Len(pipe) + 1] = c /\ \A i \in 1 .. Len(pipe) : pipe'[i] = pipe[i]
         /\ Len(pipe) \in Nat
  BY DEF Send, TypeOK

LEMMA PopCommand ==
  ASSUME TypeOK, pipe # <<>>, pipe' = Tail(pipe)
  PROVE  /\ pipe' \in Seq(Commands) /\ Len(pipe) \in Nat \ {0} /\ Len(pipe') = Len(pipe) - 1
         /\ Head(pipe) = pipe[1] /\ Head(pipe) \in Commands
         /\ \A i \in 1 .. Len(pipe') : pipe'[i] = pipe[i + 1]
  BY DEF TypeOK

LEMMA CommandTypes ==
  ASSUME NEW c \in Commands
  PROVE  /\ c.op \in {"get", "set", "del"}
         /\ c.op \in {"get", "set"} => c.q \in Queries
         /\ c.op = "del" => c.a \in Addresses /\ c = [op |-> "del", a |-> c.a]
  BY DEF Commands

----------------------------------------------------------------------------
\* A slot of the Map that is written is current when its list is.
LEMMA StartOK ==
  ASSUME IInv, NEW q \in Queries, NEW a \in Addresses, Start(q, a)
  PROVE  IInv'
  <1> USE DEF IInv, GoTo, layer1
  <1>1. /\ pc[q] = "idle" /\ addr' = [addr EXCEPT ![q] = a] /\ since' = [since EXCEPT ![q] = gen[a]]
        /\ UNCHANGED <<l2, gen, spoilt>>
    BY DEF Start
  <1>2. CASE l1[a].left > 0 /\ Return(q, "utxos", l1[a].list) /\ UNCHANGED <<layer1, pipe>>
    <2>1. /\ UNCHANGED <<l1, order, pipe>> /\ pc' = [pc EXCEPT ![q] = "idle"]
          /\ data' = [data EXCEPT ![q] = NoList]
          /\ answer' = [answer EXCEPT ![q] = [kind |-> "utxos", list |-> l1[a].list]]
      BY <1>2 DEF Return
    <2>2. [kind |-> "utxos", list |-> l1[a].list] \in Answers /\ l1[a].list \in Lists
      BY Types DEF Answers, TypeOK
    <2>3. TypeOK' /\ L1Bounded'
      BY <1>1, <2>1, <2>2, Types DEF TypeOK, L1Bounded
    <2>4. Waits'
      BY <2>1, <1>1 DEF Waits, TypeOK
    <2>5. l1[a].list.age < 2 * Ttl
      BY <1>2, <2>2, Types DEF Ages, TypeOK
    <2>6. Ages'
      <3>1. StaleAtMostTwice'
        BY <2>1, <2>5 DEF Ages, TypeOK, StaleAtMostTwice
      <3> QED BY <1>1, <2>1, <3>1, Types DEF Ages, TypeOK, NoList
    <2>7. ASSUME NEW b \in Addresses, b \notin spoilt PROVE Current(b)'
      <3>1. Current(b)
        BY <2>7 DEF Gens
      <3>2. \A i \in 1 .. Len(pipe) : pipe[i].op \in {"get", "set"} =>
              pipe[i].q \in Queries \ {q}
        BY <1>1, CommandTypes DEF Waits, TypeOK
      <3>3. Len(pipe) \in Nat
        BY DEF TypeOK
      <3>4. \A j \in 1 .. Len(pipe) : pipe[j].op \in {"get", "set"} => addr'[pipe[j].q] = addr[pipe[j].q]
        BY <1>1, <3>2 DEF TypeOK
      <3> QED BY <1>1, <2>1, <3>1, <3>3, <3>4 DEF Current, Deletes
    <2>8. ASSUME NEW p \in Queries, addr'[p] \notin spoilt PROVE Currently(p)'
      <3>1. CASE p = q
        <4>1. /\ pc'[q] = "idle" /\ since'[q] = gen[a] /\ addr'[q] = a
              /\ answer'[q].list = l1[a].list
          BY <1>1, <2>1 DEF TypeOK
        <4>2. l1[a].list.gen = gen[a] /\ gen[a] \in Nat
          BY <1>2, <2>8, <3>1, <4>1, Types DEF Gens, Current, TypeOK
        <4> QED BY <3>1, <4>1, <4>2 DEF Currently
      <3>2. CASE p # q
        BY <1>1, <2>1, <2>8, <3>2 DEF Gens, Currently, TypeOK
      <3> QED BY <3>1, <3>2
    <2>9. Gens'
      BY <1>1, <2>7, <2>8 DEF Gens
    <2> QED BY <2>3, <2>4, <2>6, <2>9
  <1>3. CASE /\ L1Delete(a) /\ Send([op |-> "get", q |-> q]) /\ pc' = [pc EXCEPT ![q] = "get"]
             /\ UNCHANGED <<answer, data>>
    <2> DEFINE c == [op |-> "get", q |-> q]
    <2>0. c \in Commands
      BY DEF Commands
    <2>1. /\ pipe' \in Seq(Commands) /\ Len(pipe') = Len(pipe) + 1 /\ pipe'[Len(pipe) + 1] = c
          /\ \A i \in 1 .. Len(pipe) : pipe'[i] = pipe[i]
          /\ Len(pipe) \in Nat
      BY <1>3, <2>0, AppendCommand
    <2>2. /\ l1' \in [Addresses -> Slots] /\ order' \in Seq(Addresses) /\ IsInjective(order')
          /\ L1Bounded' /\ \A b \in Addresses : l1'[b] = Empty \/ l1'[b] = l1[b]
      BY <1>3, L1DeleteOK
    <2>3. TypeOK'
      BY <1>1, <1>3, <2>1, <2>2 DEF TypeOK
    <2>4. \A i \in 1 .. Len(pipe) : pipe[i].op \in {"get", "set"} => pipe[i].q \in Queries \ {q}
      BY <1>1, CommandTypes DEF Waits, TypeOK
    <2>5. Waits'
      <3> SUFFICES ASSUME NEW i \in 1 .. Len(pipe'), pipe'[i].op \in {"get", "set"}
                   PROVE  /\ pc'[pipe'[i].q] = pipe'[i].op
                          /\ \A j \in 1 .. Len(pipe') : Awaits(pipe'[j], pipe'[i].q) => j = i
        BY DEF Waits
      <3>1. CASE i = Len(pipe) + 1
        <4>1. pipe'[i].q = q /\ pipe'[i].op = "get" /\ pc'[q] = "get"
          BY <1>3, <2>1, <3>1 DEF TypeOK
        <4>2. \A j \in 1 .. Len(pipe) : ~Awaits(pipe'[j], q)
          BY <2>1, <2>4 DEF Awaits
        <4> QED BY <2>1, <3>1, <4>1, <4>2
      <3>2. CASE i \in 1 .. Len(pipe)
        <4>1. /\ pipe'[i].q \in Queries \ {q} /\ pc[pipe[i].q] = pipe[i].op
              /\ \A j \in 1 .. Len(pipe) : Awaits(pipe[j], pipe[i].q) => j = i
          BY <2>1, <2>4, <3>2 DEF Waits
        <4>2. pc'[pipe[i].q] = pc[pipe[i].q]
          BY <1>3, <2>1, <3>2, <4>1 DEF TypeOK
        <4>3. ASSUME NEW j \in 1 .. Len(pipe'), Awaits(pipe'[j], pipe'[i].q) PROVE j = i
          <5>1. j # Len(pipe) + 1
            BY <1>3, <2>1, <4>1, <4>3 DEF Awaits
          <5> QED BY <2>1, <3>2, <4>1, <4>3, <5>1
        <4> QED BY <2>1, <3>2, <4>1, <4>2, <4>3
      <3> QED BY <2>1, <3>1, <3>2
    <2>6. Ages'
      <3>1. StaleAtMostTwice'
        BY <1>3 DEF Ages, StaleAtMostTwice
      <3>2. \A p \in Queries : data'[p].age < Ttl /\ (pc'[p] # "hit" => data'[p].age = 0)
        BY <1>1, <1>3 DEF Ages, TypeOK
      <3>3. \A b \in Addresses : l1'[b].left > 0 => l1'[b].list.age + l1'[b].left < 2 * Ttl
        BY <2>2 DEF Ages, Empty
      <3> QED BY <1>1, <3>1, <3>2, <3>3 DEF Ages
    <2>7. ASSUME NEW b \in Addresses, b \notin spoilt PROVE Current(b)'
      <3>1. Current(b)
        BY <2>7 DEF Gens
      <3>2. l1'[b].left > 0 => l1'[b].list.gen = gen[b]
        BY <2>2, <3>1 DEF Current, Empty
      <3>3. \A j \in 1 .. Len(pipe) : pipe[j].op \in {"get", "set"} => addr'[pipe[j].q] = addr[pipe[j].q]
        BY <1>1, <2>4 DEF TypeOK
      <3> QED BY <1>1, <2>1, <3>1, <3>2, <3>3 DEF Current, Deletes
    <2>8. ASSUME NEW p \in Queries, addr'[p] \notin spoilt PROVE Currently(p)'
      BY <1>1, <1>3, <2>8 DEF Gens, Currently, TypeOK
    <2>9. Gens'
      BY <1>1, <2>7, <2>8 DEF Gens
    <2> QED BY <2>2, <2>3, <2>5, <2>6, <2>9
  <1> QED BY <1>2, <1>3 DEF Start

\* Steps of one query that leave addresses, Redis and the pipe alone.
LEMMA QuietPipe ==
  ASSUME IInv, UNCHANGED <<addr, pipe, l2, gen, spoilt>>,
         NEW a \in Addresses, a \notin spoilt,
         l1'[a].left > 0 => l1'[a].list.gen = gen[a]
  PROVE  Current(a)'
  <1>1. Current(a)
    BY DEF IInv, Gens
  <1> QED BY <1>1 DEF Current, Deletes

LEMMA WarmL1OK ==
  ASSUME IInv, NEW q \in Queries, WarmL1(q)
  PROVE  IInv'
  <1> USE DEF IInv, GoTo
  <1>1. /\ pc[q] = "hit" /\ pc' = [pc EXCEPT ![q] = "idle"]
        /\ data' = [data EXCEPT ![q] = NoList]
        /\ answer' = [answer EXCEPT ![q] = [kind |-> "utxos", list |-> data[q]]]
        /\ UNCHANGED <<addr, since, l2, pipe, gen, spoilt>>
    BY DEF WarmL1, Return
  <1>2. /\ data[q] \in Lists /\ data[q].age < Ttl /\ data[q].age \in Nat /\ addr[q] \in Addresses
        /\ [kind |-> "utxos", list |-> data[q]] \in Answers
    BY Types DEF Ages, TypeOK, Answers
  <1>3. /\ l1' \in [Addresses -> Slots] /\ order' \in Seq(Addresses) /\ IsInjective(order')
        /\ L1Bounded'
        /\ \A b \in Addresses : \/ l1'[b] = Empty \/ l1'[b] = l1[b]
                                \/ b = addr[q] /\ l1'[b] = [list |-> data[q], left |-> Ttl]
    BY <1>2, L1SetOK DEF WarmL1
  <1>4. TypeOK'
    BY <1>1, <1>2, <1>3, Types DEF TypeOK
  <1>5. Waits'
    BY <1>1 DEF Waits, TypeOK
  <1>6. Ages'
    <2>1. StaleAtMostTwice'
      BY <1>1, <1>2, Types DEF Ages, TypeOK, StaleAtMostTwice
    <2>2. \A p \in Queries : data'[p].age < Ttl /\ (pc'[p] # "hit" => data'[p].age = 0)
      BY <1>1, Types DEF Ages, TypeOK, NoList
    <2>3. \A b \in Addresses : l1'[b].left > 0 => l1'[b].list.age + l1'[b].left < 2 * Ttl
      BY <1>2, <1>3, Types DEF Ages, Empty
    <2> QED BY <1>1, <2>1, <2>2, <2>3 DEF Ages
  <1>7. ASSUME NEW b \in Addresses, b \notin spoilt PROVE Current(b)'
    <2>1. l1'[b].left > 0 => l1'[b].list.gen = gen[b]
      BY <1>1, <1>3, <1>7 DEF Gens, Current, Currently, Empty
    <2> QED BY <1>1, <1>7, <2>1, QuietPipe
  <1>8. ASSUME NEW p \in Queries, addr'[p] \notin spoilt PROVE Currently(p)'
    <2>1. CASE p = q
      <3>1. data[q].gen = gen[addr[q]] /\ since[q] = gen[addr[q]] /\ gen[addr[q]] \in Nat
        BY <1>1, <1>2, <1>8, <2>1, Types DEF Gens, Currently, TypeOK
      <3> QED BY <1>1, <2>1, <3>1 DEF Currently, TypeOK
    <2>2. CASE p # q
      BY <1>1, <1>8, <2>2 DEF Gens, Currently, TypeOK
    <2> QED BY <2>1, <2>2
  <1> QED BY <1>1, <1>3, <1>4, <1>5, <1>6, <1>7, <1>8 DEF Gens

LEMMA BlockfrostOK ==
  ASSUME IInv, NEW q \in Queries, AskBlockfrost(q) \/ Blockfrost(q)
  PROVE  IInv'
  <1> USE DEF IInv, GoTo, layer1
  <1>1. /\ pc[q] \in {"miss", "fetch"} /\ pc' = [pc EXCEPT ![q] = pc'[q]]
        /\ \/ pc'[q] = "fetch" /\ UNCHANGED <<data, answer>>
           \/ pc'[q] = "fetched" /\ data' = [data EXCEPT ![q] = Fresh(addr[q])] /\ answer' = answer
           \/ pc'[q] = "idle" /\ data' = [data EXCEPT ![q] = NoList]
              /\ answer' = [answer EXCEPT ![q] = [kind |-> "error", list |-> NoList]]
        /\ UNCHANGED <<addr, since, l1, order, l2, pipe, gen, spoilt>>
    BY DEF AskBlockfrost, Blockfrost, Return, TypeOK
  <1>2. /\ addr[q] \in Addresses /\ Fresh(addr[q]) \in Lists
        /\ Fresh(addr[q]).age = 0 /\ Fresh(addr[q]).gen = gen[addr[q]]
        /\ [kind |-> "error", list |-> NoList] \in Answers
    BY Types DEF TypeOK, Fresh, Lists, Answers
  <1>u. data' \in [Queries -> Lists]
    BY <1>1, <1>2, Types DEF TypeOK
  <1>v. answer' \in [Queries -> Answers]
    BY <1>1, <1>2 DEF TypeOK
  <1>w. \A p \in Queries : answer'[p] = answer[p] \/ answer'[p].kind = "error"
    BY <1>1, <1>2 DEF TypeOK
  <1>x. /\ data' \in [Queries -> Lists] /\ answer' \in [Queries -> Answers]
        /\ \A p \in Queries : answer'[p] = answer[p] \/ answer'[p].kind = "error"
    BY <1>u, <1>v, <1>w
  <1>y. /\ pc' \in [Queries -> {"idle", "get", "hit", "miss", "fetch", "fetched", "set"}]
        /\ \A p \in Queries : pc[p] \in {"get", "set"} => pc'[p] = pc[p]
    BY <1>1 DEF TypeOK
  <1>3. TypeOK' /\ L1Bounded'
    BY <1>1, <1>x, <1>y DEF TypeOK, L1Bounded
  <1>4. Waits'
    <2>1. \A i \in 1 .. Len(pipe) : pipe[i].op \in {"get", "set"} => pipe[i].q \in Queries
      BY CommandTypes DEF TypeOK
    <2> QED BY <1>1, <1>y, <2>1 DEF Waits
  <1>5. Ages'
    <2>1. StaleAtMostTwice'
      BY <1>1, <1>x DEF Ages, StaleAtMostTwice
    <2>2. \A p \in Queries : data'[p].age < Ttl /\ (pc'[p] # "hit" => data'[p].age = 0)
      BY <1>1, <1>2, Types DEF Ages, TypeOK, NoList
    <2> QED BY <1>1, <2>1, <2>2 DEF Ages
  <1>6. ASSUME NEW b \in Addresses, b \notin spoilt PROVE Current(b)'
    BY <1>1, <1>6, QuietPipe DEF Gens, Current
  <1>7. ASSUME NEW p \in Queries, addr'[p] \notin spoilt PROVE Currently(p)'
    BY <1>1, <1>2, <1>7 DEF Gens, Currently, TypeOK
  <1> QED BY <1>1, <1>3, <1>4, <1>5, <1>6, <1>7 DEF Gens

LEMMA StoreOK ==
  ASSUME IInv, NEW q \in Queries, Store(q)
  PROVE  IInv'
  <1> USE DEF IInv, GoTo
  <1> DEFINE c == [op |-> "set", q |-> q]
  <1>1. /\ pc[q] = "fetched" /\ pc' = [pc EXCEPT ![q] = "set"]
        /\ UNCHANGED <<addr, since, data, answer, l2, gen, spoilt>>
    BY DEF Store
  <1>2. c \in Commands
    BY DEF Commands
  <1>3. /\ pipe' \in Seq(Commands) /\ Len(pipe') = Len(pipe) + 1 /\ pipe'[Len(pipe) + 1] = c
        /\ \A i \in 1 .. Len(pipe) : pipe'[i] = pipe[i]
        /\ Len(pipe) \in Nat
    BY <1>2, AppendCommand DEF Store
  <1>4. /\ data[q] \in Lists /\ data[q].age = 0 /\ addr[q] \in Addresses
    BY <1>1 DEF Ages, TypeOK
  <1>5. /\ l1' \in [Addresses -> Slots] /\ order' \in Seq(Addresses) /\ IsInjective(order')
        /\ L1Bounded'
        /\ \A b \in Addresses : \/ l1'[b] = Empty \/ l1'[b] = l1[b]
                                \/ b = addr[q] /\ l1'[b] = [list |-> data[q], left |-> Ttl]
    BY <1>4, L1SetOK DEF Store
  <1>6. TypeOK'
    BY <1>1, <1>3, <1>5 DEF TypeOK
  <1>7. \A i \in 1 .. Len(pipe) : pipe[i].op \in {"get", "set"} => pipe[i].q \in Queries \ {q}
    BY <1>1, CommandTypes DEF Waits, TypeOK
  <1>8. Waits'
    <2> SUFFICES ASSUME NEW i \in 1 .. Len(pipe'), pipe'[i].op \in {"get", "set"}
                 PROVE  /\ pc'[pipe'[i].q] = pipe'[i].op
                        /\ \A j \in 1 .. Len(pipe') : Awaits(pipe'[j], pipe'[i].q) => j = i
      BY DEF Waits
    <2>1. CASE i = Len(pipe) + 1
      <3>1. pipe'[i].q = q /\ pipe'[i].op = "set" /\ pc'[q] = "set"
        BY <1>1, <1>3, <2>1 DEF TypeOK
      <3>2. \A j \in 1 .. Len(pipe) : ~Awaits(pipe'[j], q)
        BY <1>3, <1>7 DEF Awaits
      <3> QED BY <1>3, <2>1, <3>1, <3>2
    <2>2. CASE i \in 1 .. Len(pipe)
      <3>1. /\ pipe'[i].q \in Queries \ {q} /\ pc[pipe[i].q] = pipe[i].op
            /\ \A j \in 1 .. Len(pipe) : Awaits(pipe[j], pipe[i].q) => j = i
        BY <1>3, <1>7, <2>2 DEF Waits
      <3>2. pc'[pipe[i].q] = pc[pipe[i].q]
        BY <1>1, <1>3, <2>2, <3>1 DEF TypeOK
      <3> QED BY SMTT(20), <1>3, <2>2, <3>1, <3>2 DEF Awaits
    <2> QED BY <1>3, <2>1, <2>2
  <1>9. Ages'
    <2>1. StaleAtMostTwice'
      BY <1>1 DEF Ages, StaleAtMostTwice
    <2>2. \A p \in Queries : data'[p].age < Ttl /\ (pc'[p] # "hit" => data'[p].age = 0)
      BY <1>1 DEF Ages, TypeOK
    <2>3. \A b \in Addresses : l1'[b].left > 0 => l1'[b].list.age + l1'[b].left < 2 * Ttl
      BY <1>4, <1>5, Types DEF Ages, Empty
    <2> QED BY <1>1, <2>1, <2>2, <2>3 DEF Ages
  <1>10. ASSUME NEW b \in Addresses, b \notin spoilt PROVE Current(b)'
    <2>1. Current(b)
      BY <1>10 DEF Gens
    <2>2. l1'[b].left > 0 => l1'[b].list.gen = gen[b]
      BY <1>1, <1>5, <1>10, <2>1 DEF Gens, Current, Currently, Empty
    <2> QED BY <1>1, <1>3, <2>1, <2>2 DEF Current, Deletes
  <1>11. ASSUME NEW p \in Queries, addr'[p] \notin spoilt PROVE Currently(p)'
    BY <1>1, <1>11 DEF Gens, Currently, TypeOK
  <1> QED BY <1>1, <1>5, <1>6, <1>8, <1>9, <1>10, <1>11 DEF Gens

----------------------------------------------------------------------------
LEMMA InvalidateOK ==
  ASSUME IInv, NEW a \in Addresses, Invalidate(a)
  PROVE  IInv'
  <1> USE DEF IInv
  <1> DEFINE c == [op |-> "del", a |-> a]
  <1>1. /\ gen[a] < MaxInvalidations /\ gen' = [gen EXCEPT ![a] = @ + 1]
        /\ spoilt' = IF UnderWay(a) THEN spoilt \cup {a} ELSE spoilt
        /\ UNCHANGED <<pc, addr, since, data, answer, l2>>
    BY DEF Invalidate
  <1>2. c \in Commands
    BY DEF Commands
  <1>3. /\ pipe' \in Seq(Commands) /\ Len(pipe') = Len(pipe) + 1 /\ pipe'[Len(pipe) + 1] = c
        /\ \A i \in 1 .. Len(pipe) : pipe'[i] = pipe[i]
        /\ Len(pipe) \in Nat
    BY <1>2, AppendCommand DEF Invalidate
  <1>4. /\ l1' \in [Addresses -> Slots] /\ order' \in Seq(Addresses) /\ IsInjective(order')
        /\ L1Bounded'
        /\ l1'[a] = Empty /\ \A b \in Addresses \ {a} : l1'[b] = l1[b]
    BY L1DeleteOK DEF Invalidate
  <1>5. gen' \in [Addresses -> 0 .. MaxInvalidations]
    <2>1. gen[a] + 1 \in 0 .. MaxInvalidations
      BY <1>1, Types DEF TypeOK
    <2> QED BY <1>1, <2>1 DEF TypeOK
  <1>6. TypeOK'
    BY <1>1, <1>3, <1>4, <1>5 DEF TypeOK
  <1>7. Waits'
    BY <1>1, <1>3 DEF Waits, Awaits
  <1>8. Ages'
    <2>1. StaleAtMostTwice'
      BY <1>1 DEF Ages, StaleAtMostTwice
    <2> QED BY <1>1, <1>4, <2>1 DEF Ages, Empty
  <1>9. ASSUME NEW b \in Addresses, b \notin spoilt' PROVE Current(b)'
    <2>1. Current(b)
      BY <1>1, <1>9 DEF Gens
    <2>2. CASE b # a
      <3>1. gen'[b] = gen[b] /\ l1'[b] = l1[b]
        BY <1>1, <1>4, <2>2 DEF TypeOK
      <3> QED BY SMTT(20), <1>1, <1>3, <2>1, <2>2, <3>1 DEF Current, Deletes
    <2>3. CASE b = a
      <3>1. \A q \in Queries : addr[q] = a => pc[q] = "idle"
        BY <1>1, <1>9, <2>3 DEF UnderWay
      <3>2. \A j \in 1 .. Len(pipe) : pipe[j].op \in {"get", "set"} => addr[pipe[j].q] # a
        BY <3>1, CommandTypes DEF Waits, TypeOK
      <3> QED BY SMTT(20), <1>1, <1>3, <1>4, <2>3, <3>2 DEF Current, Deletes, Empty
    <2> QED BY <2>2, <2>3
  <1>10. ASSUME NEW q \in Queries, addr'[q] \notin spoilt' PROVE Currently(q)'
    <2>1. Currently(q)
      BY <1>1, <1>10 DEF Gens
    <2>2. pc[q] # "idle" => addr[q] # a
      BY <1>1, <1>10 DEF UnderWay
    <2>3. pc[q] # "idle" => gen'[addr[q]] = gen[addr[q]]
      BY <1>1, <2>2 DEF TypeOK
    <2> QED BY <1>1, <2>1, <2>3 DEF Currently
  <1> QED BY <1>4, <1>6, <1>7, <1>8, <1>9, <1>10 DEF Gens

LEMMA InvalidateAllOK == ASSUME IInv, InvalidateAll PROVE IInv'
  <1> USE DEF IInv
  <1>1. /\ l1' = [a \in Addresses |-> Empty] /\ order' = <<>>
        /\ UNCHANGED <<pc, addr, since, data, answer, l2, pipe, gen, spoilt>>
    BY DEF InvalidateAll
  <1>2. TypeOK' /\ L1Bounded'
    BY <1>1, Types DEF TypeOK, L1Bounded, IsInjective
  <1>3. Waits'
    BY <1>1 DEF Waits
  <1>4. Ages'
    BY <1>1 DEF Ages, Empty, StaleAtMostTwice
  <1>5. ASSUME NEW b \in Addresses, b \notin spoilt PROVE Current(b)'
    BY <1>1, <1>5, QuietPipe DEF Empty
  <1>6. \A q \in Queries : Currently(q)' = Currently(q)
    BY <1>1 DEF Currently
  <1> QED BY <1>1, <1>2, <1>3, <1>4, <1>5, <1>6 DEF Gens

\* A restart spoils what it keeps Redis from hearing.
LEMMA RestartOK == ASSUME IInv, Restart PROVE IInv'
  <1> USE DEF IInv
  <1>1. /\ pc' = [q \in Queries |-> "idle"] /\ data' = [q \in Queries |-> NoList]
        /\ answer' = [q \in Queries |-> NoAnswer]
        /\ l1' = [a \in Addresses |-> Empty] /\ order' = <<>> /\ pipe' = <<>>
        /\ spoilt' = spoilt \cup {a \in Addresses : Contains(pipe, [op |-> "del", a |-> a])}
        /\ UNCHANGED <<addr, since, l2, gen>>
    BY DEF Restart
  <1>2. TypeOK' /\ L1Bounded'
    BY <1>1, Types DEF TypeOK, L1Bounded, IsInjective
  <1>3. Waits'
    BY <1>1 DEF Waits
  <1>4. Ages'
    BY <1>1, Types DEF Ages, Empty, NoList, NoAnswer, StaleAtMostTwice
  <1>5. ASSUME NEW b \in Addresses, b \notin spoilt' PROVE Current(b)'
    <2>1. Current(b) /\ ~Contains(pipe, [op |-> "del", a |-> b])
      BY <1>1, <1>5 DEF Gens
    <2>2. ~\E i \in 1 .. Len(pipe) : Deletes(pipe[i], b)
      BY <2>1, CommandTypes DEF Contains, Deletes, TypeOK
    <2> QED BY <1>1, <2>1, <2>2 DEF Current, Empty
  <1>6. \A q \in Queries : Currently(q)'
    BY <1>1 DEF Currently, NoAnswer
  <1> QED BY <1>2, <1>3, <1>4, <1>5, <1>6 DEF Gens

----------------------------------------------------------------------------
(* Redis executes, or fails, the command in front.                          *)
LEMMA PopWaits ==
  ASSUME IInv, pipe # <<>>, pipe' = Tail(pipe),
         \A p \in Queries : ~Awaits(Head(pipe), p) => pc'[p] = pc[p]
  PROVE  Waits'
  <1> USE DEF IInv
  <1> SUFFICES ASSUME NEW i \in 1 .. Len(pipe'), pipe'[i].op \in {"get", "set"}
               PROVE  /\ pc'[pipe'[i].q] = pipe'[i].op
                      /\ \A j \in 1 .. Len(pipe') : Awaits(pipe'[j], pipe'[i].q) => j = i
    BY DEF Waits
  <1>1. /\ Len(pipe) \in Nat \ {0} /\ Len(pipe') = Len(pipe) - 1 /\ Head(pipe) = pipe[1]
        /\ \A j \in 1 .. Len(pipe') : pipe'[j] = pipe[j + 1]
    BY PopCommand
  <1>2. i + 1 \in 1 .. Len(pipe) /\ pipe[i + 1] \in Commands /\ pipe[i + 1].op \in {"get", "set"}
    BY <1>1 DEF TypeOK
  <1>3. /\ pipe[i + 1].q \in Queries /\ pc[pipe[i + 1].q] = pipe[i + 1].op
        /\ \A j \in 1 .. Len(pipe) : Awaits(pipe[j], pipe[i + 1].q) => j = i + 1
    BY <1>2, CommandTypes DEF Waits
  <1>4. ~Awaits(Head(pipe), pipe[i + 1].q)
    BY <1>1, <1>3
  <1>5. \A j \in 1 .. Len(pipe') : Awaits(pipe'[j], pipe[i + 1].q) => j = i
    BY <1>1, <1>3
  <1> QED BY <1>1, <1>3, <1>4, <1>5

LEMMA PopCurrent ==
  ASSUME IInv, pipe # <<>>, pipe' = Tail(pipe), UNCHANGED <<addr, l1, gen>>,
         NEW b \in Addresses, b \notin spoilt,
         \/ l2'[b] = l2[b] /\ ~Deletes(Head(pipe), b)
         \/ l2'[b].left > 0 => l2'[b].list.gen = gen[b]
  PROVE  Current(b)'
  <1> USE DEF IInv
  <1>1. /\ Len(pipe) \in Nat \ {0} /\ Len(pipe') = Len(pipe) - 1 /\ Head(pipe) = pipe[1]
        /\ \A j \in 1 .. Len(pipe') : pipe'[j] = pipe[j + 1]
    BY PopCommand
  <1>2. Current(b)
    BY DEF Gens
  <1>3. \A i \in 1 .. Len(pipe') : Deletes(pipe'[i], b) =>
          \A j \in 1 .. (i - 1) : pipe'[j].op \in {"get", "set"} => addr'[pipe'[j].q] # b
    <2> SUFFICES ASSUME NEW i \in 1 .. Len(pipe'), Deletes(pipe'[i], b),
                        NEW j \in 1 .. (i - 1), pipe'[j].op \in {"get", "set"}
                 PROVE  addr[pipe'[j].q] # b
      OBVIOUS
    <2>1. i + 1 \in 1 .. Len(pipe) /\ j + 1 \in 1 .. ((i + 1) - 1) /\ j \in 1 .. Len(pipe')
      BY <1>1
    <2>2. Deletes(pipe[i + 1], b) /\ pipe'[j] = pipe[j + 1]
      BY <1>1, <2>1
    <2> QED BY <1>2, <2>1, <2>2 DEF Current
  <1>4. \/ l2'[b].left > 0 => l2'[b].list.gen = gen[b]
        \/ \E i \in 1 .. Len(pipe') : Deletes(pipe'[i], b)
    <2>1. CASE l2'[b] = l2[b] /\ ~Deletes(Head(pipe), b)
      <3>1. ASSUME NEW i \in 1 .. Len(pipe), Deletes(pipe[i], b)
            PROVE  \E k \in 1 .. Len(pipe') : Deletes(pipe'[k], b)
        <4>1. i - 1 \in 1 .. Len(pipe') /\ pipe'[i - 1] = pipe[i]
          BY <1>1, <2>1, <3>1
        <4> QED BY <3>1, <4>1
      <3> QED BY <1>2, <2>1, <3>1 DEF Current
    <2> QED BY <2>1
  <1> QED BY <1>2, <1>3, <1>4 DEF Current

\* The query of the command in front.
LEMMA FrontQuery ==
  ASSUME IInv, pipe # <<>>, Head(pipe).op \in {"get", "set"}
  PROVE  /\ Head(pipe).q \in Queries /\ pc[Head(pipe).q] = Head(pipe).op
         /\ \A p \in Queries : Awaits(Head(pipe), p) <=> p = Head(pipe).q
         /\ \A a \in Addresses : ~Deletes(Head(pipe), a)
  <1> USE DEF IInv
  <1>1. Head(pipe) = pipe[1] /\ Head(pipe) \in Commands /\ 1 \in 1 .. Len(pipe)
    BY DEF TypeOK
  <1> QED BY <1>1, CommandTypes DEF Waits, Awaits, Deletes

LEMMA GetOK ==
  ASSUME IInv, Redis, Head(pipe).op = "get", ExecuteGet(Head(pipe).q)
  PROVE  IInv'
  <1> USE DEF IInv, GoTo, layer1
  <1> DEFINE q == Head(pipe).q
             a == addr[q]
  <1>1. /\ pipe # <<>> /\ pipe' = Tail(pipe)
        /\ UNCHANGED <<addr, since, l1, order, gen, spoilt, l2, answer>>
    BY DEF Redis, ExecuteGet
  <1>2. /\ q \in Queries /\ pc[q] = "get"
        /\ \A p \in Queries : Awaits(Head(pipe), p) <=> p = q
        /\ \A b \in Addresses : ~Deletes(Head(pipe), b)
    BY <1>1, FrontQuery
  <1> HIDE DEF q
  <1>3. \/ l2[a].left > 0 /\ pc' = [pc EXCEPT ![q] = "hit"] /\ data' = [data EXCEPT ![q] = l2[a].list]
        \/ pc' = [pc EXCEPT ![q] = "miss"] /\ data' = data
    BY DEF ExecuteGet, q
  <1>4. a \in Addresses /\ l2[a] \in Slots /\ l2[a].list \in Lists /\ l2[a].left \in Nat
    BY <1>2, Types DEF TypeOK
  <1>5. /\ pc' \in [Queries -> {"idle", "get", "hit", "miss", "fetch", "fetched", "set"}]
        /\ \A p \in Queries : p # q => pc'[p] = pc[p] /\ data'[p] = data[p]
        /\ pc'[q] \in {"hit", "miss"}
        /\ \/ pc'[q] = "hit" /\ l2[a].left > 0 /\ data'[q] = l2[a].list
           \/ pc'[q] = "miss" /\ data'[q] = data[q]
    BY <1>2, <1>3 DEF TypeOK
  <1>6. data' \in [Queries -> Lists]
    BY <1>2, <1>3, <1>4 DEF TypeOK
  <1>7. TypeOK' /\ L1Bounded'
    BY <1>1, <1>5, <1>6, PopCommand DEF TypeOK, L1Bounded
  <1>8. Waits'
    BY <1>1, <1>2, <1>5, PopWaits
  <1>9. Ages'
    <2>1. StaleAtMostTwice'
      BY <1>1 DEF Ages, StaleAtMostTwice
    <2>2. pc'[q] = "hit" => data'[q].age < Ttl
      BY <1>4, <1>5, Types DEF Ages
    <2>3. \A p \in Queries : data'[p].age < Ttl /\ (pc'[p] # "hit" => data'[p].age = 0)
      BY <1>2, <1>5, <2>2 DEF Ages
    <2> QED BY <1>1, <2>1, <2>3 DEF Ages
  <1>10. \A b \in Addresses : b \notin spoilt => Current(b)'
    BY <1>1, <1>2, PopCurrent
  <1>11. ASSUME NEW p \in Queries, addr'[p] \notin spoilt PROVE Currently(p)'
    <2>1. CASE p # q
      BY <1>1, <1>5, <1>11, <2>1 DEF Gens, Currently
    <2>2. CASE p = q
      <3>1. Currently(q) /\ Current(a)
        BY <1>1, <1>2, <1>4, <1>11, <2>2 DEF Gens
      <3>2. \A i \in 1 .. Len(pipe) : ~Deletes(pipe[i], a)
        <4> SUFFICES ASSUME NEW i \in 1 .. Len(pipe), Deletes(pipe[i], a) PROVE FALSE
          OBVIOUS
        <4>1. Head(pipe) = pipe[1] /\ Len(pipe) \in Nat
          BY <1>1, PopCommand
        <4>2. i # 1
          BY <1>2, <1>4, <4>1
        <4>3. 1 \in 1 .. (i - 1)
          BY <4>1, <4>2
        <4>4. pipe[1].op \in {"get", "set"} /\ addr[pipe[1].q] = a
          BY <4>1 DEF q
        <4> QED BY <3>1, <4>3, <4>4 DEF Current
      <3>3. l2[a].left > 0 => l2[a].list.gen = gen[a]
        BY <3>1, <3>2 DEF Current
      <3> QED BY <1>1, <1>2, <1>5, <2>2, <3>1, <3>3 DEF Currently
    <2> QED BY <2>1, <2>2
  <1> QED BY <1>1, <1>7, <1>8, <1>9, <1>10, <1>11 DEF Gens

\* A command that is answered ends its query; a SET may have been executed.
LEMMA ReplyOK ==
  ASSUME IInv, pipe # <<>>, pipe' = Tail(pipe), Head(pipe).op \in {"get", "set"},
         NEW kind \in {"utxos", "error"}, NEW list \in Lists,
         kind = "utxos" => Head(pipe).op = "set" /\ list = data[Head(pipe).q],
         Return(Head(pipe).q, kind, list),
         \/ UNCHANGED l2
         \/ Head(pipe).op = "set" /\ l2' = Written(Head(pipe).q),
         UNCHANGED <<addr, since, l1, order, gen, spoilt>>
  PROVE  IInv'
  <1> USE DEF IInv, GoTo
  <1> DEFINE q == Head(pipe).q
             a == addr[q]
             s == [list |-> data[q], left |-> Ttl]
  <1>1. /\ q \in Queries /\ pc[q] = Head(pipe).op
        /\ \A p \in Queries : Awaits(Head(pipe), p) <=> p = q
        /\ \A b \in Addresses : ~Deletes(Head(pipe), b)
    BY FrontQuery
  <1>2. /\ pc' = [pc EXCEPT ![q] = "idle"] /\ data' = [data EXCEPT ![q] = NoList]
        /\ answer' = [answer EXCEPT ![q] = [kind |-> kind, list |-> list]]
    BY DEF Return
  <1>3. kind = "utxos" => pc[q] = "set" /\ list = data[q]
    BY <1>1
  <1>4. l2' = l2 \/ (pc[q] = "set" /\ l2' = [l2 EXCEPT ![a] = s])
    BY <1>1 DEF Written
  <1> HIDE DEF q
  <1>5. /\ a \in Addresses /\ data[q] \in Lists /\ s \in Slots
        /\ [kind |-> kind, list |-> list] \in Answers
    BY <1>1, Types DEF TypeOK, Answers
  <1>6. l2' \in [Addresses -> Slots]
    BY <1>4, <1>5 DEF TypeOK
  <1>7. /\ data' \in [Queries -> Lists] /\ answer' \in [Queries -> Answers]
        /\ pc' \in [Queries -> {"idle", "get", "hit", "miss", "fetch", "fetched", "set"}]
    BY <1>2, <1>5, Types DEF TypeOK
  <1>8. TypeOK' /\ L1Bounded'
    BY <1>6, <1>7, PopCommand DEF TypeOK, L1Bounded
  <1>9. Waits'
    <2>1. \A p \in Queries : p # q => pc'[p] = pc[p]
      BY <1>2 DEF TypeOK
    <2> QED BY <1>1, <2>1, PopWaits
  <1>10. Ages'
    <2>1. kind = "utxos" => list.age = 0
      BY <1>1, <1>3 DEF Ages
    <2>2. StaleAtMostTwice'
      BY <1>2, <2>1, Types DEF Ages, TypeOK, StaleAtMostTwice
    <2>3. \A p \in Queries : data'[p].age < Ttl /\ (pc'[p] # "hit" => data'[p].age = 0)
      BY <1>2, Types DEF Ages, TypeOK, NoList
    <2>4. pc[q] = "set" => s.list.age = 0 /\ s.left = Ttl
      BY <1>1 DEF Ages
    <2>5. \A b \in Addresses : l2'[b] = l2[b] \/ (pc[q] = "set" /\ l2'[b] = s)
      BY <1>4 DEF TypeOK
    <2>6. \A b \in Addresses : l2'[b].left > 0 => l2'[b].list.age + l2'[b].left <= Ttl
      BY <2>4, <2>5, Types DEF Ages
    <2> QED BY <2>2, <2>3, <2>6 DEF Ages
  <1>11. ASSUME NEW b \in Addresses, b \notin spoilt PROVE Current(b)'
    <2>1. l2'[b] = l2[b] \/ (b = a /\ pc[q] = "set" /\ l2'[b] = s)
      BY <1>4 DEF TypeOK
    <2>2. b = a /\ pc[q] = "set" => s.list.gen = gen[b]
      BY <1>1, <1>11 DEF Gens, Currently
    <2>3. ~Deletes(Head(pipe), b)
      BY <1>1
    <2>4. \/ l2'[b] = l2[b] /\ ~Deletes(Head(pipe), b)
          \/ l2'[b].left > 0 => l2'[b].list.gen = gen[b]
      BY <2>1, <2>2, <2>3
    <2> QED BY <1>11, <2>4, PopCurrent
  <1>12. ASSUME NEW p \in Queries, addr'[p] \notin spoilt PROVE Currently(p)'
    <2>1. CASE p # q
      BY <1>2, <1>12, <2>1 DEF Gens, Currently, TypeOK
    <2>2. CASE p = q
      <3>1. kind = "utxos" => list.gen = gen[a] /\ since[q] = gen[a] /\ gen[a] \in Nat
        BY <1>1, <1>3, <1>5, <1>12, <2>2, Types DEF Gens, Currently, TypeOK
      <3> QED BY <1>1, <1>2, <2>2, <3>1 DEF Currently, TypeOK
    <2> QED BY <2>1, <2>2
  <1> QED BY <1>8, <1>9, <1>10, <1>11, <1>12 DEF Gens

\* A DEL is executed, or fails and spoils its address.
LEMMA DelOK ==
  ASSUME IInv, pipe # <<>>, pipe' = Tail(pipe), Head(pipe).op = "del",
         \/ l2' = [l2 EXCEPT ![Head(pipe).a] = Empty] /\ UNCHANGED spoilt
         \/ spoilt' = spoilt \cup {Head(pipe).a} /\ UNCHANGED l2,
         UNCHANGED <<pc, addr, since, data, answer, l1, order, gen>>
  PROVE  IInv'
  <1> USE DEF IInv
  <1>1. /\ Head(pipe) \in Commands /\ Head(pipe).a \in Addresses
        /\ \A b \in Addresses : Deletes(Head(pipe), b) <=> b = Head(pipe).a
    BY PopCommand, CommandTypes DEF Deletes
  <1> DEFINE a == Head(pipe).a
  <1>2. l2' \in [Addresses -> Slots] /\ \A b \in Addresses : l2'[b] = Empty \/ l2'[b] = l2[b]
    <2>1. \/ l2' = [l2 EXCEPT ![a] = Empty]
          \/ l2' = l2
      OBVIOUS
    <2>2. a \in Addresses
      BY <1>1
    <2>3. l2 \in [Addresses -> Slots] /\ Empty \in Slots
      BY Types DEF TypeOK
    <2> HIDE DEF a
    <2>4. CASE l2' = l2
      BY <2>3, <2>4
    <2>5. CASE l2' = [l2 EXCEPT ![a] = Empty]
      BY <2>2, <2>3, <2>5
    <2> QED BY <2>1, <2>4, <2>5
  <1>3. TypeOK' /\ L1Bounded'
    BY <1>1, <1>2, PopCommand DEF TypeOK, L1Bounded
  <1>4. Waits'
    BY PopWaits
  <1>5. Ages'
    <2>1. StaleAtMostTwice'
      BY DEF Ages, StaleAtMostTwice
    <2> QED BY <1>2, <2>1 DEF Ages, Empty
  <1>6. ASSUME NEW b \in Addresses, b \notin spoilt' PROVE Current(b)'
    <2>1. b \notin spoilt
      BY <1>6
    <2>2. \/ l2'[b] = l2[b] /\ ~Deletes(Head(pipe), b)
          \/ l2'[b].left > 0 => l2'[b].list.gen = gen[b]
      BY <1>1, <1>6 DEF TypeOK, Empty
    <2> QED BY <2>1, <2>2, PopCurrent
  <1>7. ASSUME NEW p \in Queries, addr'[p] \notin spoilt' PROVE Currently(p)'
    BY <1>7 DEF Gens, Currently
  <1> QED BY <1>3, <1>4, <1>5, <1>6, <1>7 DEF Gens

LEMMA RedisOK == ASSUME IInv, Redis PROVE IInv'
  <1>1. /\ pipe # <<>> /\ pipe' = Tail(pipe)
        /\ UNCHANGED <<addr, since, l1, order, gen, spoilt>>
    BY DEF Redis, layer1
  <1>2. CASE Head(pipe).op = "get" /\ ExecuteGet(Head(pipe).q)
    BY <1>2, GetOK
  <1>3. CASE Head(pipe).op = "set" /\ ExecuteSet(Head(pipe).q)
    <2>1. data[Head(pipe).q] \in Lists
      BY <1>1, <1>3, FrontQuery DEF IInv, TypeOK
    <2>2. /\ Return(Head(pipe).q, "utxos", data[Head(pipe).q])
          /\ l2' = Written(Head(pipe).q)
      BY <1>3 DEF ExecuteSet
    <2> QED BY <1>1, <1>3, <2>1, <2>2, ReplyOK
  <1>4. CASE Head(pipe).op = "del" /\ ExecuteDel(Head(pipe).a)
    BY <1>1, <1>4, DelOK DEF ExecuteDel
  <1> QED BY <1>2, <1>3, <1>4 DEF Redis

LEMMA RedisFailsOK == ASSUME IInv, RedisFails PROVE IInv'
  <1>1. /\ pipe # <<>> /\ pipe' = Tail(pipe) /\ UNCHANGED <<addr, since, l1, order, gen>>
    BY DEF RedisFails, layer1
  <1>2. CASE /\ Head(pipe).op \in {"get", "set"} /\ Return(Head(pipe).q, "error", NoList)
             /\ UNCHANGED l2 \/ (Head(pipe).op = "set" /\ l2' = Written(Head(pipe).q))
             /\ UNCHANGED spoilt
    BY <1>1, <1>2, Types, ReplyOK
  <1>3. CASE /\ Head(pipe).op = "del" /\ spoilt' = spoilt \cup {Head(pipe).a}
             /\ UNCHANGED <<pc, data, answer, l2>>
    BY <1>1, <1>3, DelOK
  <1> QED BY <1>2, <1>3 DEF RedisFails

----------------------------------------------------------------------------
LEMMA AgedSlot ==
  ASSUME NEW s \in Slots
  PROVE  /\ Aged(s) \in Slots /\ Aged(s).list.gen = s.list.gen
         /\ Aged(s).left > 0 => s.left > 0 /\ Aged(s).list.age + Aged(s).left <= s.list.age + s.left
  <1>1. /\ s.list \in Lists /\ s.left \in 0 .. Ttl /\ s.list.age \in 0 .. MaxAge
        /\ s.list.gen \in 0 .. MaxInvalidations
    BY DEF Slots, Lists
  <1>2. CASE s.left = 0
    BY <1>1, <1>2, Types DEF Aged
  <1>3. CASE s.left # 0
    <2> DEFINE t == Older(s.list)
    <2>1. /\ t \in Lists /\ t.gen = s.list.gen
          /\ t.age = IF s.list.age = MaxAge THEN MaxAge ELSE s.list.age + 1
      BY <1>1, Types DEF Older, Lists
    <2> HIDE DEF t
    <2>2. Aged(s) = [list |-> t, left |-> s.left - 1] /\ s.left - 1 \in 0 .. Ttl
      BY <1>1, <1>3, Types DEF Aged, t
    <2>3. Aged(s) \in Slots
      BY <2>1, <2>2 DEF Slots
    <2> QED BY <1>1, <2>1, <2>2, <2>3, Types
  <1> QED BY <1>2, <1>3

LEMMA TickOK == ASSUME IInv, Tick PROVE IInv'
  <1> USE DEF IInv
  <1>1. /\ l1' = [a \in Addresses |-> Aged(l1[a])]
        /\ l2' = [a \in Addresses |-> IF l2[a].left <= 1 THEN Empty ELSE Aged(l2[a])]
        /\ pipe = <<>>
        /\ UNCHANGED <<pc, addr, since, data, answer, order, pipe, gen, spoilt>>
    BY DEF Tick
  <1>2. \A a \in Addresses : l1[a] \in Slots /\ l2[a] \in Slots
    BY DEF TypeOK
  <1>3. \A a \in Addresses : l1'[a] = Aged(l1[a]) /\ (l2'[a] = Empty \/ l2'[a] = Aged(l2[a]))
    BY <1>1
  <1>4. TypeOK' /\ L1Bounded'
    BY <1>1, <1>2, AgedSlot, Types DEF TypeOK, L1Bounded
  <1>5. Waits'
    BY <1>1 DEF Waits
  <1>6. Ages'
    <2>1. StaleAtMostTwice'
      BY <1>1 DEF Ages, StaleAtMostTwice
    <2>2. ASSUME NEW a \in Addresses, l2'[a].left > 0 PROVE l2'[a].list.age + l2'[a].left <= Ttl
      <3>1. l2'[a] = Aged(l2[a])
        BY <1>3, <2>2 DEF Empty
      <3>2. Aged(l2[a]) \in Slots /\ l2[a].left > 0
            /\ Aged(l2[a]).list.age + Aged(l2[a]).left <= l2[a].list.age + l2[a].left
        BY <1>2, <2>2, <3>1, AgedSlot
      <3>3. l2[a].list.age + l2[a].left <= Ttl
        BY <3>2 DEF Ages
      <3>4. /\ Aged(l2[a]).list.age \in Nat /\ Aged(l2[a]).left \in Nat
            /\ l2[a].list.age \in Nat /\ l2[a].left \in Nat /\ Ttl \in Nat
        BY <1>2, <3>2, Types
      <3> QED BY <3>1, <3>2, <3>3, <3>4
    <2>3. ASSUME NEW a \in Addresses, l1'[a].left > 0 PROVE l1'[a].list.age + l1'[a].left < 2 * Ttl
      <3>1. l1'[a] = Aged(l1[a])
        BY <1>3
      <3>2. Aged(l1[a]) \in Slots /\ l1[a].left > 0
            /\ Aged(l1[a]).list.age + Aged(l1[a]).left <= l1[a].list.age + l1[a].left
        BY <1>2, <2>3, <3>1, AgedSlot
      <3>3. l1[a].list.age + l1[a].left < 2 * Ttl
        BY <3>2 DEF Ages
      <3>4. /\ Aged(l1[a]).list.age \in Nat /\ Aged(l1[a]).left \in Nat
            /\ l1[a].list.age \in Nat /\ l1[a].left \in Nat /\ Ttl \in Nat
        BY <1>2, <3>2, Types
      <3> QED BY <3>1, <3>2, <3>3, <3>4
    <2> QED BY <1>1, <2>1, <2>2, <2>3 DEF Ages
  <1>7. ASSUME NEW b \in Addresses, b \notin spoilt PROVE Current(b)'
    <2>1. Current(b) /\ ~\E i \in 1 .. Len(pipe) : Deletes(pipe[i], b)
      BY <1>1, <1>7 DEF Gens
    <2>2. /\ l1'[b].left > 0 => l1'[b].list.gen = gen[b]
          /\ l2'[b].left > 0 => l2'[b].list.gen = gen[b]
      BY <1>2, <1>3, <2>1, AgedSlot DEF Current, Empty
    <2> QED BY <1>1, <2>1, <2>2 DEF Current
  <1>8. \A p \in Queries : Currently(p)' = Currently(p)
    BY <1>1 DEF Currently
  <1> QED BY <1>1, <1>4, <1>5, <1>6, <1>7, <1>8 DEF Gens

LEMMA NextOK == IInv /\ [Next]_vars => IInv'
  <1> SUFFICES ASSUME IInv, [Next]_vars PROVE IInv'
    OBVIOUS
  <1>1. CASE UNCHANGED vars
    BY <1>1 DEF IInv, TypeOK, L1Bounded, Waits, Ages, StaleAtMostTwice, Gens, Current, Currently,
                vars
  <1>2. CASE \E q \in Queries, a \in Addresses : Start(q, a)
    BY <1>2, StartOK
  <1>3. CASE \E q \in Queries : WarmL1(q)
    BY <1>3, WarmL1OK
  <1>4. CASE \E q \in Queries : AskBlockfrost(q) \/ Blockfrost(q)
    BY <1>4, BlockfrostOK
  <1>5. CASE \E q \in Queries : Store(q)
    BY <1>5, StoreOK
  <1>6. CASE \E a \in Addresses : Invalidate(a)
    BY <1>6, InvalidateOK
  <1> QED BY <1>1, <1>2, <1>3, <1>4, <1>5, <1>6, InvalidateAllOK, RestartOK, RedisOK, RedisFailsOK,
             TickOK DEF Next

LEMMA Invariant == Spec => []IInv
  BY InitOK, NextOK, PTL DEF Spec

(* Every variable keeps its type: no list is older than is told apart, and no *)
(* address is in the order of the Map twice.                                   *)
THEOREM TypeCorrect == Spec => []TypeOK
  <1>1. IInv => TypeOK
    BY DEF IInv
  <1> QED BY <1>1, Invariant, PTL

(* The Map never holds more than maxL1Entries addresses, although it evicts    *)
(* one entry per write only (utxo-cache.ts:137).                               *)
THEOREM MapIsBounded == Spec => []L1Bounded
  <1>1. IInv => L1Bounded
    BY DEF IInv
  <1> QED BY <1>1, Invariant, PTL

(* No answer is a list older than two times to live, less one tick, whatever    *)
(* the queries, failures and restarts before it (utxo-cache.ts:99-129).         *)
THEOREM StaleTwiceAtMost == Spec => []StaleAtMostTwice
  <1>1. IInv => StaleAtMostTwice
    BY DEF IInv, Ages
  <1> QED BY <1>1, Invariant, PTL

(* An invalidation that meets no query of its address under way, and whose DEL  *)
(* is not lost, is seen by every later answer for the address                   *)
(* (utxo-cache.ts:160-168).                                                     *)
THEOREM QuietInvalidations == Spec => []QuietInvalidationForcesFetch
  <1>1. IInv => QuietInvalidationForcesFetch
    BY DEF IInv, TypeOK, Gens, Currently, QuietInvalidationForcesFetch
  <1> QED BY <1>1, Invariant, PTL
=============================================================================
