------------------------- MODULE NonceManagerProofs -------------------------
(***************************************************************************)
(* Which nonces PendingNonceManager gives, for any number of transactions, *)
(* signers and worker threads, with every fault: two calls under way share *)
(* none unless a reset came between, and none is skipped.                  *)
(***************************************************************************)
EXTENDS NonceManager, FiniteSetTheorems, WellFoundedInduction, TLAPS

\* Nonce n of signer a was given to a call.
Given(a, n) == \E t \in Tasks : signer[t] = a /\ nonce[t] = n

\* A call takes one nonce, once, and sends it.
Points == \A t \in Tasks :
  /\ pc[t] \in {"idle", "entry", "blocked", "lock", "fetch"} => nonce[t] = NONE
  /\ pc[t] \in {"send", "receipt"} => nonce[t] \in Nonces

\* Who asks the node holds the mutex, and the signer has no count yet.
Mutex == \A t \in Tasks :
  pc[t] = "fetch" => owner[signer[t]] = t /\ cache[signer[t]] = NONE

\* What is counted, in the pool, mined, or below a nonce that was given, was
\* given itself.
Counted == \A a \in Signers :
  /\ cache[a] # NONE => Given(a, cache[a])
  /\ \A n \in pool[a] : Given(a, n)
  /\ \A n \in 0 .. (mined[a] - 1) : Given(a, n)
  /\ \A t \in Tasks : signer[t] = a /\ nonce[t] # NONE =>
       \A n \in 0 .. (nonce[t] - 1) : Given(a, n)

\* Until a signer's count is thrown away, nonces are given in order.
Ordered == \A a \in Signers : a \notin reset =>
  \A t \in Tasks : signer[t] = a /\ nonce[t] # NONE =>
    /\ cache[a] # NONE /\ nonce[t] <= cache[a]
    /\ \A u \in Tasks : signer[u] = a /\ nonce[u] = nonce[t] => u = t

IInv == TypeOK /\ Points /\ Mutex /\ Counted /\ Ordered

LEMMA Types ==
  /\ Cardinality(Tasks) \in Nat /\ NONE \in Nat /\ NONE \notin Nonces
  /\ \A n \in Nat : n < Cardinality(Tasks) => n \in Nonces /\ n + 1 \in Nonces
  /\ \A n \in Nonces : n \in Nat /\ n < NONE
  /\ NSigners \in Nat \ {0} /\ 0 \in Signers /\ 0 \in Nonces
  /\ Nobody \notin Tasks
  BY NonceAssumption, FS_CardinalityType DEF Nonces, NONE, Signers, Nobody

LEMMA InitOK == Init => IInv
  <1> SUFFICES ASSUME Init PROVE IInv
    OBVIOUS
  <1>1. TypeOK
    BY Types DEF Init, TypeOK
  <1>2. Points /\ Mutex /\ Ordered
    BY DEF Init, Points, Mutex, Ordered
  <1>3. Counted
    BY Types DEF Init, Counted
  <1> QED BY <1>1, <1>2, <1>3 DEF IInv

----------------------------------------------------------------------------
(* How far nonces go.                                                       *)

\* A nonce was given, and every one below it, to as many calls.
LEMMA PigeonHole ==
  ASSUME IInv, NEW a \in Signers, NEW k \in Nat, \A n \in 0 .. (k - 1) : Given(a, n),
         k <= Cardinality(Tasks) + 1
  PROVE  /\ k <= Cardinality(Tasks)
         /\ (\E t \in Tasks : nonce[t] = NONE) => k < Cardinality(Tasks)
  <1> DEFINE With == {t \in Tasks : nonce[t] # NONE}
             f == [n \in 0 .. (k - 1) |-> CHOOSE t \in Tasks : signer[t] = a /\ nonce[t] = n]
  <1>1. \A n \in 0 .. (k - 1) : f[n] \in Tasks /\ nonce[f[n]] = n
    BY DEF Given
  <1>2. \A n \in 0 .. (k - 1) : n # NONE
    BY Types DEF NONE
  <1>3. f \in [0 .. (k - 1) -> With]
    BY <1>1, <1>2
  <1>4. f \in Injection(0 .. (k - 1), With)
    BY <1>1, <1>3 DEF Injection, IsInjective
  <1>5. IsFiniteSet(With) /\ Cardinality(With) <= Cardinality(Tasks)
        /\ (Cardinality(With) = Cardinality(Tasks) => With = Tasks)
    BY NonceAssumption, FS_Subset
  <1>6. Cardinality(0 .. (k - 1)) <= Cardinality(With)
    BY <1>4, <1>5, FS_Injection
  <1>7. Cardinality(0 .. (k - 1)) = k
    BY FS_Interval
  <1>8. Cardinality(With) \in Nat
    BY <1>5, FS_CardinalityType
  <1> HIDE DEF f
  <1>9. (\E t \in Tasks : nonce[t] = NONE) => With # Tasks
    OBVIOUS
  <1> HIDE DEF With
  <1> QED BY <1>5, <1>6, <1>7, <1>8, <1>9, Types

LEMMA LeastOf ==
  ASSUME NEW S \in SUBSET Nat, S # {}
  PROVE  \E n \in S : \A m \in S : ~(m < n)
  <1> DEFINE R == OpToRel(<, Nat)
  <1>1. IsWellFoundedOn(R, Nat)
    BY NatLessThanWellFounded
  <1>2. \A x, y \in Nat : x < y => <<x, y>> \in R
    BY DEF OpToRel
  <1> HIDE DEF R
  <1>3. PICK n \in S : \A m \in S : ~(<<m, n>> \in R)
    BY <1>1, WFMin
  <1>4. S \subseteq Nat /\ n \in Nat
    OBVIOUS
  <1>5. ASSUME NEW m \in S PROVE ~(m < n)
    <2>1. ~(<<m, n>> \in R) /\ m \in Nat
      BY <1>3, <1>4
    <2> QED BY <1>2, <1>4, <2>1
  <1> QED BY <1>5

\* The count the node gives is past what was mined or is in the pool without
\* a gap.
LEMMA PendingCountProperties ==
  ASSUME IInv, NEW a \in Signers
  PROVE  LET n == PendingCount(a) IN
         /\ n \in mined[a] .. (Cardinality(Tasks) + 1)
         /\ n \notin pool[a] /\ \A m \in mined[a] .. (n - 1) : m \in pool[a]
  <1> DEFINE S == {n \in mined[a] .. (Cardinality(Tasks) + 1) : n \notin pool[a]}
  <1>1. mined[a] \in Nat /\ mined[a] <= Cardinality(Tasks) /\ pool[a] \subseteq Nonces
    BY Types DEF IInv, TypeOK, Nonces
  <1>2. S \in SUBSET Nat /\ NONE \in S
    BY <1>1, Types DEF NONE
  <1>3. PICK n \in S : \A m \in S : ~(m < n)
    BY <1>2, LeastOf
  <1>4. \A m \in mined[a] .. (n - 1) : m \in pool[a]
    BY <1>1, <1>3, Types
  <1>5. /\ n \in mined[a] .. (Cardinality(Tasks) + 1)
        /\ n \notin pool[a] /\ \A m \in mined[a] .. (n - 1) : m \in pool[a]
    BY <1>3, <1>4
  <1> QED BY <1>5 DEF PendingCount

----------------------------------------------------------------------------
(* What steps do to the counts.                                             *)

\* A step that gives no nonce: it may put one that was given into the pool,
\* and throw counts away.
LEMMA NothingGiven ==
  ASSUME IInv, UNCHANGED <<signer, nonce, mined>>, reset \subseteq reset',
         \A a \in Signers : \A n \in pool'[a] : n \in pool[a] \/ Given(a, n),
         \A a \in Signers : \/ cache'[a] = cache[a]
                            \/ cache'[a] = NONE /\ (cache[a] # NONE => a \in reset')
  PROVE  Counted' /\ Ordered'
  <1>1. \A a \in Signers, n \in Nat : Given(a, n)' <=> Given(a, n)
    BY DEF Given
  <1>2. Counted'
    BY Types DEF IInv, Counted, Given
  <1>3. Ordered'
    BY DEF IInv, Ordered
  <1> QED BY <1>2, <1>3

\* The next nonce is given to a call that has none.
LEMMA NonceGiven ==
  ASSUME IInv, NEW t \in Tasks, nonce[t] = NONE, NEW n \in Nat, n <= Cardinality(Tasks) + 1,
         \A m \in 0 .. (n - 1) : Given(signer[t], m),
         signer[t] \notin reset => cache[signer[t]] = NONE \/ n = cache[signer[t]] + 1,
         nonce' = [nonce EXCEPT ![t] = n], cache' = [cache EXCEPT ![signer[t]] = n],
         UNCHANGED <<signer, mined, pool, reset>>
  PROVE  n \in Nonces /\ n # NONE /\ Counted' /\ Ordered'
  <1>1. signer[t] \in Signers
    BY DEF IInv, TypeOK
  <1>2. n < Cardinality(Tasks)
    BY <1>1, PigeonHole
  <1>3. n \in Nonces /\ n # NONE
    BY <1>2, Types
  <1>4. /\ nonce' \in [Tasks -> Nonces \cup {NONE}] /\ nonce'[t] = n
        /\ \A u \in Tasks \ {t} : nonce'[u] = nonce[u]
        /\ cache'[signer[t]] = n
        /\ \A a \in Signers \ {signer[t]} : cache'[a] = cache[a]
    BY <1>1, <1>3 DEF IInv, TypeOK
  <1>5. \A a \in Signers : \A m : m # NONE /\ Given(a, m) => Given(a, m)'
    BY <1>4 DEF Given
  <1>6. Given(signer[t], n)'
    BY <1>4 DEF Given
  <1>7. Counted'
    <2> SUFFICES ASSUME NEW a \in Signers
                 PROVE  /\ cache'[a] # NONE => Given(a, cache[a])'
                        /\ \A m \in pool'[a] : Given(a, m)'
                        /\ \A m \in 0 .. (mined'[a] - 1) : Given(a, m)'
                        /\ \A u \in Tasks : signer'[u] = a /\ nonce'[u] # NONE =>
                             \A m \in 0 .. (nonce'[u] - 1) : Given(a, m)'
      BY DEF Counted
    <2>0. mined[a] \in Nonces /\ pool[a] \subseteq Nonces
      BY DEF IInv, TypeOK
    <2>1. cache'[a] # NONE => Given(a, cache[a])'
      <3>1. CASE a = signer[t]
        BY <1>4, <1>6, <3>1 DEF Given
      <3>2. CASE a # signer[t]
        <4>1. cache'[a] = cache[a] /\ (cache[a] # NONE => Given(a, cache[a]))
          BY <1>4, <3>2 DEF IInv, Counted
        <4>2. cache[a] # NONE => \E u \in Tasks : signer'[u] = a /\ nonce'[u] = cache'[a]
          BY <1>4, <4>1 DEF Given
        <4> QED BY <4>1, <4>2 DEF Given
      <3> QED BY <3>1, <3>2
    <2>2. \A m \in pool'[a] : Given(a, m)'
      BY <1>5, <2>0, Types DEF IInv, Counted
    <2>3. \A m \in 0 .. (mined'[a] - 1) : Given(a, m)'
      <3>1. \A m \in 0 .. (mined[a] - 1) : Given(a, m) /\ m # NONE
        BY <2>0, Types DEF IInv, Counted
      <3> QED BY <1>5, <3>1
    <2>4. ASSUME NEW u \in Tasks, signer'[u] = a, nonce'[u] # NONE, NEW m \in 0 .. (nonce'[u] - 1)
          PROVE  Given(a, m)'
      <3>1. nonce'[u] \in Nonces /\ m # NONE
        BY <1>4, <2>4, Types
      <3>2. Given(a, m)
        BY <1>4, <2>4 DEF IInv, Counted
      <3> QED BY <1>5, <3>1, <3>2
    <2> QED BY <2>1, <2>2, <2>3, <2>4
  <1>8. Ordered'
    <2> SUFFICES ASSUME NEW a \in Signers, a \notin reset,
                        NEW u \in Tasks, signer[u] = a, nonce'[u] # NONE
                 PROVE  /\ cache'[a] # NONE /\ nonce'[u] <= cache'[a]
                        /\ \A v \in Tasks : signer[v] = a /\ nonce'[v] = nonce'[u] => v = u
      BY DEF Ordered
    <2>1. CASE a # signer[t]
      <3>1. cache'[a] = cache[a] /\ \A v \in Tasks : signer[v] = a => nonce'[v] = nonce[v]
        BY <1>4, <2>1
      <3> QED BY <3>1 DEF IInv, Ordered
    <2>2. CASE a = signer[t]
      <3>1. ASSUME NEW v \in Tasks \ {t}, signer[v] = a, nonce[v] # NONE PROVE nonce[v] < n
        <4>1. cache[a] # NONE /\ nonce[v] <= cache[a] /\ n = cache[a] + 1
          BY <2>2, <3>1 DEF IInv, Ordered
        <4>2. nonce[v] \in Nat /\ cache[a] \in Nat
          BY <3>1, <4>1, Types DEF IInv, TypeOK
        <4> QED BY <4>1, <4>2
      <3>2. \A v \in Tasks \ {t} : signer[v] = a /\ nonce'[v] # NONE => nonce'[v] < n
        BY <1>4, <3>1
      <3>3. nonce'[u] \in Nat
        BY <1>4, Types
      <3>4. \A v, w \in Tasks \ {t} :
              signer[v] = a /\ signer[w] = a /\ nonce[v] # NONE /\ nonce[v] = nonce[w] => v = w
        BY DEF IInv, Ordered
      <3>5. cache'[a] = n /\ nonce'[u] <= n
        BY <1>4, <2>2, <3>2, <3>3
      <3>6. ASSUME NEW v \in Tasks, signer[v] = a, nonce'[v] = nonce'[u] PROVE v = u
        BY <1>4, <3>2, <3>3, <3>4, <3>6
      <3> QED BY <1>3, <3>5, <3>6
    <2> QED BY <2>1, <2>2
  <1> QED BY <1>3, <1>7, <1>8

----------------------------------------------------------------------------
(* The steps.                                                               *)

\* Steps that only move a task: nothing it had to wait for is given up.
LEMMA Moved ==
  ASSUME IInv, NEW t \in Tasks, NEW point, GoTo(t, point),
         point \in {"entry", "blocked", "lock", "receipt", "reset", "resetLock", "done"},
         point \in {"entry", "blocked", "lock"} => nonce[t] = NONE,
         point = "receipt" => pc[t] = "send",
         UNCHANGED <<nonce, signer, cache>>,
         \A a \in Signers : owner'[a] = owner[a] \/ owner[a] = t
  PROVE  /\ pc' \in [Tasks -> {"idle", "entry", "blocked", "lock", "fetch", "send",
                               "receipt", "reset", "resetLock", "done"}]
         /\ Points' /\ Mutex'
  <1>1. /\ pc' \in [Tasks -> {"idle", "entry", "blocked", "lock", "fetch", "send",
                               "receipt", "reset", "resetLock", "done"}]
        /\ pc'[t] = point /\ \A u \in Tasks \ {t} : pc'[u] = pc[u]
    BY DEF IInv, TypeOK, GoTo
  <1>2. Points'
    BY <1>1 DEF IInv, Points
  <1>3. Mutex'
    <2> SUFFICES ASSUME NEW u \in Tasks, pc'[u] = "fetch"
                 PROVE  owner'[signer[u]] = u /\ cache[signer[u]] = NONE
      BY DEF Mutex
    <2>1. u # t /\ pc[u] = "fetch"
      BY <1>1
    <2>2. owner[signer[u]] = u /\ cache[signer[u]] = NONE /\ signer[u] \in Signers
      BY <2>1 DEF IInv, Mutex, TypeOK
    <2> QED BY <2>1, <2>2
  <1> QED BY <1>1, <1>2, <1>3

LEMMA StartOK == ASSUME IInv, NEW t \in Tasks, Start(t) PROVE IInv'
  <1> USE DEF IInv
  <1>1. /\ pc[t] = "idle" /\ nonce[t] = NONE
        /\ signer' = [signer EXCEPT ![t] = cursor] /\ cursor' = (cursor + 1) % NSigners
        /\ UNCHANGED <<nonce, cache, owner, mined, pool, reset>>
    BY DEF Start, At, node, Points
  <1>2. PICK point \in {"entry", "done"} : GoTo(t, point)
    BY DEF Start
  <1>3. cursor' \in Signers
    <2>1. cursor \in Nat /\ NSigners \in Nat \ {0}
      BY Types DEF TypeOK, Signers
    <2> QED BY <1>1, <2>1 DEF Signers
  <1>4. /\ pc' \in [Tasks -> {"idle", "entry", "blocked", "lock", "fetch", "send",
                              "receipt", "reset", "resetLock", "done"}]
        /\ pc'[t] = point /\ \A u \in Tasks \ {t} : pc'[u] = pc[u]
        /\ signer' \in [Tasks -> Signers] /\ \A u \in Tasks \ {t} : signer'[u] = signer[u]
    BY <1>1, <1>2 DEF TypeOK, GoTo
  <1>5. TypeOK'
    BY <1>1, <1>3, <1>4 DEF TypeOK
  <1>6. Points'
    BY <1>1, <1>4 DEF Points
  <1>7. Mutex'
    BY <1>1, <1>4 DEF Mutex
  <1>8. \A a \in Signers : \A n : n # NONE => (Given(a, n)' <=> Given(a, n))
    BY <1>1, <1>4 DEF Given
  <1>9. Counted'
    <2>1. \A u \in Tasks : nonce[u] # NONE => signer'[u] = signer[u] /\ nonce[u] \in Nonces
      BY <1>1, <1>4 DEF TypeOK
    <2>2. \A a \in Signers : mined[a] \in Nonces /\ pool[a] \subseteq Nonces
      BY DEF TypeOK
    <2>3. \A a \in Signers : \A n \in pool[a] : Given(a, n)'
      BY <1>8, <2>2, Types DEF Counted
    <2>4. \A a \in Signers : \A n \in 0 .. (mined[a] - 1) : Given(a, n)'
      <3>1. \A a \in Signers : \A n \in 0 .. (mined[a] - 1) : Given(a, n) /\ n # NONE
        BY <2>2, Types DEF Counted
      <3> QED BY <1>8, <3>1
    <2>5. ASSUME NEW u \in Tasks, nonce[u] # NONE, NEW n \in 0 .. (nonce[u] - 1)
          PROVE  Given(signer[u], n)'
      <3>1. Given(signer[u], n) /\ n # NONE /\ signer[u] \in Signers /\ signer'[u] = signer[u]
        BY <2>1, <2>5, Types DEF Counted, TypeOK
      <3>2. PICK v \in Tasks : signer[v] = signer[u] /\ nonce[v] = n
        BY <3>1 DEF Given
      <3>3. signer'[v] = signer[v] /\ nonce'[v] = n
        BY <1>1, <2>1, <3>1, <3>2
      <3> QED BY <3>1, <3>2, <3>3 DEF Given
    <2>6. ASSUME NEW a \in Signers, cache[a] # NONE PROVE Given(a, cache[a])'
      <3>1. PICK v \in Tasks : signer[v] = a /\ nonce[v] = cache[a]
        BY <2>6 DEF Counted, Given
      <3> QED BY <1>1, <2>1, <2>6, <3>1 DEF Given
    <2> QED BY <1>1, <2>1, <2>3, <2>4, <2>5, <2>6 DEF Counted
  <1>10. Ordered'
    <2>1. \A u \in Tasks : nonce[u] # NONE => signer'[u] = signer[u]
      BY <1>1, <1>4
    <2> QED BY <1>1, <2>1 DEF Ordered
  <1> QED BY <1>5, <1>6, <1>7, <1>9, <1>10

\* Waiting for the shard, the reply, the receipt or the mutex.
LEMMA QuietOK ==
  ASSUME IInv, NEW t \in Tasks,
         \/ Entry(t) \/ Unblock(t) \/ Rejected(t) \/ Receipt(t) \/ NoReceipt(t) \/ ResetWaits(t)
  PROVE  IInv'
  <1>1. UNCHANGED <<cursor, signer, nonce, cache, owner, mined, pool, reset>>
    BY DEF Entry, Unblock, Rejected, Receipt, NoReceipt, ResetWaits, node
  <1>2. PICK point \in {"blocked", "lock", "reset", "resetLock", "done"} :
          GoTo(t, point) /\ (point \in {"blocked", "lock"} => nonce[t] = NONE)
    BY DEF Entry, Unblock, Rejected, Receipt, NoReceipt, ResetWaits, At, IInv, Points
  <1>3. /\ pc' \in [Tasks -> {"idle", "entry", "blocked", "lock", "fetch", "send",
                              "receipt", "reset", "resetLock", "done"}]
        /\ Points' /\ Mutex'
    BY <1>1, <1>2, Moved
  <1>4. Counted' /\ Ordered'
    BY <1>1, NothingGiven
  <1>5. TypeOK'
    BY <1>1, <1>3 DEF IInv, TypeOK
  <1> QED BY <1>3, <1>4, <1>5 DEF IInv

\* The node takes the transaction, or the call is dropped.
LEMMA SentOK ==
  ASSUME IInv, NEW t \in Tasks, Accepted(t) \/ SendFails(t) \/ Cancel(t)
  PROVE  IInv'
  <1> USE DEF IInv
  <1>1. UNCHANGED <<cursor, signer, nonce, cache, mined, reset>> /\ signer[t] \in Signers
    BY DEF Accepted, SendFails, Cancel, TypeOK
  <1>2. \/ UNCHANGED pool
        \/ pc[t] = "send" /\ IntoPool(t)
    BY DEF Accepted, SendFails, Cancel, At
  <1>3. PICK point \in {"receipt", "reset", "done"} :
          GoTo(t, point) /\ (point = "receipt" => pc[t] = "send")
    BY DEF Accepted, SendFails, Cancel, At
  <1>4. /\ owner' \in [Signers -> Tasks \cup {Nobody}]
        /\ \A a \in Signers : owner'[a] = owner[a] \/ owner[a] = t
    BY DEF Accepted, SendFails, Cancel, TypeOK
  <1>5. /\ pc' \in [Tasks -> {"idle", "entry", "blocked", "lock", "fetch", "send",
                              "receipt", "reset", "resetLock", "done"}]
        /\ Points' /\ Mutex'
    BY <1>1, <1>3, <1>4, Moved
  <1>6. /\ pool' \in [Signers -> SUBSET Nonces]
        /\ \A a \in Signers : \A n \in pool'[a] : n \in pool[a] \/ Given(a, n)
    <2>1. CASE UNCHANGED pool
      BY <2>1 DEF TypeOK
    <2>2. CASE pc[t] = "send" /\ IntoPool(t)
      <3>1. nonce[t] \in Nonces /\ Given(signer[t], nonce[t])
        BY <2>2 DEF Points, Given
      <3>2. pool' = [pool EXCEPT ![signer[t]] = pool[signer[t]] \cup {nonce[t]}]
        BY <2>2 DEF IntoPool
      <3>3. pool \in [Signers -> SUBSET Nonces]
        BY DEF TypeOK
      <3>4. /\ pool' \in [Signers -> SUBSET Nonces]
            /\ \A a \in Signers \ {signer[t]} : pool'[a] = pool[a]
            /\ pool'[signer[t]] = pool[signer[t]] \cup {nonce[t]}
        BY <1>1, <3>1, <3>2, <3>3
      <3> QED BY <3>1, <3>4
    <2> QED BY <1>2, <2>1, <2>2
  <1>7. Counted' /\ Ordered'
    BY <1>1, <1>6, NothingGiven
  <1>8. TypeOK'
    BY <1>1, <1>4, <1>5, <1>6 DEF TypeOK
  <1> QED BY <1>5, <1>7, <1>8

\* The call takes the nonce n and goes on to send it.
LEMMA TakenOK ==
  ASSUME IInv, NEW t \in Tasks, pc[t] \in {"lock", "fetch"},
         NEW n \in Nat, n <= Cardinality(Tasks) + 1,
         \A m \in 0 .. (n - 1) : Given(signer[t], m),
         signer[t] \notin reset => cache[signer[t]] = NONE \/ n = cache[signer[t]] + 1,
         nonce' = [nonce EXCEPT ![t] = n], cache' = [cache EXCEPT ![signer[t]] = n],
         GoTo(t, "send"),
         owner[signer[t]] \in {Nobody, t}, owner' = [owner EXCEPT ![signer[t]] = Nobody],
         UNCHANGED <<cursor, signer, mined, pool, reset>>
  PROVE  IInv'
  <1> USE DEF IInv
  <1>1. nonce[t] = NONE /\ signer[t] \in Signers
    BY DEF Points, TypeOK
  <1>2. n \in Nonces /\ n # NONE /\ Counted' /\ Ordered'
    BY <1>1, NonceGiven
  <1>3. /\ pc' \in [Tasks -> {"idle", "entry", "blocked", "lock", "fetch", "send",
                              "receipt", "reset", "resetLock", "done"}]
        /\ pc'[t] = "send" /\ \A u \in Tasks \ {t} : pc'[u] = pc[u]
    BY DEF TypeOK, GoTo
  <1>4. /\ nonce' \in [Tasks -> Nonces \cup {NONE}]
        /\ nonce'[t] = n /\ \A u \in Tasks \ {t} : nonce'[u] = nonce[u]
    BY <1>2 DEF TypeOK
  <1>5. /\ cache' \in [Signers -> Nonces \cup {NONE}] /\ owner' \in [Signers -> Tasks \cup {Nobody}]
        /\ \A a \in Signers \ {signer[t]} : cache'[a] = cache[a] /\ owner'[a] = owner[a]
    BY <1>1, <1>2 DEF TypeOK
  <1>6. TypeOK'
    BY <1>3, <1>4, <1>5 DEF TypeOK
  <1>7. Points'
    BY <1>2, <1>3, <1>4 DEF Points
  <1>8. Mutex'
    <2> SUFFICES ASSUME NEW u \in Tasks, pc'[u] = "fetch"
                 PROVE  owner'[signer[u]] = u /\ cache'[signer[u]] = NONE
      BY DEF Mutex
    <2>1. u # t /\ pc[u] = "fetch"
      BY <1>3
    <2>2. owner[signer[u]] = u /\ cache[signer[u]] = NONE /\ signer[u] \in Signers
      BY <2>1 DEF Mutex, TypeOK
    <2>3. signer[u] # signer[t]
      BY <2>1, <2>2, Types
    <2> QED BY <1>5, <2>2, <2>3
  <1> QED BY <1>2, <1>6, <1>7, <1>8

LEMMA LockOK == ASSUME IInv, NEW t \in Tasks, Lock(t) PROVE IInv'
  <1> USE DEF IInv
  <1>1. /\ pc[t] = "lock" /\ nonce[t] = NONE /\ owner[signer[t]] = Nobody /\ signer[t] \in Signers
        /\ UNCHANGED <<cursor, signer, mined, pool, reset>>
    BY DEF Lock, At, node, Points, TypeOK
  <1>2. CASE /\ cache[signer[t]] = NONE /\ owner' = [owner EXCEPT ![signer[t]] = t]
             /\ GoTo(t, "fetch") /\ UNCHANGED <<nonce, cache>>
    <2>1. /\ pc' \in [Tasks -> {"idle", "entry", "blocked", "lock", "fetch", "send",
                                "receipt", "reset", "resetLock", "done"}]
          /\ pc'[t] = "fetch" /\ \A u \in Tasks \ {t} : pc'[u] = pc[u]
      BY <1>2 DEF TypeOK, GoTo
    <2>2. /\ owner' \in [Signers -> Tasks \cup {Nobody}] /\ owner'[signer[t]] = t
          /\ \A a \in Signers \ {signer[t]} : owner'[a] = owner[a]
      BY <1>1, <1>2 DEF TypeOK
    <2>3. TypeOK'
      BY <1>1, <1>2, <2>1, <2>2 DEF TypeOK
    <2>4. Points'
      BY <1>1, <1>2, <2>1 DEF Points
    <2>5. Mutex'
      <3> SUFFICES ASSUME NEW u \in Tasks, pc'[u] = "fetch"
                   PROVE  owner'[signer[u]] = u /\ cache[signer[u]] = NONE
        BY <1>1, <1>2 DEF Mutex
      <3>1. CASE u = t
        BY <1>2, <2>2, <3>1
      <3>2. CASE u # t
        <4>1. owner[signer[u]] = u /\ cache[signer[u]] = NONE /\ signer[u] \in Signers
          BY <2>1, <3>2 DEF Mutex, TypeOK
        <4>2. signer[u] # signer[t]
          BY <1>1, <4>1, Types
        <4> QED BY <2>2, <4>1, <4>2
      <3> QED BY <3>1, <3>2
    <2>6. Counted' /\ Ordered'
      <3>1. \A a \in Signers : cache'[a] = cache[a]
        BY <1>2
      <3> QED BY <1>1, <1>2, <3>1, NothingGiven
    <2> QED BY <2>3, <2>4, <2>5, <2>6
  <1>3. CASE /\ cache[signer[t]] # NONE
             /\ nonce' = [nonce EXCEPT ![t] = cache[signer[t]] + 1]
             /\ cache' = [cache EXCEPT ![signer[t]] = cache[signer[t]] + 1]
             /\ GoTo(t, "send") /\ UNCHANGED owner
    <2> DEFINE n == cache[signer[t]] + 1
    <2>1. cache[signer[t]] \in Nonces /\ Given(signer[t], cache[signer[t]])
      BY <1>1, <1>3 DEF TypeOK, Counted
    <2>2. n \in Nat /\ n <= Cardinality(Tasks) + 1
      BY <2>1, Types DEF Nonces
    <2>3. \A m \in 0 .. (n - 1) : Given(signer[t], m)
      <3>1. PICK u \in Tasks : signer[u] = signer[t] /\ nonce[u] = cache[signer[t]]
        BY <2>1 DEF Given
      <3>2. \A m \in 0 .. (nonce[u] - 1) : Given(signer[t], m)
        BY <1>1, <1>3, <3>1 DEF Counted
      <3>3. \A m \in 0 .. (n - 1) : m = cache[signer[t]] \/ m \in 0 .. (nonce[u] - 1)
        BY <2>1, <3>1, Types
      <3> QED BY <2>1, <3>2, <3>3
    <2>4. owner' = [owner EXCEPT ![signer[t]] = Nobody]
      BY <1>1, <1>3 DEF TypeOK
    <2> QED BY <1>1, <1>3, <2>2, <2>3, <2>4, TakenOK
  <1> QED BY <1>2, <1>3 DEF Lock

LEMMA FetchedOK == ASSUME IInv, NEW t \in Tasks, Fetched(t) PROVE IInv'
  <1> USE DEF IInv
  <1>1. /\ pc[t] = "fetch" /\ nonce[t] = NONE /\ owner[signer[t]] = t /\ cache[signer[t]] = NONE
        /\ signer[t] \in Signers /\ owner' = [owner EXCEPT ![signer[t]] = Nobody]
        /\ UNCHANGED <<cursor, signer, mined, pool, reset>>
    BY DEF Fetched, At, node, Points, Mutex, TypeOK
  <1>2. CASE /\ nonce' = [nonce EXCEPT ![t] = PendingCount(signer[t])]
             /\ cache' = [cache EXCEPT ![signer[t]] = PendingCount(signer[t])]
             /\ GoTo(t, "send")
    <2> DEFINE n == PendingCount(signer[t])
               done == mined[signer[t]]
    <2>1. /\ n \in done .. (Cardinality(Tasks) + 1)
          /\ \A m \in done .. (n - 1) : m \in pool[signer[t]]
      BY <1>1, PendingCountProperties
    <2>2. done \in Nat
      BY <1>1, Types DEF TypeOK
    <2>3. /\ \A m \in 0 .. (done - 1) : Given(signer[t], m)
          /\ \A m \in pool[signer[t]] : Given(signer[t], m)
      BY <1>1 DEF Counted
    <2> HIDE DEF n, done
    <2>4. n \in Nat /\ n <= Cardinality(Tasks) + 1
      BY <2>1, <2>2, Types
    <2>5. ASSUME NEW m \in 0 .. (n - 1) PROVE Given(signer[t], m)
      <3>1. m \in 0 .. (done - 1) \/ m \in done .. (n - 1)
        BY <2>2, <2>4
      <3> QED BY <2>1, <2>3, <3>1
    <2>6. nonce' = [nonce EXCEPT ![t] = n] /\ cache' = [cache EXCEPT ![signer[t]] = n]
      BY <1>2 DEF n
    <2> QED BY <1>1, <1>2, <2>4, <2>5, <2>6, TakenOK
  <1>3. CASE GoTo(t, "reset") /\ UNCHANGED <<nonce, cache>>
    <2>1. /\ owner' \in [Signers -> Tasks \cup {Nobody}]
          /\ \A a \in Signers : owner'[a] = owner[a] \/ owner[a] = t
      BY <1>1 DEF TypeOK
    <2>2. /\ pc' \in [Tasks -> {"idle", "entry", "blocked", "lock", "fetch", "send",
                                "receipt", "reset", "resetLock", "done"}]
          /\ Points' /\ Mutex'
      BY <1>1, <1>3, <2>1, Moved
    <2>3. Counted' /\ Ordered'
      BY <1>1, <1>3, NothingGiven
    <2>4. TypeOK'
      BY <1>1, <1>3, <2>1, <2>2 DEF TypeOK
    <2> QED BY <2>2, <2>3, <2>4
  <1> QED BY <1>2, <1>3 DEF Fetched

\* The count is thrown away while nobody asks the node.
LEMMA ResetOK ==
  ASSUME IInv, NEW t \in Tasks, ResetNow(t) \/ ResetAfterWait(t)
  PROVE  IInv'
  <1> USE DEF IInv
  <1>1. /\ owner[signer[t]] = Nobody /\ signer[t] \in Signers /\ GoTo(t, "done")
        /\ cache' = [a \in Signers |-> IF a \in {signer[t]} THEN NONE ELSE cache[a]]
        /\ reset' = reset \cup {a \in {signer[t]} : cache[a] # NONE}
        /\ UNCHANGED <<cursor, signer, nonce, owner, mined, pool>>
    BY DEF ResetNow, ResetAfterWait, ThrowAway, node, TypeOK
  <1>2. /\ pc' \in [Tasks -> {"idle", "entry", "blocked", "lock", "fetch", "send",
                              "receipt", "reset", "resetLock", "done"}]
        /\ pc'[t] = "done" /\ \A u \in Tasks \ {t} : pc'[u] = pc[u]
    BY <1>1 DEF TypeOK, GoTo
  <1>3. /\ cache' \in [Signers -> Nonces \cup {NONE}]
        /\ \A a \in Signers : \/ cache'[a] = cache[a]
                              \/ cache'[a] = NONE /\ (cache[a] # NONE => a \in reset')
    BY <1>1 DEF TypeOK
  <1>4. TypeOK'
    BY <1>1, <1>2, <1>3 DEF TypeOK
  <1>5. Points'
    BY <1>1, <1>2 DEF Points
  <1>6. Mutex'
    <2> SUFFICES ASSUME NEW u \in Tasks, pc'[u] = "fetch"
                 PROVE  owner[signer[u]] = u /\ cache'[signer[u]] = NONE
      BY <1>1 DEF Mutex
    <2>1. pc[u] = "fetch" /\ signer[u] \in Signers
      BY <1>2 DEF TypeOK
    <2> QED BY <1>3, <2>1 DEF Mutex
  <1>7. Counted' /\ Ordered'
    BY <1>1, <1>3, NothingGiven
  <1> QED BY <1>4, <1>5, <1>6, <1>7

LEMMA MineOK == ASSUME IInv, NEW a \in Signers, Mine(a) PROVE IInv'
  <1> USE DEF IInv
  <1>1. /\ mined[a] \in pool[a] /\ mined' = [mined EXCEPT ![a] = mined[a] + 1]
        /\ pool' = [pool EXCEPT ![a] = pool[a] \ {mined[a]}]
        /\ UNCHANGED <<cursor, pc, signer, nonce, cache, owner, reset>>
    BY DEF Mine
  <1>2. mined[a] \in Nonces /\ mined[a] \in Nat /\ mined[a] <= Cardinality(Tasks)
    BY Types DEF TypeOK, Nonces
  <1>3. \A n \in 0 .. mined[a] : Given(a, n)
    BY <1>1, <1>2 DEF Counted
  <1>4. mined[a] + 1 \in Nonces
    <2> DEFINE k == mined[a] + 1
    <2>1. k \in Nat /\ k <= Cardinality(Tasks) + 1 /\ \A n \in 0 .. (k - 1) : Given(a, n)
      BY <1>2, <1>3, Types
    <2> HIDE DEF k
    <2>2. k <= Cardinality(Tasks)
      BY <2>1, PigeonHole
    <2> QED BY <1>2, <2>2, Types DEF k
  <1>5. /\ mined' \in [Signers -> Nonces] /\ pool' \in [Signers -> SUBSET Nonces]
        /\ mined'[a] = mined[a] + 1 /\ pool'[a] \subseteq pool[a]
        /\ \A b \in Signers \ {a} : mined'[b] = mined[b] /\ pool'[b] = pool[b]
    BY <1>1, <1>4 DEF TypeOK
  <1>6. TypeOK'
    BY <1>1, <1>5 DEF TypeOK
  <1>7. Points' /\ Mutex' /\ Ordered'
    BY <1>1 DEF Points, Mutex, Ordered
  <1>8. Counted'
    <2>1. \A b \in Signers, n \in Nat : Given(b, n)' <=> Given(b, n)
      BY <1>1 DEF Given
    <2>2. \A b \in Signers : \A n \in 0 .. (mined'[b] - 1) : Given(b, n)
      BY <1>2, <1>3, <1>5 DEF Counted
    <2> QED BY <1>1, <1>5, <2>1, <2>2 DEF Counted, Given
  <1> QED BY <1>6, <1>7, <1>8

LEMMA RestartOK == ASSUME IInv, Restart PROVE IInv'
  <1> USE DEF IInv
  <1>1. /\ cursor' = 0 /\ pc' = [t \in Tasks |-> IF pc[t] = "idle" THEN "idle" ELSE "done"]
        /\ cache' = [a \in Signers |-> IF a \in Signers THEN NONE ELSE cache[a]]
        /\ reset' = reset \cup {a \in Signers : cache[a] # NONE}
        /\ owner' = [a \in Signers |-> Nobody]
        /\ UNCHANGED <<signer, nonce, mined, pool>>
    BY DEF Restart, ThrowAway, node
  <1>2. TypeOK'
    BY <1>1, Types DEF TypeOK
  <1>3. Points' /\ Mutex'
    BY <1>1 DEF Points, Mutex
  <1>4. \A a \in Signers : cache'[a] = NONE /\ (cache[a] # NONE => a \in reset')
    BY <1>1
  <1>5. Counted' /\ Ordered'
    BY <1>1, <1>4, NothingGiven
  <1> QED BY <1>2, <1>3, <1>5

LEMMA NextOK == IInv /\ [Next]_vars => IInv'
  <1> SUFFICES ASSUME IInv, [Next]_vars PROVE IInv'
    OBVIOUS
  <1>1. CASE UNCHANGED vars
    BY <1>1 DEF IInv, TypeOK, Points, Mutex, Counted, Ordered, Given, vars
  <1>2. CASE \E t \in Tasks : Start(t) \/ Polled(t) \/ Unblock(t) \/ Cancel(t)
    BY <1>2, StartOK, QuietOK, SentOK, LockOK, FetchedOK, ResetOK DEF Polled
  <1>3. CASE \E a \in Signers : Mine(a)
    BY <1>3, MineOK
  <1> QED BY <1>1, <1>2, <1>3, RestartOK DEF Next

LEMMA Invariant == Spec => []IInv
  BY InitOK, NextOK, PTL DEF Spec

----------------------------------------------------------------------------
(* Every variable keeps its type: no nonce reaches the sentinel that stands    *)
(* for an unknown count.                                                       *)
THEOREM TypeCorrect == Spec => []TypeOK
  <1>1. IInv => TypeOK
    BY DEF IInv
  <1> QED BY <1>1, Invariant, PTL

(* Two calls under way never have one nonce of one signer, unless a reset or a *)
(* restart threw its count away (pending_nonce_manager.rs:53-76).              *)
THEOREM NoncesAreUnique == Spec => []UniqueNonces
  <1>1. IInv => UniqueNonces
    <2> SUFFICES ASSUME IInv, NEW t1 \in Tasks, NEW t2 \in Tasks, SameNonce(t1, t2),
                        signer[t1] \notin reset
                 PROVE  t1 = t2
      BY DEF UniqueNonces
    <2>1. nonce[t1] # NONE /\ nonce[t2] = nonce[t1] /\ signer[t2] = signer[t1]
      BY Types DEF SameNonce, HasNonce, IInv, Points
    <2> QED BY <2>1 DEF IInv, TypeOK, Ordered
  <1> QED BY <1>1, Invariant, PTL

(* Every nonce missing below a transaction in the pool was given to some call, *)
(* through resets and restarts (pending_nonce_manager.rs:63-76).               *)
THEOREM NoncesAreGapless == Spec => []NoNonceSkipped
  <1>1. IInv => NoNonceSkipped
    <2> SUFFICES ASSUME IInv, NEW a \in Signers, NEW n \in pool[a], NEW m \in mined[a] .. n
                 PROVE  Given(a, m)
      BY DEF NoNonceSkipped, Given
    <2>1. PICK t \in Tasks : signer[t] = a /\ nonce[t] = n
      BY DEF IInv, Counted, Given
    <2>2. n \in Nonces /\ mined[a] \in Nonces
      BY DEF IInv, TypeOK
    <2>3. \A k \in 0 .. (n - 1) : Given(a, k)
      BY <2>1, <2>2, Types DEF IInv, Counted
    <2>4. m = n \/ m \in 0 .. (n - 1)
      BY <2>2, Types
    <2> QED BY <2>1, <2>3, <2>4 DEF Given
  <1> QED BY <1>1, Invariant, PTL
=============================================================================
