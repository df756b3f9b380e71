-------------------------- MODULE PaidUploadProofs --------------------------
(***************************************************************************)
(* The gate lets nobody through unpaid, and what was stored is found and   *)
(* whole: for any uploads, transactions and contents, with time-outs,      *)
(* crashes and failing disks.                                              *)
(***************************************************************************)
EXTENDS PaidUpload, TLAPS

\* The types of what the gate's argument is about.
GateTypeOK ==
  /\ tx \in [Requests -> Txs]
  /\ call \in [Requests -> {"none", "open", "yes", "no"}]
  /\ paid \in [Txs -> BOOLEAN]
  /\ pc \in [Requests -> {"idle", "verify", "settle", "parse", "mkdir", "write", "done"}]
  /\ http \in [Requests -> {"none", "stored", "402", "400", "500", "cut"}]

\* What the facilitator has answered stays true.
YesIsPaid == \A r \in Requests : call[r] = "yes" => paid[tx[r]]

IInv == GateTypeOK /\ YesIsPaid /\ SettleBeforeExecution

-----------------------------------------------------------------------------
(* The facilitator's steps                                                 *)

\* A step of the service takes nothing off the chain and answers yes only
\* for what is on it.
LEMMA ServiceStep ==
  ASSUME GateTypeOK, YesIsPaid, ServiceNext \/ UNCHANGED serviceVars
  PROVE  /\ tx' = tx
         /\ call' \in [Requests -> {"none", "open", "yes", "no"}]
         /\ paid' \in [Txs -> BOOLEAN]
         /\ \A t \in Txs : paid[t] => paid'[t]
         /\ YesIsPaid'
  <1> USE DEF GateTypeOK, YesIsPaid
  <1>1. ASSUME NEW r \in Requests, Open(r) \/ Succeed(r)
        PROVE  /\ tx' = tx /\ paid' = paid
               /\ call' \in [Requests -> {"none", "open", "yes", "no"}]
               /\ YesIsPaid'
    BY <1>1 DEF Open, Succeed
  <1>2. ASSUME NEW calls \in SUBSET Requests, EndWithout(calls)
        PROVE  /\ tx' = tx /\ paid' = paid
               /\ call' \in [Requests -> {"none", "open", "yes", "no"}]
               /\ YesIsPaid'
    BY <1>2 DEF EndWithout
  <1>3. ASSUME NEW t \in Txs, Land(t)
        PROVE  /\ tx' = tx /\ call' = call
               /\ paid' \in [Txs -> BOOLEAN]
               /\ \A u \in Txs : paid[u] => paid'[u]
    BY <1>3 DEF Land
  <1>4. CASE UNCHANGED serviceVars
    BY <1>4 DEF serviceVars
  <1> QED
    BY <1>1, <1>2, <1>3, <1>4 DEF ServiceNext

\* The facilitator, a call to it, a crash: every step is a service step.
LEMMA NextIsServiceStep ==
  ASSUME [Next]_vars
  PROVE  ServiceNext \/ UNCHANGED serviceVars
  <1>1. ASSUME NEW u \in Requests, Arrive(u) \/ Gate(u) \/ Store(u)
        PROVE  ServiceNext \/ UNCHANGED serviceVars
    BY <1>1 DEF Arrive, Gate, NotVerified, Verified, Settled, NotSettled,
       Store, ParseFile, OpenFile, WritePiece, Stored, StoreFails, ServiceNext
  <1>2. CASE Facilitator
    BY <1>2 DEF Facilitator, ServiceNext
  <1>3. ASSUME NEW d \in Downloads, Ask(d) \/ Send(d) \/ AskAgain(d)
        PROVE  UNCHANGED serviceVars
    BY <1>3 DEF Ask, Send, AskAgain
  <1>4. CASE Crash
    <2>1. OpenCalls \in SUBSET Requests
      BY DEF OpenCalls
    <2> QED BY <1>4, <2>1 DEF Crash, ServiceNext
  <1>5. CASE UNCHANGED vars
    BY <1>5 DEF vars
  <1> QED BY <1>1, <1>2, <1>3, <1>4, <1>5 DEF Next

-----------------------------------------------------------------------------
(* The gate's steps                                                        *)

\* Past the gate, or answered from there.
Inside(u) ==
  pc[u] \in {"parse", "mkdir", "write"} \/ http[u] \in {"stored", "400"}

\* Nobody gets inside but through Settled.
LEMMA EnterPaid ==
  ASSUME GateTypeOK, [Next]_vars, NEW u \in Requests, ~Inside(u), Inside(u)'
  PROVE  call[u] = "yes"
  <1> USE DEF GateTypeOK, Inside, GoTo, Proceed, Answer
  <1>1. ASSUME NEW v \in Requests, Arrive(v) PROVE FALSE
    BY <1>1 DEF Arrive
  <1>2. ASSUME NEW v \in Requests, NotVerified(v) \/ Verified(v) \/ NotSettled(v)
        PROVE  FALSE
    BY <1>2 DEF NotVerified, Verified, NotSettled
  <1>3. ASSUME NEW v \in Requests, Settled(v) PROVE call[u] = "yes"
    BY <1>3 DEF Settled
  <1>4. ASSUME NEW v \in Requests, Store(v) PROVE FALSE
    <2>1. v # u => pc'[u] = pc[u] /\ http'[u] = http[u]
      BY <1>4 DEF Store, ParseFile, OpenFile, WritePiece, Stored, StoreFails
    <2>2. v = u => pc[u] \in {"parse", "mkdir", "write"}
      BY <1>4 DEF Store, ParseFile, OpenFile, WritePiece, Stored, StoreFails
    <2> QED BY <2>1, <2>2
  <1>5. CASE Facilitator
    BY <1>5 DEF Facilitator, uploadVars
  <1>6. ASSUME NEW d \in Downloads, Ask(d) \/ Send(d) \/ AskAgain(d) PROVE FALSE
    BY <1>6 DEF Ask, Send, AskAgain, uploadVars
  <1>7. CASE Crash
    BY <1>7 DEF Crash
  <1>8. CASE UNCHANGED vars
    BY <1>8 DEF vars, uploadVars
  <1> QED
    BY <1>1, <1>2, <1>3, <1>4, <1>5, <1>6, <1>7, <1>8 DEF Next, Gate

LEMMA UploadTypes ==
  ASSUME GateTypeOK, [Next]_vars
  PROVE  /\ pc' \in [Requests -> {"idle", "verify", "settle", "parse", "mkdir", "write", "done"}]
         /\ http' \in [Requests -> {"none", "stored", "402", "400", "500", "cut"}]
  <1> USE DEF GateTypeOK, GoTo, Proceed, Answer
  <1>1. ASSUME NEW v \in Requests, Arrive(v) \/ Gate(v)
        PROVE  /\ pc' \in [Requests -> {"idle", "verify", "settle", "parse", "mkdir", "write", "done"}]
               /\ http' \in [Requests -> {"none", "stored", "402", "400", "500", "cut"}]
    BY <1>1 DEF Arrive, Gate, NotVerified, Verified, NotSettled, Settled
  <1>2. ASSUME NEW v \in Requests, Store(v)
        PROVE  /\ pc' \in [Requests -> {"idle", "verify", "settle", "parse", "mkdir", "write", "done"}]
               /\ http' \in [Requests -> {"none", "stored", "402", "400", "500", "cut"}]
    BY <1>2 DEF Store, ParseFile, OpenFile, WritePiece, Stored, StoreFails
  <1>3. CASE Facilitator
    BY <1>3 DEF Facilitator, uploadVars
  <1>4. ASSUME NEW d \in Downloads, Ask(d) \/ Send(d) \/ AskAgain(d)
        PROVE  pc' = pc /\ http' = http
    BY <1>4 DEF Ask, Send, AskAgain, uploadVars
  <1>5. CASE Crash
    BY <1>5 DEF Crash
  <1>6. CASE UNCHANGED vars
    BY <1>6 DEF vars, uploadVars
  <1> QED BY <1>1, <1>2, <1>3, <1>4, <1>5, <1>6 DEF Next

-----------------------------------------------------------------------------
\* "payment is confirmed on-chain BEFORE the route handler runs"
\* (payment-gate.ts:5-6): the upload handler reads a body, touches the disk
\* and answers past the gate only for a transaction on the chain.
THEOREM PaidBeforeExecution == Spec => []SettleBeforeExecution
  <1>1. Init => IInv
    BY DEF Init, ServiceInit, IInv, GateTypeOK, YesIsPaid, SettleBeforeExecution
  <1>2. IInv /\ [Next]_vars => IInv'
    <2> SUFFICES ASSUME IInv, [Next]_vars PROVE IInv'
      OBVIOUS
    <2>1. /\ tx' = tx
          /\ call' \in [Requests -> {"none", "open", "yes", "no"}]
          /\ paid' \in [Txs -> BOOLEAN]
          /\ \A t \in Txs : paid[t] => paid'[t]
          /\ YesIsPaid'
      BY NextIsServiceStep, ServiceStep DEF IInv
    <2>2. GateTypeOK'
      BY <2>1, UploadTypes DEF IInv, GateTypeOK
    <2>3. SettleBeforeExecution'
      <3> SUFFICES ASSUME NEW u \in Requests, Inside(u)' PROVE paid'[tx'[u]]
        BY DEF SettleBeforeExecution, Inside
      <3>1. paid[tx[u]]
        <4>1. CASE Inside(u)
          BY <4>1 DEF IInv, SettleBeforeExecution, Inside
        <4>2. CASE ~Inside(u)
          BY <4>2, EnterPaid DEF IInv, YesIsPaid
        <4> QED BY <4>1, <4>2
      <3>2. tx[u] \in Txs
        BY DEF IInv, GateTypeOK
      <3> QED BY <2>1, <3>1, <3>2
    <2> QED BY <2>1, <2>2, <2>3 DEF IInv
  <1>3. IInv => SettleBeforeExecution
    BY DEF IInv
  <1> QED BY <1>1, <1>2, <1>3, PTL DEF Spec

-----------------------------------------------------------------------------
(* The files                                                               *)

\* What is being written, and what was stored, has a file.
HasFile ==
  \A u \in Requests : pc[u] = "write" \/ http[u] = "stored" => content[u] \in made

\* Who opened the file last finds in it what it has written since, unless it
\* was done: then the file is whole.
Covered ==
  \A c \in made :
    (\A u \in Requests : content[u] = c => http[u] \notin {"500", "cut"}) =>
      \/ held[c] = Whole
      \/ \E u \in Requests : content[u] = c /\ pc[u] = "write" /\ 1..written[u] \subseteq held[c]

\* An answer is given once, at the end.
Answered == \A u \in Requests : http[u] # "none" => pc[u] = "done"

FileInv == TypeOK /\ HasFile /\ Covered /\ Answered

LEMMA FileInit == Init => FileInv
  <1> SUFFICES ASSUME Init PROVE FileInv
    OBVIOUS
  <1>1. TypeOK
    BY UploadAssumption DEF Init, TypeOK, ServiceInit, ServiceTypeOK, Whole
  <1> QED BY <1>1 DEF Init, FileInv, HasFile, Covered, Answered

\* Steps of one upload that leave the files alone: none but Stored ends a
\* write without an error.
LEMMA FilesAlone ==
  ASSUME FileInv, [Next]_vars,
         UNCHANGED <<content, written, made, held>>,
         \A u \in Requests : /\ pc[u] = "done" => pc'[u] = "done" /\ http'[u] = http[u]
                             /\ pc'[u] = "write" => pc[u] = "write"
                             /\ http'[u] # "none" => pc'[u] = "done"
                             /\ http'[u] = "stored" => \/ http[u] = "stored"
                                                       \/ pc[u] = "write" /\ written[u] = Pieces
                             /\ pc[u] = "write" =>
                                  pc'[u] = "write" \/ http'[u] \in {"500", "cut"}
                                  \/ (pc'[u] = "done" /\ written[u] = Pieces)
  PROVE  HasFile' /\ Covered' /\ Answered'
  <1> USE DEF FileInv
  <1>1. HasFile'
    BY DEF HasFile
  <1>2. Answered'
    BY DEF Answered
  <1>3. Covered'
    <2> SUFFICES ASSUME NEW c \in made,
                        \A u \in Requests : content[u] = c => http'[u] \notin {"500", "cut"}
                 PROVE  \/ held[c] = Whole
                        \/ \E u \in Requests : content[u] = c /\ pc'[u] = "write"
                                               /\ 1..written[u] \subseteq held[c]
      BY DEF Covered
    <2>1. \A u \in Requests : content[u] = c => http[u] \notin {"500", "cut"}
      BY DEF Answered
    <2>2. CASE held[c] = Whole
      BY <2>2
    <2>3. CASE \E u \in Requests : content[u] = c /\ pc[u] = "write" /\ 1..written[u] \subseteq held[c]
      <3>1. PICK u \in Requests : content[u] = c /\ pc[u] = "write" /\ 1..written[u] \subseteq held[c]
        BY <2>3
      <3>2. CASE pc'[u] = "write"
        BY <3>1, <3>2
      <3>3. CASE written[u] = Pieces
        <4>1. held[c] \subseteq Whole
          BY DEF TypeOK
        <4> QED BY <3>1, <3>3, <4>1 DEF Whole
      <3> QED BY <3>1, <3>2, <3>3
    <2> QED BY <2>1, <2>2, <2>3 DEF Covered
  <1> QED BY <1>1, <1>2, <1>3

\* The types of all variables but those of the gate, which UploadTypes has.
LEMMA FileTypes ==
  ASSUME TypeOK, [Next]_vars
  PROVE  TypeOK'
  <1> USE DEF TypeOK, ServiceTypeOK
  <1>1. /\ tx' = tx /\ call' \in [Requests -> {"none", "open", "yes", "no"}]
        /\ paid' \in [Txs -> BOOLEAN]
    <2>1. ASSUME NEW r \in Requests, Open(r) \/ Succeed(r)
          PROVE  /\ tx' = tx /\ paid' = paid /\ call' \in [Requests -> {"none", "open", "yes", "no"}]
      BY <2>1 DEF Open, Succeed
    <2>2. ASSUME NEW calls \in SUBSET Requests, EndWithout(calls)
          PROVE  /\ tx' = tx /\ paid' = paid /\ call' \in [Requests -> {"none", "open", "yes", "no"}]
      BY <2>2 DEF EndWithout
    <2>3. ASSUME NEW t \in Txs, Land(t)
          PROVE  /\ tx' = tx /\ call' = call /\ paid' \in [Txs -> BOOLEAN]
      BY <2>3 DEF Land
    <2>4. CASE UNCHANGED serviceVars
      BY <2>4 DEF serviceVars
    <2> QED BY <2>1, <2>2, <2>3, <2>4, NextIsServiceStep DEF ServiceNext
  <1>2. /\ pc' \in [Requests -> {"idle", "verify", "settle", "parse", "mkdir", "write", "done"}]
        /\ http' \in [Requests -> {"none", "stored", "402", "400", "500", "cut"}]
    BY UploadTypes DEF GateTypeOK
  <1>3. /\ content' = content /\ want' = want
        /\ written' \in [Requests -> 0..Pieces] /\ made' \subseteq Contents
        /\ held' \in [Contents -> SUBSET Whole]
        /\ get' \in [Downloads -> {"idle", "get", "200", "404", "cut"}]
        /\ body' \in [Downloads -> SUBSET Whole] /\ unread' \subseteq Downloads
    <2>1. ASSUME NEW u \in Requests, Arrive(u) \/ Gate(u) \/ ParseFile(u) \/ Stored(u) \/ StoreFails(u)
          PROVE  UNCHANGED <<content, written, files, downloadVars>>
      BY <2>1 DEF Arrive, Gate, NotVerified, Verified, Settled, NotSettled, ParseFile, Stored,
                  StoreFails
    <2>2. ASSUME NEW u \in Requests, OpenFile(u)
          PROVE  /\ content' = content /\ written' \in [Requests -> 0..Pieces]
                 /\ made' \subseteq Contents /\ held' \in [Contents -> SUBSET Whole]
                 /\ UNCHANGED downloadVars
      BY <2>2, UploadAssumption DEF OpenFile
    <2>3. ASSUME NEW u \in Requests, WritePiece(u)
          PROVE  /\ content' = content /\ written' \in [Requests -> 0..Pieces]
                 /\ made' = made /\ held' \in [Contents -> SUBSET Whole]
                 /\ UNCHANGED downloadVars
      <3>1. /\ written[u] < Pieces /\ written' = [written EXCEPT ![u] = written[u] + 1]
            /\ held' = [held EXCEPT ![content[u]] = held[content[u]] \cup {written'[u]}]
            /\ content' = content /\ made' = made /\ UNCHANGED downloadVars
        BY <2>3 DEF WritePiece
      <3>2. written[u] + 1 \in 1..Pieces
        BY <3>1, UploadAssumption
      <3>3. written' \in [Requests -> 0..Pieces] /\ written'[u] \in Whole
        BY <3>1, <3>2 DEF Whole
      <3>4. held[content[u]] \cup {written'[u]} \in SUBSET Whole
        BY <3>3
      <3> QED BY <3>1, <3>3, <3>4
    <2>4. ASSUME NEW d \in Downloads, Ask(d) \/ Send(d) \/ AskAgain(d)
          PROVE  /\ UNCHANGED <<uploadVars, files, want>>
                 /\ get' \in [Downloads -> {"idle", "get", "200", "404", "cut"}]
                 /\ body' \in [Downloads -> SUBSET Whole] /\ unread' \subseteq Downloads
      <3>1. UNCHANGED <<uploadVars, files, want>> /\ unread' \subseteq Downloads
        BY <2>4 DEF Ask, Send, AskAgain, CannotRead
      <3>2. get' \in [Downloads -> {"idle", "get", "200", "404", "cut"}]
        BY <2>4 DEF Ask, Send, AskAgain, CannotRead
      <3>3. body' \in [Downloads -> SUBSET Whole]
        <4>1. held[want[d]] \in SUBSET Whole /\ {} \in SUBSET Whole
          OBVIOUS
        <4>2. CASE Ask(d)
          BY <4>2 DEF Ask
        <4>3. CASE Send(d)
          BY <4>1, <4>3 DEF Send
        <4>4. CASE AskAgain(d)
          BY <4>1, <4>4 DEF AskAgain
        <4> QED BY <2>4, <4>2, <4>3, <4>4
      <3> QED BY <3>1, <3>2, <3>3
    <2>5. CASE Facilitator
      BY <2>5 DEF Facilitator, uploadVars, files, downloadVars
    <2>6. CASE Crash
      BY <2>6 DEF Crash, files
    <2>7. CASE UNCHANGED vars
      BY <2>7 DEF vars, uploadVars, files, downloadVars
    <2>8. CASE \E u \in Requests : Arrive(u) \/ Gate(u) \/ ParseFile(u) \/ Stored(u) \/ StoreFails(u)
      BY <2>1, <2>8 DEF files, downloadVars
    <2>9. CASE \E u \in Requests : OpenFile(u) \/ WritePiece(u)
      BY <2>2, <2>3, <2>9 DEF downloadVars
    <2>10. CASE \E d \in Downloads : Ask(d) \/ Send(d) \/ AskAgain(d)
      BY <2>4, <2>10 DEF uploadVars, files
    <2> QED BY <2>5, <2>6, <2>7, <2>8, <2>9, <2>10 DEF Next, Store
  <1> QED BY <1>1, <1>2, <1>3

LEMMA FileNext == FileInv /\ [Next]_vars => FileInv'
  <1> SUFFICES ASSUME FileInv, [Next]_vars PROVE FileInv'
    OBVIOUS
  <1> USE DEF FileInv
  <1>1. TypeOK'
    BY FileTypes
  <1>2. ASSUME NEW u \in Requests,
               Arrive(u) \/ Gate(u) \/ ParseFile(u) \/ Stored(u) \/ StoreFails(u)
        PROVE  HasFile' /\ Covered' /\ Answered'
    <2>1. UNCHANGED <<content, written, made, held>>
      BY <1>2 DEF Arrive, Gate, NotVerified, Verified, Settled, NotSettled, ParseFile, Stored,
                  StoreFails, files
    <2>2. /\ \A v \in Requests \ {u} : pc'[v] = pc[v] /\ http'[v] = http[v]
          /\ pc[u] # "done" /\ pc'[u] # "write"
          /\ pc'[u] = "done" \/ http' = http
          /\ http'[u] = "stored" => pc[u] = "write" /\ written[u] = Pieces
          /\ pc[u] = "write" => pc'[u] = "done" /\ (http'[u] = "500" \/ written[u] = Pieces)
      BY <1>2 DEF Arrive, Gate, NotVerified, Verified, Settled, NotSettled, ParseFile, Stored,
                  StoreFails, Proceed, Answer, GoTo, TypeOK, Answered
    <2>3. \A v \in Requests :
            /\ pc[v] = "done" => pc'[v] = "done" /\ http'[v] = http[v]
            /\ pc'[v] = "write" => pc[v] = "write"
            /\ http'[v] # "none" => pc'[v] = "done"
            /\ http'[v] = "stored" => \/ http[v] = "stored"
                                      \/ pc[v] = "write" /\ written[v] = Pieces
            /\ pc[v] = "write" => pc'[v] = "write" \/ http'[v] \in {"500", "cut"}
                                  \/ (pc'[v] = "done" /\ written[v] = Pieces)
      BY <2>2 DEF Answered
    <2> QED BY <2>1, <2>3, FilesAlone
  <1>3. ASSUME NEW u \in Requests, OpenFile(u)
        PROVE  HasFile' /\ Covered' /\ Answered'
    <2>1. /\ pc[u] = "mkdir" /\ pc' = [pc EXCEPT ![u] = "write"] /\ http' = http
          /\ made' = made \cup {content[u]} /\ held' = [held EXCEPT ![content[u]] = {}]
          /\ written' = [written EXCEPT ![u] = 0] /\ content' = content
          /\ content[u] \in Contents
      BY <1>3 DEF OpenFile, Proceed, GoTo, TypeOK
    <2>2. HasFile'
      BY <2>1 DEF HasFile, TypeOK
    <2>3. Answered'
      BY <2>1 DEF Answered, TypeOK
    <2>4. Covered'
      <3> SUFFICES ASSUME NEW c \in made',
                          \A v \in Requests : content[v] = c => http[v] \notin {"500", "cut"}
                   PROVE  \/ held'[c] = Whole
                          \/ \E v \in Requests : content[v] = c /\ pc'[v] = "write"
                                                 /\ 1..written'[v] \subseteq held'[c]
        BY <2>1 DEF Covered
      <3>1. CASE c = content[u]
        <4>1. 1..written'[u] = {} /\ pc'[u] = "write"
          BY <2>1 DEF TypeOK
        <4> QED BY <3>1, <4>1
      <3>2. CASE c # content[u]
        <4>1. c \in made /\ held'[c] = held[c]
          BY <2>1, <3>2 DEF TypeOK
        <4>2. \A v \in Requests : content[v] = c => pc'[v] = pc[v] /\ written'[v] = written[v]
          BY <2>1, <3>2 DEF TypeOK
        <4> QED BY <4>1, <4>2 DEF Covered
      <3> QED BY <3>1, <3>2
    <2> QED BY <2>2, <2>3, <2>4
  <1>4. ASSUME NEW u \in Requests, WritePiece(u)
        PROVE  HasFile' /\ Covered' /\ Answered'
    <2>1. /\ pc[u] = "write" /\ written' = [written EXCEPT ![u] = written[u] + 1]
          /\ held' = [held EXCEPT ![content[u]] = held[content[u]] \cup {written'[u]}]
          /\ UNCHANGED <<content, pc, http, made>> /\ content[u] \in Contents
          /\ written[u] \in Nat
      BY <1>4, UploadAssumption DEF WritePiece, TypeOK
    <2>2. HasFile' /\ Answered'
      BY <2>1 DEF HasFile, Answered
    <2>3. \A c \in Contents : held[c] \subseteq held'[c]
      BY <2>1 DEF TypeOK
    <2>4. \A v \in Requests : content[v] \in Contents /\
            (1..written[v] \subseteq held[content[v]] => 1..written'[v] \subseteq held'[content[v]])
      <3> SUFFICES ASSUME NEW v \in Requests, 1..written[v] \subseteq held[content[v]]
                   PROVE  1..written'[v] \subseteq held'[content[v]]
        BY DEF TypeOK
      <3>1. content[v] \in Contents
        BY DEF TypeOK
      <3>2. CASE v = u
        <4>1. written'[u] = written[u] + 1 /\ written'[u] \in held'[content[u]]
          BY <2>1 DEF TypeOK
        <4>2. 1..written'[u] = (1..written[u]) \cup {written'[u]}
          BY <2>1, <4>1
        <4> QED BY <2>3, <3>1, <3>2, <4>1, <4>2
      <3>3. CASE v # u
        <4>1. written'[v] = written[v]
          BY <2>1, <3>3
        <4> QED BY <2>3, <3>1, <4>1
      <3> QED BY <3>2, <3>3
    <2>5. \A c \in made : held[c] = Whole => held'[c] = Whole
      BY <1>1, <2>1, <2>3 DEF TypeOK
    <2>6. Covered'
      BY <2>1, <2>4, <2>5 DEF Covered
    <2> QED BY <2>2, <2>6
  <1>5. CASE Facilitator \/ UNCHANGED vars \/ \E d \in Downloads : Ask(d) \/ Send(d) \/ AskAgain(d)
    <2>1. UNCHANGED <<content, pc, written, http, made, held>>
      BY <1>5 DEF Facilitator, Ask, Send, AskAgain, vars, uploadVars, files
    <2> QED BY <1>1, <2>1 DEF HasFile, Covered, Answered
  <1>6. CASE Crash
    <2>1. /\ pc' = [u \in Requests |-> IF pc[u] = "idle" THEN "idle" ELSE "done"]
          /\ http' = [u \in Requests |-> IF pc[u] \in {"idle", "done"} THEN http[u] ELSE "cut"]
          /\ UNCHANGED <<content, written, made, held>>
      BY <1>6 DEF Crash, files
    <2>2. \A u \in Requests :
            /\ pc[u] = "done" => pc'[u] = "done" /\ http'[u] = http[u]
            /\ pc'[u] \in {"idle", "done"}
            /\ http'[u] # "none" => pc'[u] = "done"
            /\ http'[u] = "stored" => http[u] = "stored"
            /\ pc[u] = "write" => http'[u] = "cut"
      BY <2>1 DEF Answered
    <2>3. \A v \in Requests :
            /\ pc[v] = "done" => pc'[v] = "done" /\ http'[v] = http[v]
            /\ pc'[v] = "write" => pc[v] = "write"
            /\ http'[v] # "none" => pc'[v] = "done"
            /\ http'[v] = "stored" => \/ http[v] = "stored"
                                      \/ pc[v] = "write" /\ written[v] = Pieces
            /\ pc[v] = "write" => pc'[v] = "write" \/ http'[v] \in {"500", "cut"}
                                  \/ (pc'[v] = "done" /\ written[v] = Pieces)
      BY <2>2
    <2>4. UNCHANGED <<content, written, made, held>>
      BY <2>1
    <2>5. HasFile' /\ Covered' /\ Answered'
      BY <2>3, <2>4, FilesAlone
    <2> QED BY <1>1, <2>5
  <1> QED BY <1>1, <1>2, <1>3, <1>4, <1>5, <1>6 DEF Next, Store

LEMMA FileInvariant == Spec => []FileInv
  BY FileInit, FileNext, PTL DEF Spec

\* Every variable keeps its type.
THEOREM TypeCorrect == Spec => []TypeOK
  <1>1. FileInv => TypeOK
    BY DEF FileInv
  <1> QED BY <1>1, FileInvariant, PTL

\* Uploads of one content that truncate and overwrite each other leave it
\* whole, unless one of them failed or was cut (fs-backend.ts:24-25).
THEOREM FilesAreWhole == Spec => []WholeAtRest
  <1>1. FileInv => WholeAtRest
    BY DEF FileInv, Covered, WholeAtRest
  <1> QED BY <1>1, FileInvariant, PTL

\* No file a request was answered the identifier of goes away: a download of
\* it is answered 404 only when the disk fails under that download
\* (fs-backend.ts:21-27, :36-40, :49-54, download.ts).
THEOREM StoredIsFound == Spec => StoredStaysFound
  <1>1. ASSUME FileInv, [Next]_vars
        PROVE  [\A d \in Downloads :
                  get[d] \in {"idle", "get"} /\ get'[d] = "404"
                    => \/ d \in unread'
                       \/ ~ \E u \in Requests : content[u] = want[d] /\ http[u] = "stored"]_vars
    <2> SUFFICES ASSUME NEW d \in Downloads, get[d] \in {"idle", "get"}, get'[d] = "404"
                 PROVE  d \in unread' \/ want[d] \notin made
      BY <1>1 DEF FileInv, HasFile
    <2>1. ASSUME NEW e \in Downloads, Ask(e) \/ Send(e)
          PROVE  d \in unread' \/ want[d] \notin made
      <3>1. get \in [Downloads -> {"idle", "get", "200", "404", "cut"}]
        BY <1>1 DEF FileInv, TypeOK
      <3>2. e = d
        BY <2>1, <3>1 DEF Ask, Send, CannotRead
      <3>3. CASE CannotRead(e)
        BY <3>2, <3>3 DEF CannotRead
      <3>4. CASE ~CannotRead(e)
        BY <2>1, <3>1, <3>2, <3>4 DEF Ask, Send
      <3> QED BY <3>3, <3>4
    <2>2. get' # get
      OBVIOUS
    <2>3. ~UNCHANGED vars /\ ~Facilitator /\ ~Crash
      BY <1>1, <2>2 DEF vars, downloadVars, Facilitator, Crash, FileInv, TypeOK
    <2>4. ASSUME NEW u \in Requests, Arrive(u) \/ Gate(u) \/ Store(u) PROVE FALSE
      BY <2>2, <2>4 DEF Arrive, Gate, NotVerified, Verified, Settled, NotSettled, Store, ParseFile,
                        OpenFile, WritePiece, Stored, StoreFails, downloadVars
    <2>5. ASSUME NEW e \in Downloads, AskAgain(e) PROVE FALSE
      BY <1>1, <2>5 DEF AskAgain, FileInv, TypeOK
    <2> QED BY <1>1, <2>1, <2>3, <2>4, <2>5 DEF Next
  <1> QED BY <1>1, FileInvariant, PTL DEF Spec, StoredStaysFound

=============================================================================
