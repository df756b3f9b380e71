----------------------------- MODULE PaidUpload -----------------------------
(***************************************************************************)
(* POST /upload behind the payment gate, and GET /files/:cid.              *)
(*                                                                         *)
(* An upload runs the gate of src/sdk/payment-gate.ts inside the handler   *)
(* of src/routes/upload.ts: verify and settle through FacilitatorClient,   *)
(* which gives up on a call after its own time-out while the facilitator,  *)
(* the same process, goes on with it; then the file is stored by FsBackend *)
(* (src/storage/fs-backend.ts).  The facilitator's side of the calls is    *)
(* the one SettlementService promises, and each upload makes one call.     *)
(*                                                                         *)
(* A file is named by the hash of its content, so uploads of one content   *)
(* write one file.  writeFile truncates it and writes it piece by piece;   *)
(* of a file the model keeps the pieces it holds.  A read is one step,     *)
(* although readFile too may be overtaken.                                 *)
(***************************************************************************)
EXTENDS SettlementService, Naturals

CONSTANTS
  Contents,    \* what is uploaded; also the content identifiers
  Downloads,   \* the GET /files/:cid calls
  Pieces,      \* writes it takes to write a file
  Faults       \* the faults that may occur, of those named below

ASSUME UploadAssumption ==
  /\ Pieces \in Nat \ {0}
  /\ Faults \subseteq {"crash",   \* the process dies and is restarted
                       "disk"}    \* mkdir, a write, an access or a read fails

VARIABLES
  content,   \* the content of each upload
  pc,        \* what the upload waits for
  written,   \* the pieces it has written
  http,      \* the answer to it
  made,      \* content identifiers that have a file
  held,      \* the pieces each file holds
  want,      \* the content identifier each download asks for
  get,       \* what it waits for, or the status it was answered
  body,      \* the pieces it was sent
  unread     \* history: the downloads of a file that could not be read

uploadVars == <<content, pc, written, http>>
files == <<made, held>>
downloadVars == <<want, get, body, unread>>
vars == <<serviceVars, uploadVars, files, downloadVars>>

Whole == 1..Pieces

TypeOK ==
  /\ ServiceTypeOK
  /\ content \in [Requests -> Contents]
  /\ pc \in [Requests -> {"idle", "verify", "settle", "parse", "mkdir", "write", "done"}]
  /\ written \in [Requests -> 0..Pieces]
  /\ http \in [Requests -> {"none", "stored", "402", "400", "500", "cut"}]
  /\ made \subseteq Contents
  /\ held \in [Contents -> SUBSET Whole]
  /\ want \in [Downloads -> Contents]
  /\ get \in [Downloads -> {"idle", "get", "200", "404", "cut"}]
  /\ body \in [Downloads -> SUBSET Whole]
  /\ unread \subseteq Downloads

Init ==
  /\ ServiceInit
  /\ content \in [Requests -> Contents]
  /\ pc = [u \in Requests |-> "idle"]
  /\ written = [u \in Requests |-> 0]
  /\ http = [u \in Requests |-> "none"]
  /\ made = {}
  /\ held = [c \in Contents |-> {}]
  /\ want \in [Downloads -> Contents]
  /\ get = [d \in Downloads |-> "idle"]
  /\ body = [d \in Downloads |-> {}]
  /\ unread = {}

-----------------------------------------------------------------------------
(* The payment gate                                                        *)

GoTo(u, point) == pc' = [pc EXCEPT ![u] = point]
Proceed(u, point) == GoTo(u, point) /\ UNCHANGED http

Answer(u, status) ==
  /\ GoTo(u, "done")
  /\ http' = [http EXCEPT ![u] = status]

\* The upload arrives; without a header that decodes it is answered 402, and
\* 500 when the facilitator's address cannot be had.
Arrive(u) ==
  /\ pc[u] = "idle"
  /\ Proceed(u, "verify") \/ Answer(u, "402") \/ Answer(u, "500")
  /\ UNCHANGED <<serviceVars, content, written, files, downloadVars>>

\* POST /verify says invalid, or the call fails or times out.
NotVerified(u) ==
  /\ pc[u] = "verify"
  /\ Answer(u, "402")
  /\ UNCHANGED <<serviceVars, content, written, files, downloadVars>>

\* POST /verify says valid: call POST /settle.
Verified(u) ==
  /\ pc[u] = "verify"
  /\ Open(u)
  /\ Proceed(u, "settle")
  /\ UNCHANGED <<content, written, files, downloadVars>>

\* Mutant: the gate does not look at `success`.
SettledAnyhow(u) ==
  /\ pc[u] = "settle"
  /\ call[u] \in {"yes", "no"}
  /\ Proceed(u, "parse")
  /\ UNCHANGED <<serviceVars, content, written, files, downloadVars>>

\* The answer is success: the handler goes on.
Settled(u) ==
  /\ pc[u] = "settle"
  /\ call[u] = "yes"
  /\ Proceed(u, "parse")
  /\ UNCHANGED <<serviceVars, content, written, files, downloadVars>>

\* Mutant: the client has no time-out.
NotSettledWaiting(u) ==
  /\ pc[u] = "settle"
  /\ call[u] = "no"
  /\ Answer(u, "402")
  /\ UNCHANGED <<serviceVars, content, written, files, downloadVars>>

\* The answer is a refusal; or the client's time-out comes first, whatever
\* the facilitator is doing or has answered.
NotSettled(u) ==
  /\ pc[u] = "settle"
  /\ Answer(u, "402")
  /\ UNCHANGED <<serviceVars, content, written, files, downloadVars>>

\* The facilitator, on its own.
Facilitator ==
  /\ \/ \E r \in Requests : Succeed(r) \/ EndWithout({r})
     \/ \E t \in Txs : Land(t)
  /\ UNCHANGED <<uploadVars, files, downloadVars>>

-----------------------------------------------------------------------------
(* Storing the file                                                        *)

\* The body is read only now.
ParseFile(u) ==
  /\ pc[u] = "parse"
  /\ Proceed(u, "mkdir") \/ Answer(u, "400")
  /\ UNCHANGED <<serviceVars, content, written, files, downloadVars>>

\* writeFile opens the file: created, or truncated.
OpenFile(u) ==
  /\ pc[u] = "mkdir"
  /\ made' = made \cup {content[u]}
  /\ held' = [held EXCEPT ![content[u]] = {}]
  /\ written' = [written EXCEPT ![u] = 0]
  /\ Proceed(u, "write")
  /\ UNCHANGED <<serviceVars, content, downloadVars>>

WritePiece(u) ==
  /\ pc[u] = "write"
  /\ written[u] < Pieces
  /\ written' = [written EXCEPT ![u] = @ + 1]
  /\ held' = [held EXCEPT ![content[u]] = @ \cup {written'[u]}]
  /\ UNCHANGED <<serviceVars, content, pc, http, made, downloadVars>>

\* Mutant: put() returns while the last piece is on its way.
StoredEarly(u) ==
  /\ pc[u] = "write"
  /\ written[u] + 1 >= Pieces
  /\ Answer(u, "stored")
  /\ UNCHANGED <<serviceVars, content, written, files, downloadVars>>

Stored(u) ==
  /\ pc[u] = "write"
  /\ written[u] = Pieces
  /\ Answer(u, "stored")
  /\ UNCHANGED <<serviceVars, content, written, files, downloadVars>>

\* Mutant: put() removes what it could not write.
StoreFailsClean(u) ==
  /\ "disk" \in Faults
  /\ pc[u] \in {"mkdir", "write"}
  /\ Answer(u, "500")
  /\ made' = made \ {content[u]}
  /\ UNCHANGED <<serviceVars, content, written, held, downloadVars>>

\* mkdir, open or a write fails; what is written stays.
StoreFails(u) ==
  /\ "disk" \in Faults
  /\ pc[u] \in {"mkdir", "write"}
  /\ Answer(u, "500")
  /\ UNCHANGED <<serviceVars, content, written, files, downloadVars>>

-----------------------------------------------------------------------------
(* Downloads                                                               *)

\* access() or readFile() of a file that is there fails: has() answers false
\* and get() null, as for one that is not there.
CannotRead(d) ==
  /\ "disk" \in Faults
  /\ want[d] \in made
  /\ get' = [get EXCEPT ![d] = "404"]
  /\ unread' = unread \cup {d}

\* has()
Ask(d) ==
  /\ get[d] = "idle"
  /\ \/ /\ get' = [get EXCEPT ![d] = IF want[d] \in made THEN "get" ELSE "404"]
        /\ UNCHANGED unread
     \/ CannotRead(d)
  /\ UNCHANGED <<serviceVars, uploadVars, files, want, body>>

\* get()
Send(d) ==
  /\ get[d] = "get"
  /\ \/ /\ want[d] \in made
        /\ get' = [get EXCEPT ![d] = "200"]
        /\ body' = [body EXCEPT ![d] = held[want[d]]]
        /\ UNCHANGED unread
     \/ /\ want[d] \notin made
        /\ get' = [get EXCEPT ![d] = "404"]
        /\ UNCHANGED <<body, unread>>
     \/ CannotRead(d) /\ UNCHANGED body
  /\ UNCHANGED <<serviceVars, uploadVars, files, want>>

\* A client asks once more.
AskAgain(d) ==
  /\ get[d] \notin {"idle", "get"}
  /\ get' = [get EXCEPT ![d] = "idle"]
  /\ body' = [body EXCEPT ![d] = {}]
  /\ unread' = unread \ {d}
  /\ UNCHANGED <<serviceVars, uploadVars, files, want>>

-----------------------------------------------------------------------------
\* The process ends, the facilitator with it; files stay as they are.
Crash ==
  /\ "crash" \in Faults
  /\ \E u \in Requests : pc[u] \notin {"idle", "done"} \/ call[u] = "open"
  /\ \/ EndWithout(OpenCalls)
     \/ OpenCalls = {} /\ UNCHANGED serviceVars
  /\ pc' = [u \in Requests |-> IF pc[u] = "idle" THEN "idle" ELSE "done"]
  /\ http' = [u \in Requests |->
                IF pc[u] \in {"idle", "done"} THEN http[u] ELSE "cut"]
  /\ get' = [d \in Downloads |-> IF get[d] = "get" THEN "cut" ELSE get[d]]
  /\ UNCHANGED <<content, written, files, want, body, unread>>

Gate(u) ==
  NotVerified(u) \/ Verified(u) \/ Settled(u) \/ NotSettled(u)
Store(u) ==
  ParseFile(u) \/ OpenFile(u) \/ WritePiece(u) \/ Stored(u) \/ StoreFails(u)

Next ==
  \/ \E u \in Requests : Arrive(u) \/ Gate(u) \/ Store(u)
  \/ Facilitator
  \/ \E d \in Downloads : Ask(d) \/ Send(d) \/ AskAgain(d)
  \/ Crash

Spec == Init /\ [][Next]_vars

\* Calls time out and file operations end.
FairSpec == Spec /\ \A u \in Requests : WF_vars(Gate(u) \/ Store(u))

-----------------------------------------------------------------------------
(* Properties                                                              *)

\* "payment is confirmed on-chain BEFORE the route handler runs"
\* (payment-gate.ts:5-6, SECU-04): what upload.ts does past the gate, the
\* reading of the body and every touch of the disk, is done for a
\* transaction that is on the chain.
SettleBeforeExecution ==
  \A u \in Requests :
    pc[u] \in {"parse", "mkdir", "write"} \/ http[u] \in {"stored", "400"}
      => paid[tx[u]]

\* An upload that was answered a content identifier is found under it from
\* then on, whoever else uploads, fails or crashes: a download of it is told
\* "Content not found" only if the disk failed under that download itself,
\* and never for what became of the file (fs-backend.ts:21-27; get:36-40 and
\* has:49-54 answer every error as not found, download.ts:44-60).
StoredStaysFound ==
  [][\A d \in Downloads :
       get[d] \in {"idle", "get"} /\ get'[d] = "404"
         => \/ d \in unread'
            \/ ~ \E u \in Requests : content[u] = want[d] /\ http[u] = "stored"]_vars

\* Uploads of one content truncate and overwrite each other and still leave
\* it whole: a file nobody is writing has all its pieces, unless the write
\* of one upload failed or was cut (fs-backend.ts:24-25).
WholeAtRest ==
  \A c \in made :
    (\A u \in Requests :
       content[u] = c => pc[u] # "write" /\ http[u] \notin {"500", "cut"})
      => held[c] = Whole

\* Every upload is answered, although the facilitator may not be done.
EveryUploadAnswered == \A u \in Requests : pc[u] # "idle" ~> pc[u] = "done"

=============================================================================
