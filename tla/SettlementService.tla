-------------------------- MODULE SettlementService --------------------------
(***************************************************************************)
(* What POST /settle promises its callers, whatever fails behind it.       *)
(*                                                                         *)
(* A call stays open until it is answered, with success or without.  Every *)
(* failure looks the same from here: a reason in the answer, an HTTP 500,  *)
(* a connection that is cut.  A transaction gets on the chain only after a *)
(* call has asked for it, and success is only answered when it is there.   *)
(* What is not promised: that a transaction for which a call ended without *)
(* success stays off the chain.                                            *)
(***************************************************************************)
CONSTANTS Requests, Txs

VARIABLES
  tx,     \* the transaction of each call
  call,   \* "none", "open", "yes" (success), "no" (anything else)
  paid    \* TRUE when the transaction is on the chain

serviceVars == <<tx, call, paid>>

ServiceTypeOK ==
  /\ tx \in [Requests -> Txs]
  /\ call \in [Requests -> {"none", "open", "yes", "no"}]
  /\ paid \in [Txs -> BOOLEAN]

ServiceInit ==
  /\ tx \in [Requests -> Txs]
  /\ call = [r \in Requests |-> "none"]
  /\ paid = [t \in Txs |-> FALSE]

OpenCalls == {r \in Requests : call[r] = "open"}

Open(r) ==
  /\ call[r] = "none"
  /\ call' = [call EXCEPT ![r] = "open"]
  /\ UNCHANGED <<tx, paid>>

Succeed(r) ==
  /\ call[r] = "open"
  /\ paid[tx[r]]
  /\ call' = [call EXCEPT ![r] = "yes"]
  /\ UNCHANGED <<tx, paid>>

\* One call, or all that a crash cuts.
EndWithout(calls) ==
  /\ calls # {} /\ calls \subseteq OpenCalls
  /\ call' = [r \in Requests |-> IF r \in calls THEN "no" ELSE call[r]]
  /\ UNCHANGED <<tx, paid>>

Land(t) ==
  /\ ~paid[t]
  /\ \E r \in Requests : tx[r] = t /\ call[r] # "none"
  /\ paid' = [paid EXCEPT ![t] = TRUE]
  /\ UNCHANGED <<tx, call>>

ServiceNext ==
  \/ \E r \in Requests : Open(r) \/ Succeed(r)
  \/ \E calls \in SUBSET Requests : EndWithout(calls)
  \/ \E t \in Txs : Land(t)

ServiceSpec == ServiceInit /\ [][ServiceNext]_serviceVars

\* Every open call is answered.
Ends(r) == Succeed(r) \/ \E calls \in SUBSET Requests : r \in calls /\ EndWithout(calls)
FairServiceSpec == ServiceSpec /\ \A r \in Requests : WF_serviceVars(Ends(r))

=============================================================================
