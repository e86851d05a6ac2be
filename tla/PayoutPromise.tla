----------------------------- MODULE PayoutPromise -----------------------------
(***************************************************************************)
(* What the PI earnings payout promises for each request, however it is    *)
(* carried out: the gross amount is held when the request is accepted, it  *)
(* is settled only after Pi was asked to transfer and did, it is released  *)
(* only if no transfer was made, and never both.                           *)
(***************************************************************************)
CONSTANT Requests

VARIABLES
  phase,        \* phase[r]: what has become of the money of r
  sent          \* sent[r]: Pi has transferred the payout of r

promiseVars == <<phase, sent>>

Init ==
  /\ phase = [r \in Requests |-> "none"]
  /\ sent  = [r \in Requests |-> FALSE]

Hold(r) ==
  /\ phase[r] = "none"
  /\ phase' = [phase EXCEPT ![r] = "held"]
  /\ UNCHANGED sent

Transfer(r) ==
  /\ phase[r] = "held"
  /\ ~ sent[r]
  /\ sent' = [sent EXCEPT ![r] = TRUE]
  /\ UNCHANGED phase

Settle(r) ==
  /\ phase[r] = "held"
  /\ sent[r]
  /\ phase' = [phase EXCEPT ![r] = "settled"]
  /\ UNCHANGED sent

(* One cancellation may release several requests at once. *)
Release(S) ==
  /\ \A r \in S : phase[r] = "held" /\ ~ sent[r]
  /\ phase' = [r \in Requests |-> IF r \in S THEN "released" ELSE phase[r]]
  /\ UNCHANGED sent

Next ==
  \/ \E r \in Requests : Hold(r) \/ Transfer(r) \/ Settle(r)
  \/ \E S \in SUBSET Requests : Release(S)

Spec == Init /\ [][Next]_promiseVars
================================================================================
