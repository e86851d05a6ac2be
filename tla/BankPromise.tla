------------------------------ MODULE BankPromise ------------------------------
(***************************************************************************)
(* What payouts to bank accounts promise.  A request is for an obligation  *)
(* and a payee.  It is called off, or its money is sent, once; then it is  *)
(* paid or fails, and what was paid may come back.  Of the requests of an  *)
(* obligation at most one can still pay or has paid.  A payee is dropped   *)
(* only when no money can go there any more.  What is said of a request    *)
(* need not be the news, but it has been true.                             *)
(***************************************************************************)
CONSTANTS Requests, Obligations, Payees, None

VARIABLES
  phase,   \* phase[r]: "none", "asked", "called off", "sent", "paid", "failed", "reversed"
  owed,    \* owed[r]: the obligation it is for
  payee,   \* payee[r]: whom it pays
  known,   \* the payees that are verified
  said     \* said[r]: what is said of it

vars == <<phase, owed, payee, known, said>>

Over == {"none", "called off", "failed", "reversed"}

(* What has been true of a request in phase p. *)
Truths(p) ==
  CASE p = "paid"     -> {"nothing", "paid"}
    [] p = "failed"   -> {"nothing", "failed"}
    [] p = "reversed" -> {"nothing", "paid", "reversed"}
    [] OTHER          -> {"nothing"}

Init ==
  /\ phase = [r \in Requests |-> "none"]
  /\ owed  = [r \in Requests |-> None]
  /\ payee = [r \in Requests |-> None]
  /\ known = {}
  /\ said  = [r \in Requests |-> "nothing"]

Ask(r, o, b) ==
  /\ phase[r] = "none" /\ b \in known
  /\ \A q \in Requests : owed[q] = o => phase[q] \in Over
  /\ phase' = [phase EXCEPT ![r] = "asked"]
  /\ owed'  = [owed EXCEPT ![r] = o]
  /\ payee' = [payee EXCEPT ![r] = b]
  /\ UNCHANGED <<known, said>>

Becomes(r, p) == phase' = [phase EXCEPT ![r] = p] /\ UNCHANGED <<owed, payee, known, said>>

CallOff(r) == phase[r] = "asked" /\ Becomes(r, "called off")
Send(r)    == phase[r] = "asked" /\ payee[r] \in known /\ Becomes(r, "sent")
Settle(r)  == phase[r] = "sent" /\ (Becomes(r, "paid") \/ Becomes(r, "failed"))
Reverse(r) == phase[r] = "paid" /\ Becomes(r, "reversed")

Verify(b) ==
  /\ known' = known \cup {b}
  /\ UNCHANGED <<phase, owed, payee, said>>

Drop(b) ==
  /\ \A r \in Requests : payee[r] = b => phase[r] # "asked"
  /\ known' = known \ {b}
  /\ UNCHANGED <<phase, owed, payee, said>>

(* Of any number of requests, since a dispute is of several. *)
Tell ==
  /\ DOMAIN said' = Requests
  /\ \A r \in Requests : said'[r] \in Truths(phase[r])
  /\ UNCHANGED <<phase, owed, payee, known>>

Next ==
  \/ \E r \in Requests :
       \/ \E o \in Obligations, b \in Payees : Ask(r, o, b)
       \/ CallOff(r) \/ Send(r) \/ Settle(r) \/ Reverse(r)
  \/ \E b \in Payees : Verify(b) \/ Drop(b)
  \/ Tell

Spec == Init /\ [][Next]_vars
================================================================================
