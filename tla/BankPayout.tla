------------------------------ MODULE BankPayout -------------------------------
(***************************************************************************)
(* Payouts of NGN obligations to a seller's bank account by Paystack: the  *)
(* functions of migration 20261022010115, each one transaction under the   *)
(* request's row lock, and the routes that call the provider between two   *)
(* of them.  What the provider did to a transfer reaches the database by   *)
(* signed webhooks (in any order, each applied once) and by reconciliation *)
(* (an answer read from the provider and applied later).                   *)
(*                                                                         *)
(* A request stands for its idempotency key: a repetition is answered from *)
(* the row.  A request has one reference ("ghb_" and its md5), and a       *)
(* reference one transfer: a submission repeated for it finds the transfer *)
(* there.  One seller owns everything, other owners are refused before     *)
(* anything changes.  provider_status repeats the status wherever the code *)
(* asks for it.                                                            *)
(***************************************************************************)
EXTENDS Integers, FiniteSets, Totals

CONSTANTS
  Obligations, Beneficiaries, Requests,
  Sessions,     \* calls of the execute-bank and reconcile-bank routes
  Amount,       \* of each obligation
  DailyLimit,   \* PAYSTACK_DAILY_TRANSFER_LIMIT_KOBO
  None

ASSUME NoneAssumption == None \notin Obligations \cup Beneficiaries \cup Requests

ASSUME AmountAssumption == \A o \in Obligations : Amount[o] \in Nat \ {0}

VARIABLES
  obligation,   \* gh_bank_payout_obligations.status
  beneficiary,  \* gh_bank_beneficiaries.status
  req,          \* gh_bank_payout_requests
  hooks,        \* gh_bank_payout_webhook_events: those applied, by request
  total,        \* today's total_reserved_kobo
  begun,        \* the requests that took their capacity today
  transfer,     \* what the provider knows of each request's reference
  sess          \* the routes' calls

vars == <<obligation, beneficiary, req, hooks, total, begun, transfer, sess>>

Active   == {"requested", "approved", "processing", "pending", "paid"}
InFlight == {"requested", "approved", "processing", "pending", "disputed"}
Followed == {"processing", "pending", "paid", "failed", "reversed"}

NoRow == [status |-> "none", obl |-> None, ben |-> None]
Idle  == [at |-> "idle", req |-> None, got |-> "none"]

Init ==
  /\ obligation  = [o \in Obligations |-> "none"]
  /\ beneficiary = [b \in Beneficiaries |-> "none"]
  /\ req         = [r \in Requests |-> NoRow]
  /\ hooks       = [r \in Requests |-> {}]
  /\ total       = 0
  /\ begun       = {}
  /\ transfer    = [r \in Requests |-> "none"]
  /\ sess        = [s \in Sessions |-> Idle]

(* The other requests that hold the obligation of r. *)
Rivals(r) ==
  {q \in Requests \ {r} : req[q].obl = req[r].obl /\ req[q].status \in Active}

Move(r, status) == req' = [req EXCEPT ![r].status = status]

--------------------------------------------------------------------------------
(* Obligations and beneficiaries. *)

RecordObligation(o) ==
  /\ obligation[o] = "none"
  /\ obligation' = [obligation EXCEPT ![o] = "available"]
  /\ UNCHANGED <<beneficiary, req, hooks, total, begun, transfer, sess>>

Register(b) ==
  /\ beneficiary[b] = "none"
  /\ beneficiary' = [beneficiary EXCEPT ![b] = "verified"]
  /\ UNCHANGED <<obligation, req, hooks, total, begun, transfer, sess>>

(* Variant: only requests still under review keep the beneficiary. *)
DisableUnderWay(b) ==
  /\ beneficiary[b] = "verified"
  /\ ~ \E r \in Requests : req[r].ben = b /\ req[r].status \in {"requested", "approved"}
  /\ beneficiary' = [beneficiary EXCEPT ![b] = "disabled"]
  /\ UNCHANGED <<obligation, req, hooks, total, begun, transfer, sess>>

Disable(b) ==
  /\ beneficiary[b] = "verified"
  /\ ~ \E r \in Requests : req[r].ben = b /\ req[r].status \in InFlight
  /\ beneficiary' = [beneficiary EXCEPT ![b] = "disabled"]
  /\ UNCHANGED <<obligation, req, hooks, total, begun, transfer, sess>>

(***************************************************************************)
(* The request: the obligation must be available and the beneficiary       *)
(* verified, and the unique index admits one active request of it.         *)
(***************************************************************************)
Request(r, o, b) ==
  /\ req[r].status = "none"
  /\ obligation[o] = "available"
  /\ beneficiary[b] = "verified"
  /\ ~ \E q \in Requests : req[q].obl = o /\ req[q].status \in Active
  /\ req' = [req EXCEPT ![r] = [status |-> "requested", obl |-> o, ben |-> b]]
  /\ obligation' = [obligation EXCEPT ![o] = "reserved"]
  /\ UNCHANGED <<beneficiary, hooks, total, begun, transfer, sess>>

Approve(r) ==
  /\ req[r].status = "requested"
  /\ beneficiary[req[r].ben] = "verified"
  /\ Move(r, "approved")
  /\ UNCHANGED <<obligation, beneficiary, hooks, total, begun, transfer, sess>>

(* Variant: the operator may also cancel what is being processed. *)
CancelUnderWay(r) ==
  /\ req[r].status \in {"requested", "approved", "processing"}
  /\ obligation[req[r].obl] = "reserved"
  /\ Move(r, "cancelled")
  /\ obligation' = [obligation EXCEPT ![req[r].obl] = "available"]
  /\ UNCHANGED <<beneficiary, hooks, total, begun, transfer, sess>>

Cancel(r) ==
  /\ req[r].status = "requested"
  /\ obligation[req[r].obl] = "reserved"
  /\ Move(r, "cancelled")
  /\ obligation' = [obligation EXCEPT ![req[r].obl] = "available"]
  /\ UNCHANGED <<beneficiary, hooks, total, begun, transfer, sess>>

--------------------------------------------------------------------------------
(* The execute-bank route. *)

(* Variant: every attempt takes capacity, a repeated one too. *)
BeginAgain(s, r) ==
  /\ sess[s] = Idle
  /\ req[r].status \in {"approved", "processing", "pending"}
  /\ beneficiary[req[r].ben] = "verified"
  /\ total + Amount[req[r].obl] <= DailyLimit
  /\ total' = total + Amount[req[r].obl]
  /\ IF req[r].status = "approved"
     THEN Move(r, "processing") /\ begun' = begun \cup {r}
     ELSE UNCHANGED <<req, begun>>
  /\ sess' = [sess EXCEPT ![s] = [at |-> "begun", req |-> r, got |-> "none"]]
  /\ UNCHANGED <<obligation, beneficiary, hooks, transfer>>

(* Begins an approved request, or one begun before, which keeps its reference. *)
Begin(s, r) ==
  /\ sess[s] = Idle
  /\ req[r].status \in {"approved", "processing", "pending"}
  /\ beneficiary[req[r].ben] = "verified"
  /\ \/ /\ req[r].status = "approved"
        /\ total + Amount[req[r].obl] <= DailyLimit
        /\ total' = total + Amount[req[r].obl]
        /\ begun' = begun \cup {r}
        /\ Move(r, "processing")
     \/ /\ req[r].status # "approved"
        /\ UNCHANGED <<total, begun, req>>
  /\ sess' = [sess EXCEPT ![s] = [at |-> "begun", req |-> r, got |-> "none"]]
  /\ UNCHANGED <<obligation, beneficiary, hooks, transfer>>

(* The provider takes a new reference, or finds the transfer it has, and answers. *)
Submit(s) ==
  LET r == sess[s].req
      t == IF transfer[r] = "none" THEN "pending" ELSE transfer[r]
  IN  /\ sess[s].at = "begun"
      /\ transfer' = [transfer EXCEPT ![r] = t]
      /\ sess' = [sess EXCEPT ![s] = [@ EXCEPT !.at = "answered", !.got = t]]
      /\ UNCHANGED <<obligation, beneficiary, req, hooks, total, begun>>

(* record_submission: never more than pending, whatever the provider answered. *)
Record(s) ==
  LET r == sess[s].req
  IN  /\ sess[s].at = "answered"
      /\ IF req[r].status \in {"processing", "pending"} /\ sess[s].got \in {"pending", "success"}
         THEN Move(r, "pending")
         ELSE UNCHANGED req
      /\ sess' = [sess EXCEPT ![s] = Idle]
      /\ UNCHANGED <<obligation, beneficiary, hooks, total, begun, transfer>>

(* The provider refuses or does not answer, or the process stops. *)
Lose(s) ==
  /\ sess[s] # Idle
  /\ sess' = [sess EXCEPT ![s] = Idle]
  /\ UNCHANGED <<obligation, beneficiary, req, hooks, total, begun, transfer>>

--------------------------------------------------------------------------------
(* What the provider reports. *)

Reports == {"success", "failed", "reversed"}

(* What the provider has ever reported of a transfer it now reports as t. *)
Reported(t) ==
  CASE t = "success"  -> {"success"}
    [] t = "failed"   -> {"failed"}
    [] t = "reversed" -> {"success", "reversed"}
    [] OTHER          -> {}

Outcome(e) == IF e = "success" THEN "paid" ELSE e

(***************************************************************************)
(* What both apply_webhook and apply_reconciliation do with a report e of  *)
(* request r: a success while another request holds the obligation is a    *)
(* dispute for both; a paid request does not fail; otherwise the request   *)
(* follows the report, and its obligation if it has the status for it.     *)
(***************************************************************************)
Conclude(r, e) ==
  LET o == req[r].obl
  IN  \/ /\ e = "success" /\ Rivals(r) # {}
         /\ req' = [q \in Requests |-> IF q = r \/ q \in Rivals(r)
                                       THEN [req[q] EXCEPT !.status = "disputed"]
                                       ELSE req[q]]
         /\ obligation' = [obligation EXCEPT ![o] = "disputed"]
      \/ /\ e = "failed" /\ req[r].status = "paid"
         /\ UNCHANGED <<req, obligation>>
      \/ /\ ~ (e = "success" /\ Rivals(r) # {}) /\ ~ (e = "failed" /\ req[r].status = "paid")
         /\ Move(r, Outcome(e))
         /\ obligation' = [obligation EXCEPT ![o] =
              IF e = "success" /\ @ = "reserved" THEN "paid"
              ELSE IF e = "reversed" /\ req[r].status = "paid" /\ @ = "paid" THEN "reversed"
              ELSE @]

(* A signed webhook, whose event key is the report and the transfer. *)
Webhook(r, e) ==
  /\ e \in Reported(transfer[r]) \ hooks[r]
  /\ hooks' = [hooks EXCEPT ![r] = @ \cup {e}]
  /\ Conclude(r, e)
  /\ UNCHANGED <<beneficiary, total, begun, transfer, sess>>

(* The reconcile-bank route reads the row, asks the provider, and applies. *)
Read(s, r) ==
  /\ sess[s] = Idle
  /\ req[r].status \in Followed
  /\ sess' = [sess EXCEPT ![s] = [at |-> "read", req |-> r, got |-> "none"]]
  /\ UNCHANGED <<obligation, beneficiary, req, hooks, total, begun, transfer>>

(* Variant: a transfer that is not settled is taken for a failed one. *)
PollImpatiently(s) ==
  LET t == transfer[sess[s].req]
  IN  /\ sess[s].at = "read"
      /\ sess' = [sess EXCEPT ![s] = [@ EXCEPT !.at = "polled",
                                        !.got = IF t \in Reports THEN t ELSE "failed"]]
      /\ UNCHANGED <<obligation, beneficiary, req, hooks, total, begun, transfer>>

Poll(s) ==
  LET t == transfer[sess[s].req]
  IN  /\ sess[s].at = "read"
      /\ sess' = [sess EXCEPT ![s] = IF t \in Reports
                                     THEN [@ EXCEPT !.at = "polled", !.got = t]
                                     ELSE Idle]
      /\ UNCHANGED <<obligation, beneficiary, req, hooks, total, begun, transfer>>

(* Variant: a reversal is taken only of a request that was seen paid. *)
ApplyKnownReversals(s) ==
  LET r == sess[s].req
  IN  /\ sess[s].at = "polled"
      /\ IF req[r].status = "paid" \/ (req[r].status \in Followed /\ sess[s].got # "reversed")
         THEN Conclude(r, sess[s].got)
         ELSE UNCHANGED <<req, obligation>>
      /\ sess' = [sess EXCEPT ![s] = Idle]
      /\ UNCHANGED <<beneficiary, hooks, total, begun, transfer>>

Apply(s) ==
  /\ sess[s].at = "polled"
  /\ IF req[sess[s].req].status \in Followed
     THEN Conclude(sess[s].req, sess[s].got)
     ELSE UNCHANGED <<req, obligation>>
  /\ sess' = [sess EXCEPT ![s] = Idle]
  /\ UNCHANGED <<beneficiary, hooks, total, begun, transfer>>

(* The operator gives back the obligation of a failed or reversed payout. *)
Resolve(r) ==
  LET o == req[r].obl
  IN  /\ \/ req[r].status = "failed" /\ obligation[o] = "reserved"
         \/ req[r].status = "reversed" /\ obligation[o] \in {"reserved", "reversed"}
      /\ obligation' = [obligation EXCEPT ![o] = "available"]
      /\ UNCHANGED <<beneficiary, req, hooks, total, begun, transfer, sess>>

--------------------------------------------------------------------------------
(* The provider settles a transfer, and may still return what it paid. *)
SettleTransfer(r) ==
  /\ transfer[r] = "pending"
  /\ \E t \in {"success", "failed"} : transfer' = [transfer EXCEPT ![r] = t]
  /\ UNCHANGED <<obligation, beneficiary, req, hooks, total, begun, sess>>

ReverseTransfer(r) ==
  /\ transfer[r] = "success"
  /\ transfer' = [transfer EXCEPT ![r] = "reversed"]
  /\ UNCHANGED <<obligation, beneficiary, req, hooks, total, begun, sess>>

(* Another UTC date, and with it another row of gh_bank_payout_daily_limits. *)
Midnight ==
  /\ total' = 0 /\ begun' = {}
  /\ UNCHANGED <<obligation, beneficiary, req, hooks, transfer, sess>>

Next ==
  \/ \E o \in Obligations : RecordObligation(o)
  \/ \E b \in Beneficiaries : Register(b) \/ Disable(b)
  \/ \E r \in Requests :
       \/ \E o \in Obligations, b \in Beneficiaries : Request(r, o, b)
       \/ Approve(r) \/ Cancel(r) \/ Resolve(r)
       \/ \E e \in Reports : Webhook(r, e)
       \/ SettleTransfer(r) \/ ReverseTransfer(r)
       \/ \E s \in Sessions : Begin(s, r) \/ Read(s, r)
  \/ \E s \in Sessions : Submit(s) \/ Record(s) \/ Poll(s) \/ Apply(s) \/ Lose(s)
  \/ Midnight

Spec == Init /\ [][Next]_vars

(***************************************************************************)
(* Fairness.  The provider settles its transfers.  While a request is      *)
(* processing or pending, reconcile-bank answers its operator that it may  *)
(* be asked again ("retryable", 202 or 503): such calls may fail any       *)
(* number of times but not always.  Once a report has been applied the     *)
(* reply calls for nothing more, and nobody need ever ask again.           *)
(***************************************************************************)
Unconcluded(r) == req[r].status \in {"processing", "pending"}

Fairness ==
  \A r \in Requests :
    /\ WF_vars(SettleTransfer(r))
    /\ SF_vars(\E s \in Sessions : Unconcluded(r) /\ Read(s, r))
    /\ SF_vars(\E s \in Sessions : Unconcluded(r) /\ sess[s].req = r /\ Poll(s))
    /\ SF_vars(\E s \in Sessions : Unconcluded(r) /\ sess[s].req = r /\ Apply(s))
    /\ WF_vars(\E s \in Sessions : sess[s].req # None /\ (Submit(s) \/ Record(s) \/ Lose(s)))

FairSpec == Spec /\ Fairness

--------------------------------------------------------------------------------
(* Every row, session and counter has its type. *)
TypeOK ==
  /\ obligation \in [Obligations ->
       {"none", "available", "reserved", "paid", "reversed", "disputed"}]
  /\ beneficiary \in [Beneficiaries -> {"none", "verified", "disabled"}]
  /\ \A r \in Requests :
       req[r] \in {NoRow} \cup
         [status : Active \cup InFlight \cup Followed \cup {"cancelled"},
          obl : Obligations, ben : Beneficiaries]
  /\ DOMAIN req = Requests
  /\ hooks \in [Requests -> SUBSET Reports]
  /\ total \in Int
  /\ begun \subseteq Requests
  /\ transfer \in [Requests -> {"none", "pending"} \cup Reports]
  /\ \A s \in Sessions :
       sess[s] \in {Idle} \cup
         [at : {"begun", "answered", "read", "polled"}, req : Requests,
          got : {"none", "pending"} \cup Reports]
  /\ DOMAIN sess = Sessions

(***************************************************************************)
(* The seller is not paid twice: of all the requests an obligation ever    *)
(* had, at most one has a transfer that is under way or has succeeded,     *)
(* whatever order reports come in and whatever operators release.          *)
(***************************************************************************)
Outstanding(r) == transfer[r] \in {"pending", "success"}

OneTransferAtATime ==
  \A r, q \in Requests :
    r # q /\ req[r].obl = req[q].obl => ~ (Outstanding(r) /\ Outstanding(q))

(***************************************************************************)
(* What a request says of its transfer has been true: a paid one was paid, *)
(* a failed or reversed one will never be.  Answers that are applied late, *)
(* and reports that arrive in the wrong order, do not make it untrue.      *)
(***************************************************************************)
StatusHasBeenTrue ==
  \A r \in Requests :
    /\ req[r].status = "paid"     => transfer[r] \in {"success", "reversed"}
    /\ req[r].status = "failed"   => transfer[r] = "failed"
    /\ req[r].status = "reversed" => transfer[r] = "reversed"

(* The daily total counts every request of the day once, however often it is retried. *)
DailyTotalCountsOnce ==
  total = Total([r \in begun |-> Amount[req[r].obl]])

(***************************************************************************)
(* Money leaves only for a request that is being processed, or was until   *)
(* it came into dispute, to a beneficiary that has not been disabled since *)
(* the recipient code was read.                                            *)
(***************************************************************************)
MoneyGoesWhereItShould ==
  [][\A r \in Requests :
       transfer[r] = "none" /\ transfer'[r] # "none" =>
         /\ req[r].status \in {"processing", "disputed"}
         /\ beneficiary[req[r].ben] = "verified"]_vars

(***************************************************************************)
(* In the end a request whose transfer has an outcome does not stay        *)
(* processing or pending, whatever webhooks are lost: it says something    *)
(* that has been true of the transfer, or is in dispute.  It need not be   *)
(* the last truth: a reversed transfer may stay paid in the books, when    *)
(* the reversal's webhook is lost, or when the webhook of the success or   *)
(* an older answer is applied over the reversal.                           *)
(***************************************************************************)
SaysOf(t) ==
  CASE t = "success" -> {"paid", "disputed"}
    [] t = "failed"  -> {"failed", "disputed"}
    [] OTHER         -> {"paid", "reversed", "disputed"}

EveryTransferConcludes ==
  \A r \in Requests :
    <>[](transfer[r] \in Reports => req[r].status \in SaysOf(transfer[r]))

(* What BankPromise tells apart of a request, of its transfer, and of a status. *)
Phase(status, t) ==
  CASE status = "none"      -> "none"
    [] status = "cancelled" -> "called off"
    [] OTHER -> CASE t = "none"    -> "asked"
                  [] t = "pending" -> "sent"
                  [] t = "success" -> "paid"
                  [] OTHER         -> t

Said(status) == IF status \in {"paid", "failed", "reversed"} THEN status ELSE "nothing"

Promise ==
  INSTANCE BankPromise
    WITH Payees <- Beneficiaries,
         phase  <- [r \in Requests |-> Phase(req[r].status, transfer[r])],
         owed   <- [r \in Requests |-> req[r].obl],
         payee  <- [r \in Requests |-> req[r].ben],
         known  <- {b \in Beneficiaries : beneficiary[b] = "verified"},
         said   <- [r \in Requests |-> Said(req[r].status)]

(***************************************************************************)
(* Requests, cancellations, repeated submissions, webhooks in any order,   *)
(* answers applied late, disputes and releases by operators do together    *)
(* what BankPromise says: a new request finds the others over, money goes  *)
(* once and to a payee that is still verified, and what a status says of   *)
(* the transfer has been true.                                             *)
(***************************************************************************)
PromiseKept == Promise!Spec
================================================================================
