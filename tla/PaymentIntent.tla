----------------------------- MODULE PaymentIntent -----------------------------
(***************************************************************************)
(* User-to-app payments: the intents the server keeps (the table           *)
(* ghc_payment_intents), the route handlers that move them (approve,       *)
(* complete, incomplete, recover, cancel, fulfill), and Pi, where the user *)
(* makes the payment and the server approves and completes it.             *)
(*                                                                         *)
(* A handler is a sequence of calls: to the database, where bind and       *)
(* transition each lock one row, and to Pi.  Each call is one step; it may *)
(* take effect and its answer be lost, it may fail with no effect, and the *)
(* process may stop between any two calls.                                 *)
(*                                                                         *)
(* The routes are given a payment's identifier, often that of an intent,   *)
(* and a transaction's.  They never compare them with what Pi knows the    *)
(* payment to be for, so any row of the user's may be named with any       *)
(* identifier; only the amount is compared, and not everywhere.            *)
(***************************************************************************)
EXTENDS Naturals

CONSTANTS
  Intents,       \* the intents made when a user starts a purchase
  Payments,      \* Pi payments
  Handlers,      \* route invocations that may be in progress at a time
  None,
  CrossNetwork,  \* whether a server of the other network may get an approve
  WrongAmounts   \* whether a client may ask Pi for another amount

ASSUME SetsAssumption ==
  /\ Intents \cap Payments = {}
  /\ None \notin Intents \cup Payments

ASSUME ClientAssumption == CrossNetwork \in BOOLEAN /\ WrongAmounts \in BOOLEAN

(***************************************************************************)
(* The rows of the table: beside the intents, one shell intent for each    *)
(* payment that the incomplete route found no intent for.  The shell has   *)
(* the idempotency key incomplete:<payment>, so the payment names it.      *)
(***************************************************************************)
Rows == Intents \cup Payments

VARIABLES
  intent,        \* intent[r]: status and provider_payment_id of row r
  granted,       \* granted[i]: the benefit of intent i has been granted
  hand,          \* hand[h]: what handler h does next
  pi             \* pi[p]: what Pi knows of payment p

vars == <<intent, granted, hand, pi>>

Idle == [route |-> "none", pc |-> "idle", row |-> None, pay |-> None, then |-> "done"]

(* fits: the rows that have the amount of the payment. *)
Unused == [asked |-> FALSE, fits |-> {}, approved |-> FALSE,
           tx |-> FALSE, completed |-> FALSE, cancelled |-> FALSE]

Init ==
  /\ intent  = [r \in Rows |-> [status |-> "none", pay |-> None]]
  /\ granted = [i \in Intents |-> FALSE]
  /\ hand    = [h \in Handlers |-> Idle]
  /\ pi      = [p \in Payments |-> Unused]

--------------------------------------------------------------------------------
(***************************************************************************)
(* The two database functions.                                             *)
(***************************************************************************)
Unfinished == {"CREATED", "APPROVAL_PENDING", "APPROVED", "USER_SUBMITTED",
               "COMPLETION_PENDING", "INCOMPLETE"}

Closed == {"FULFILLED", "REFUNDED", "FAILED", "CANCELLED"}

Paid == {"COMPLETED", "FULFILLED"}

Statuses == Unfinished \cup Closed \cup {"COMPLETED"}

(* Variant: a completed intent may be closed or reopened by a late callback. *)
AllowedFromLate(to) ==
  IF to \in {"FULFILLED", "REFUNDED"} THEN {"COMPLETED"} ELSE Unfinished \cup {"COMPLETED"}

(* Variant: an incomplete intent is not taken up again. *)
AllowedFromOnce(to) ==
  CASE to = "APPROVAL_PENDING" -> {"CREATED"}
    [] to = "APPROVED" -> {"CREATED", "APPROVAL_PENDING"}
    [] to = "USER_SUBMITTED" -> {"APPROVED"}
    [] to \in {"FULFILLED", "REFUNDED"} -> {"COMPLETED"}
    [] to = "COMPLETION_PENDING" -> Unfinished \ {"INCOMPLETE"}
    [] OTHER -> Unfinished

(* The statuses from which ghc_payment_intent_transition lets a row get to another. *)
AllowedFrom(to) ==
  CASE to = "APPROVAL_PENDING" -> {"CREATED"}
    [] to = "APPROVED" -> {"CREATED", "APPROVAL_PENDING"}
    [] to = "USER_SUBMITTED" -> {"APPROVED"}
    [] to \in {"FULFILLED", "REFUNDED"} -> {"COMPLETED"}
    [] OTHER -> Unfinished

Bindable(r, p) ==
  /\ intent[r].pay \in {None, p}
  /\ \A s \in Rows \ {r} : intent[s].pay # p
  /\ intent[r].pay = None => intent[r].status \in Unfinished

Bound(r, p) ==
  [intent EXCEPT ![r].pay = p,
                 ![r].status = IF @ = "CREATED" THEN "APPROVAL_PENDING" ELSE @]

--------------------------------------------------------------------------------
(***************************************************************************)
(* The handlers.  A handler that reaches "done" has answered its caller.   *)
(***************************************************************************)
Goto(h, pc) ==
  hand' = [hand EXCEPT ![h] = IF pc = "done" THEN Idle ELSE [@ EXCEPT !.pc = pc]]

(* The status a transition step asks for. *)
Target(pc) ==
  CASE pc = "toPending"    -> "APPROVAL_PENDING"
    [] pc = "toApproved"   -> "APPROVED"
    [] pc \in {"toCompleting", "stayCompleting"} -> "COMPLETION_PENDING"
    [] pc = "toCompleted"  -> "COMPLETED"
    [] pc = "toFulfilled"  -> "FULFILLED"
    [] pc = "toIncomplete" -> "INCOMPLETE"
    [] pc = "toCancelled"  -> "CANCELLED"
    [] pc = "toFailed"     -> "FAILED"

Transitions == {"toPending", "toApproved", "toCompleting", "stayCompleting", "toCompleted",
                "toFulfilled", "toIncomplete", "toCancelled", "toFailed"}

(* The step after a call that was answered with ok, or after any other. *)
IfOk(t) ==
  CASE t.pc = "toPending"    -> "lookup"
    [] t.pc = "toCompleting" -> IF t.route = "complete" THEN "lookup" ELSE "piComplete"
    [] t.pc = "toCompleted"  -> IF t.route = "incomplete" THEN "done" ELSE "grant"
    [] t.pc = "toFulfilled"  -> "grant"
    [] t.pc = "piApprove"    -> IF t.route = "approve" THEN "toApproved" ELSE "done"
    [] t.pc = "piComplete"   -> "toCompleted"
    [] t.pc = "shell"        -> "bind"
    [] OTHER -> "done"

IfNot(t) ==
  CASE t.pc = "lookup" /\ t.route = "incomplete" /\ t.row # None -> "toIncomplete"
    [] t.pc = "lookup" /\ t.route = "fulfill" -> "toFulfilled"
    [] t.pc = "toFulfilled" -> "grant"
    [] t.pc = "piApprove" /\ t.route = "approve" -> "toFailed"
    [] t.pc = "piComplete" -> IF t.route = "complete" THEN "stayCompleting" ELSE "toIncomplete"
    [] OTHER -> "done"

After(t, answered) == IF answered THEN IfOk(t) ELSE IfNot(t)

(***************************************************************************)
(* How a handler starts: it loads the row once, and goes by what it read   *)
(* then.  then is the step after bind.                                     *)
(***************************************************************************)
Start(h, route, r, p, pc, then) ==
  /\ hand[h] = Idle
  /\ hand' = [hand EXCEPT ![h] = [route |-> route, pc |-> pc, row |-> r, pay |-> p, then |-> then]]
  /\ UNCHANGED <<intent, granted, pi>>

UnderWay == {"APPROVED", "USER_SUBMITTED", "COMPLETION_PENDING"}

Known(r) == intent[r].status # "none"

(* What is already under way is approved again at Pi, by its binding alone. *)
Approve(h, r, p) ==
  /\ Known(r)
  /\ \/ /\ intent[r].status \in UnderWay /\ intent[r].pay \in {None, p}
        /\ Start(h, "reapprove", r, p,
                 IF intent[r].pay = p THEN "piApprove" ELSE "bind",
                 IF intent[r].pay = p THEN "done" ELSE "piApprove")
     \/ /\ ~ (intent[r].status \in UnderWay \cup Paid /\ intent[r].pay \in {None, p})
        /\ \/ Start(h, "approve", r, p, "bind", "toPending")
           \/ CrossNetwork /\ Start(h, "approve", r, p, "toFailed", "done")

Complete(h, r, p) ==
  /\ Known(r)
  /\ IF intent[r].status \in Paid
       THEN Start(h, "complete", r, p, "grant", "done")
       ELSE Start(h, "complete", r, p, "bind", "toCompleting")

(* Given an intent too, or the payment only, whose row it looks for. *)
Incomplete(h, r, p) ==
  /\ Known(r)
  /\ intent[r].status \notin Paid \cup {"CANCELLED", "REFUNDED"}
  /\ Start(h, "incomplete", r, p, "lookup", "done")

(* It finds none where there is none, and where the read fails. *)
IncompleteUnknown(h, p) == Start(h, "incomplete", None, p, "lookup", "done")

Recover(h, r, p) ==
  /\ Known(r)
  /\ IF intent[r].status \in Paid
       THEN Start(h, "recover", r, p, "grant", "done")
       ELSE Start(h, IF intent[r].status \in {"CREATED", "APPROVAL_PENDING"}
                       THEN "recoverEarly" ELSE "recover", r, p, "bind", "lookup")

Cancel(h, r) ==
  /\ intent[r].status \in Unfinished
  /\ Start(h, "cancel", r, None, "toCancelled", "done")

(* Variant: whatever has a payment may be fulfilled. *)
FulfillableIfBound(r) == intent[r].pay # None /\ intent[r].status # "FULFILLED"

Fulfillable(r) == intent[r].status = "COMPLETED"

Fulfill(h, r) ==
  \/ Fulfillable(r) /\ Start(h, "fulfill", r, intent[r].pay, "lookup", "done")
  \/ intent[r].status = "FULFILLED" /\ Start(h, "fulfill", r, intent[r].pay, "grant", "done")

--------------------------------------------------------------------------------
(***************************************************************************)
(* What a handler does with the payment it looks up at Pi.                 *)
(***************************************************************************)
Looks(h, routes) ==
  hand[h].pc = "lookup" /\ hand[h].route \in routes /\ pi[hand[h].pay].asked

(* Variant: that the payment was looked up is enough. *)
LookedUp(t) == t.pc = "lookup"

AmountsMatch(t) == t.row \in pi[t.pay].fits

(* Variant: a payment that was approved passes for one that is completed. *)
CompletedIfApproved(p) == pi[p].approved

CompletedAtPi(p) == pi[p].completed

(* The complete route gives up a tip whose transaction Pi has not verified. *)
VerifyAmount(h) ==
  LET t == hand[h] IN
  /\ Looks(h, {"approve", "complete"})
  /\ \/ ~ AmountsMatch(t) /\ Goto(h, "toFailed")
     \/ AmountsMatch(t) /\ Goto(h, IF t.route = "approve" THEN "piApprove" ELSE "piComplete")
     \/ AmountsMatch(t) /\ t.route = "complete" /\ Goto(h, "done")
  /\ UNCHANGED <<intent, granted, pi>>

Reconcile(h) ==
  LET t == hand[h] IN
  /\ Looks(h, {"recover", "recoverEarly"})
  /\ \/ ~ AmountsMatch(t) /\ Goto(h, "toFailed")
     \/ /\ AmountsMatch(t)
        /\ \/ pi[t.pay].cancelled /\ Goto(h, "toCancelled")
           \/ /\ ~ pi[t.pay].cancelled
              /\ Goto(h, IF CompletedAtPi(t.pay) THEN "toCompleted"
                         ELSE IF pi[t.pay].approved /\ t.route = "recoverEarly"
                                THEN "toApproved" ELSE "done")
  /\ UNCHANGED <<intent, granted, pi>>

(***************************************************************************)
(* It goes by this answer after the bind too.  The transaction may be one  *)
(* that only the client knows of.                                          *)
(***************************************************************************)
Resume(h) ==
  LET t == hand[h] IN
  /\ Looks(h, {"incomplete"})
  /\ \/ pi[t.pay].cancelled /\ Goto(h, IF t.row = None THEN "done" ELSE "toCancelled")
     \/ /\ ~ pi[t.pay].cancelled
        /\ \E txid \in {pi[t.pay].tx, TRUE} :
             LET then == IF t.row # None /\ ~ AmountsMatch(t) THEN "toFailed"
                         ELSE IF CompletedAtPi(t.pay) THEN "toCompleted"
                         ELSE IF txid THEN "toCompleting" ELSE "toIncomplete"
             IN hand' = [hand EXCEPT ![h] =
                           IF t.row = None
                             THEN [t EXCEPT !.pc = "shell", !.row = t.pay, !.then = then]
                             ELSE [t EXCEPT !.pc = "bind", !.then = then]]
  /\ UNCHANGED <<intent, granted, pi>>

ConfirmNotCancelled(h) ==
  /\ Looks(h, {"fulfill"})
  /\ Goto(h, IF pi[hand[h].pay].cancelled THEN "done" ELSE "toFulfilled")
  /\ UNCHANGED <<intent, granted, pi>>

--------------------------------------------------------------------------------
(***************************************************************************)
(* The calls that change something.  A call has its effect whether or not  *)
(* the handler is answered.                                                *)
(***************************************************************************)
Shell(h, answered) ==
  LET t == hand[h] IN
  /\ t.pc = "shell"
  /\ intent' = IF intent[t.row].status = "none"
                 THEN [intent EXCEPT ![t.row].status = "CREATED"] ELSE intent
  /\ Goto(h, After(t, answered))
  /\ UNCHANGED <<granted, pi>>

Bind(h, answered) ==
  LET t == hand[h] IN
  /\ t.pc = "bind" /\ Bindable(t.row, t.pay)
  /\ intent' = Bound(t.row, t.pay)
  /\ hand' = [hand EXCEPT ![h] =
                IF answered THEN [t EXCEPT !.pc = t.then, !.then = "done"] ELSE Idle]
  /\ UNCHANGED <<granted, pi>>

(* The transitions that name the payment, which the row must be bound to. *)
NamesPayment(t) ==
  /\ t.pc \in {"toFailed", "toCancelled"} => t.route = "incomplete"
  /\ t.pc \notin {"stayCompleting", "toFulfilled"}

(* A row already in the status asked for answers ok. *)
Accepted(t) ==
  /\ NamesPayment(t) => intent[t.row].pay = t.pay
  /\ intent[t.row].status \in {Target(t.pc)} \cup AllowedFrom(Target(t.pc))

Transition(h, answered) ==
  LET t == hand[h] IN
  /\ t.pc \in Transitions /\ Accepted(t)
  /\ intent' = [intent EXCEPT ![t.row].status = Target(t.pc)]
  /\ Goto(h, After(t, answered))
  /\ UNCHANGED <<granted, pi>>

PiApprove(h, answered) ==
  LET t == hand[h] IN
  /\ t.pc = "piApprove" /\ pi[t.pay].asked /\ ~ pi[t.pay].cancelled
  /\ pi' = [pi EXCEPT ![t.pay].approved = TRUE]
  /\ Goto(h, After(t, answered))
  /\ UNCHANGED <<intent, granted>>

PiComplete(h, answered) ==
  LET t == hand[h] IN
  /\ t.pc = "piComplete" /\ pi[t.pay].tx
  /\ pi' = [pi EXCEPT ![t.pay].completed = TRUE]
  /\ Goto(h, After(t, answered))
  /\ UNCHANGED <<intent, granted>>

(* Shells have the purpose "other", which carries no benefit. *)
Grant(h) ==
  LET t == hand[h] IN
  /\ t.pc = "grant"
  /\ granted' = [i \in Intents |-> granted[i] \/ i = t.row]
  /\ Goto(h, "done")
  /\ UNCHANGED <<intent, pi>>

(* A call that is refused, by the database or by Pi. *)
Refused(h) ==
  LET t == hand[h] IN
  /\ \/ t.pc = "bind" /\ ~ Bindable(t.row, t.pay)
     \/ t.pc \in Transitions /\ ~ Accepted(t)
     \/ t.pc = "lookup" /\ ~ pi[t.pay].asked
     \/ t.pc = "piApprove" /\ (~ pi[t.pay].asked \/ pi[t.pay].cancelled)
     \/ t.pc = "piComplete" /\ ~ pi[t.pay].tx
  /\ Goto(h, IfNot(t))
  /\ UNCHANGED <<intent, granted, pi>>

(* A call that fails on its way. *)
Fail(h) ==
  /\ hand[h].pc # "idle"
  /\ Goto(h, IfNot(hand[h]))
  /\ UNCHANGED <<intent, granted, pi>>

Crash(h) ==
  /\ hand[h].pc # "idle"
  /\ Goto(h, "done")
  /\ UNCHANGED <<intent, granted, pi>>

--------------------------------------------------------------------------------
(***************************************************************************)
(* The user and Pi.                                                        *)
(***************************************************************************)
CreateIntent(i) ==
  /\ intent[i].status = "none"
  /\ intent' = [intent EXCEPT ![i].status = "CREATED"]
  /\ UNCHANGED <<granted, hand, pi>>

(* An identifier Pi has not given out, whatever clients made up. *)
Fresh(p) ==
  /\ pi[p] = Unused
  /\ \A r \in Rows : intent[r].pay # p
  /\ \A h \in Handlers : hand[h].pay # p

(***************************************************************************)
(* The client asks Pi for the amount of an intent, or for another.  The    *)
(* payment's own shell will take the amount from it.                       *)
(***************************************************************************)
PiCreate(p, fits) ==
  /\ Fresh(p) /\ p \in fits
  /\ WrongAmounts \/ \E i \in fits \cap Intents : Known(i)
  /\ pi' = [pi EXCEPT ![p].asked = TRUE, ![p].fits = fits]
  /\ UNCHANGED <<intent, granted, hand>>

PiPay(p) ==
  /\ pi[p].approved /\ ~ pi[p].cancelled
  /\ pi' = [pi EXCEPT ![p].tx = TRUE]
  /\ UNCHANGED <<intent, granted, hand>>

PiCancel(p) ==
  /\ pi[p].asked /\ ~ pi[p].tx
  /\ pi' = [pi EXCEPT ![p].cancelled = TRUE]
  /\ UNCHANGED <<intent, granted, hand>>

--------------------------------------------------------------------------------
Call(h, answered) ==
  \/ Shell(h, answered) \/ Bind(h, answered) \/ Transition(h, answered)
  \/ PiApprove(h, answered) \/ PiComplete(h, answered)

(* A handler that just gives up when it is not answered stops there, too. *)
Fault(h) ==
  \/ IfNot(hand[h]) # "done" /\ (Call(h, FALSE) \/ Fail(h))
  \/ Crash(h)

Step(h) ==
  \/ VerifyAmount(h) \/ Reconcile(h) \/ Resume(h) \/ ConfirmNotCancelled(h)
  \/ Call(h, TRUE) \/ Grant(h) \/ Refused(h)

User ==
  \/ \E i \in Intents : CreateIntent(i)
  \/ \E p \in Payments :
       \/ \E fits \in SUBSET Rows : PiCreate(p, fits)
       \/ PiPay(p) \/ PiCancel(p)

Next ==
  \/ User
  \/ \E h \in Handlers :
       \/ Step(h) \/ Fault(h)
       \/ \E p \in Payments :
            \/ \E r \in Rows : \/ Approve(h, r, p) \/ Complete(h, r, p)
                              \/ Incomplete(h, r, p) \/ Recover(h, r, p)
            \/ IncompleteUnknown(h, p)
       \/ \E r \in Rows : Cancel(h, r) \/ Fulfill(h, r)

Spec == Init /\ [][Next]_vars

--------------------------------------------------------------------------------
(***************************************************************************)
(* Properties.                                                             *)
(***************************************************************************)
Row == [status : Statuses \cup {"none"}, pay : Payments \cup {None}]

Routes == {"none", "approve", "reapprove", "complete", "incomplete", "recover",
           "recoverEarly", "cancel", "fulfill"}

Places == Transitions \cup {"idle", "shell", "bind", "lookup", "piApprove", "piComplete", "grant"}

Handler == [route : Routes, pc : Places, row : Rows \cup {None}, pay : Payments \cup {None},
            then : Transitions \cup {"lookup", "piApprove", "done"}]

Payment == [asked : BOOLEAN, fits : SUBSET Rows, approved : BOOLEAN,
            tx : BOOLEAN, completed : BOOLEAN, cancelled : BOOLEAN]

(* Rows, handlers and payments are what the code and the table allow them to be. *)
TypeOK ==
  /\ intent \in [Rows -> Row]
  /\ granted \in [Intents -> BOOLEAN]
  /\ hand \in [Handlers -> Handler]
  /\ pi \in [Payments -> Payment]

(***************************************************************************)
(* A row is completed, or fulfilled, only if the payment bound to it, and  *)
(* to no other row, has its amount and is completed at Pi, whatever        *)
(* answers the handler that recorded it had lost, whatever other handlers  *)
(* did and whichever rows and payments clients named together.             *)
(***************************************************************************)
CompletedMeansPaid ==
  \A r \in Rows : intent[r].status \in Paid =>
    \E p \in Payments : /\ intent[r].pay = p
                        /\ \A s \in Rows \ {r} : intent[s].pay # p
                        /\ pi[p].tx /\ pi[p].completed /\ r \in pi[p].fits

(***************************************************************************)
(* What the user can be asked to pay the server will recognise: a payment  *)
(* that Pi was told to approve is bound to one row, and no other.  So a    *)
(* row never has two payments that can be paid.  The payment has the       *)
(* amount of its row, unless the complete route had moved the row on       *)
(* before: that takes any payment for one that is to be completed, and     *)
(* approve then approves it without comparing amounts.  Such a row is not  *)
(* approved or completed on that account (see CompletedMeansPaid).         *)
(***************************************************************************)
Late == {"COMPLETION_PENDING", "INCOMPLETE", "FAILED", "CANCELLED"}

ApprovedIsRecognised ==
  \A p \in Payments : pi[p].approved =>
    \E r \in Rows : /\ intent[r].pay = p
                    /\ \A s \in Rows \ {r} : intent[s].pay # p
                    /\ r \in pi[p].fits \/ intent[r].status \in Late

(***************************************************************************)
(* A benefit is granted only to an intent whose own payment has its amount *)
(* and was completed by Pi.                                                *)
(***************************************************************************)
BenefitsArePaid ==
  \A i \in Intents : granted[i] =>
    \E p \in Payments : intent[i].pay = p /\ i \in pi[p].fits /\ pi[p].completed

(***************************************************************************)
(* The comment in ghc_payment_intent_transition: confirmed success and     *)
(* terminal outcomes cannot be downgraded by a late callback.  Nor does a  *)
(* row that is bound to a payment ever lose it or get another.             *)
(***************************************************************************)
OutcomesAreFinal ==
  [][\A r \in Rows :
       /\ intent[r].status \in Closed => intent'[r].status = intent[r].status
       /\ intent[r].status = "COMPLETED" => intent'[r].status \in Paid
       /\ intent[r].pay # None => intent'[r].pay = intent[r].pay]_vars

(***************************************************************************)
(* docs/PHASE-9-MEMBERSHIP-FOUNDATION-0.324.0.md: a timeout after a        *)
(* payment request is not proof that the payment failed.  So an intent     *)
(* that is recorded as failed was not paid.                                *)
(***************************************************************************)
FailedMeansUnpaid ==
  \A r \in Rows, p \in Payments :
    intent[r].pay = p /\ pi[p].tx => intent[r].status # "FAILED"

(* What PurchasePromise tells apart of a row and of a payment. *)
Phase(status) ==
  IF status = "none" THEN "none"
  ELSE IF status \in Paid THEN "paid"
  ELSE IF status \in Closed THEN "closed" ELSE "open"

Money(q) ==
  IF ~ q.asked THEN "none"
  ELSE IF q.completed THEN "kept"
  ELSE IF q.tx THEN "signed"
  ELSE IF q.approved THEN "approved" ELSE "asked"

Promise ==
  INSTANCE PurchasePromise
    WITH phase  <- [r \in Rows |-> Phase(intent[r].status)],
         bound  <- [r \in Rows |-> intent[r].pay],
         fits   <- [p \in Payments |-> pi[p].fits],
         money  <- [p \in Payments |-> Money(pi[p])],
         served <- granted

(***************************************************************************)
(* The six routes, with whatever answers they lose and wherever they stop, *)
(* do together what PurchasePromise says: binding comes before approval,   *)
(* approval before the signature, Pi's completion before that of the row,  *)
(* and that before the benefit, each for the same payment, whose amount    *)
(* the row has when it is completed; and no late callback reopens or       *)
(* closes what is over.                                                    *)
(***************************************************************************)
PromiseKept == Promise!Spec
================================================================================
