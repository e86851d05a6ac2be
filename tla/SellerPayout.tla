----------------------------- MODULE SellerPayout ------------------------------
(***************************************************************************)
(* The Pi payout of one seller, from the orders that fund it to Pi: the    *)
(* orders with what was taken off their net proceeds, the payout requests  *)
(* (gh_seller_payout_requests) with the orders allocated to them, their    *)
(* executions (gh_pi_a2u_executions), the lease of the app-wallet lane,    *)
(* the routes that create, complete and reconcile, the operator, and Pi.   *)
(*                                                                         *)
(* As in PayoutExecution each call of a route is one step, which may fail, *)
(* or take effect and lose its answer; a process may stop between any two. *)
(* Here nothing renews the lease: it may run out whatever its holder does. *)
(***************************************************************************)
EXTENDS Integers, FiniteSets

CONSTANTS
  Orders,       \* paid orders of the seller
  Requests,     \* payout requests, one idempotency key each
  Handlers,     \* route invocations that may be in progress at a time
  Payments,     \* Pi payments that may be of interest at a time
  Net,          \* seller_net of an order
  None

ASSUME NetAssumption == Net \in Nat \ {0}

ASSUME NoneAssumption == None \notin Requests \cup Handlers \cup Payments

VARIABLES
  order,        \* order[o]: its status, and the sum of its seller-net reductions
  alloc,        \* alloc[o]: the request the order is allocated to
  req,          \* req[r]: the row of r, the lines of its amount, its reconciliation
  exec,         \* exec[r]: the execution row of r
  lane,         \* the lease of the app-wallet sequence
  hand,         \* hand[x]: what handler x does next, for which request
  pi,           \* pi[p]: what Pi knows of payment p
  late          \* whether a handler submitted a payment without the lease

books == <<order, alloc, req>>
vars  == <<order, alloc, req, exec, lane, hand, pi, late>>

--------------------------------------------------------------------------------
Open == {"requested", "under_review", "approved", "processing"}

NoLease == [holder |-> None, req |-> None]

Idle == [pc |-> "idle", req |-> None, pay |-> None]

Unused == [for |-> None, state |-> "unused", sent |-> 0,
           verified |-> FALSE, completed |-> FALSE]

Init ==
  /\ order = [o \in Orders |-> [status |-> "fulfilling", reduced |-> 0]]
  /\ alloc = [o \in Orders |-> None]
  /\ req   = [r \in Requests |-> [status |-> "none", lines |-> [o \in Orders |-> 0],
                                  recon |-> None]]
  /\ exec  = [r \in Requests |-> [state |-> "none", pay |-> None]]
  /\ lane  = NoLease
  /\ hand  = [x \in Handlers |-> Idle]
  /\ pi    = [p \in Payments |-> Unused]
  /\ late = FALSE

(***************************************************************************)
(* Orders.  The buyer confirms; an award to the buyer puts an order in     *)
(* dispute whatever its state; the award and a refund that the provider    *)
(* confirmed reduce the seller's net, unless the order is allocated.       *)
(***************************************************************************)
ElsewhereThanOrders == UNCHANGED <<alloc, req, exec, lane, hand, pi, late>>

Deliver(o) ==
  /\ order[o].status = "fulfilling"
  /\ order' = [order EXCEPT ![o].status = "completed"]
  /\ ElsewhereThanOrders

Decide(o) ==
  /\ order[o].status # "refunded"
  /\ order' = [order EXCEPT ![o].status = "disputed"]
  /\ ElsewhereThanOrders

(* Variant: proceeds may be adjusted by more than there are. *)
MayReduceTooMuch(o, n) == alloc[o] = None

MayReduce(o, n) ==
  /\ alloc[o] = None
  /\ order[o].reduced + n =< Net

Award(o, n) ==
  /\ order[o].status \in {"disputed", "refunded"}
  /\ MayReduce(o, n)
  /\ order' = [order EXCEPT ![o].reduced = @ + n]
  /\ ElsewhereThanOrders

Refund(o, n) ==
  /\ MayReduce(o, n)
  /\ order' = [order EXCEPT ![o] = [status |-> "refunded", reduced |-> @.reduced + n]]
  /\ ElsewhereThanOrders

(***************************************************************************)
(* Requests.  A request takes all that is left of every completed order    *)
(* that no other request has.  It is one step: the advisory lock of the    *)
(* seller excludes other requests and every change of an order.  An order  *)
(* that was reduced is not completed again by any route, so that what is   *)
(* left is the whole net, though the function computes it.                 *)
(***************************************************************************)
Eligible == {o \in Orders : /\ order[o].status = "completed"
                            /\ alloc[o] = None
                            /\ order[o].reduced < Net}

RequestPayout(r) ==
  /\ req[r].status = "none"
  /\ Eligible # {}
  /\ req' = [req EXCEPT ![r].status = "requested",
                        ![r].lines = [o \in Orders |-> IF o \in Eligible
                                                         THEN Net - order[o].reduced ELSE 0]]
  /\ alloc' = [o \in Orders |-> IF o \in Eligible THEN r ELSE alloc[o]]
  /\ UNCHANGED <<order, exec, lane, hand, pi, late>>

MayFollow(to) ==
  CASE to = "under_review" -> {"requested"}
    [] to = "approved"     -> {"requested", "under_review"}
    [] to = "processing"   -> {"approved"}
    [] to = "ended"        -> Open

(* The operator's transitions.  A request that ends (rejected, failed or   *)
(* cancelled, which nothing tells apart) gives its orders back, whatever   *)
(* its execution has done by then.                                         *)
Operate(r, to) ==
  /\ req[r].status \in MayFollow(to)
  /\ req' = [req EXCEPT ![r].status = to]
  /\ alloc' = [o \in Orders |-> IF to = "ended" /\ alloc[o] = r THEN None ELSE alloc[o]]
  /\ UNCHANGED <<order, exec, lane, hand, pi, late>>

--------------------------------------------------------------------------------
(***************************************************************************)
(* The route that carries a request out.  A handler that throws or returns *)
(* early goes to its finally block, the release of the lease.              *)
(***************************************************************************)
Goto(x, pc) == hand' = [hand EXCEPT ![x].pc = pc, ![x].pay = IF pc = "release" THEN None ELSE @]

Answer(x, answered, pc) == Goto(x, IF answered THEN pc ELSE "release")

(* Handler x is at pc; what it does there changes no order. *)
At(x, pc) == hand[x].pc = pc /\ UNCHANGED <<order, late>>

(* Claiming the lane.  Without the answer the handler returns before its   *)
(* try block, and the lease is left to run out.                            *)
Begin(x, r, answered) ==
  /\ At(x, "idle")
  /\ lane = NoLease
  /\ req[r].status = "processing"
  /\ exec[r].state # "attention"
  /\ lane' = [holder |-> x, req |-> r]
  /\ exec' = [exec EXCEPT ![r].state = IF @ = "none" THEN "initiating" ELSE @]
  /\ hand' = IF answered
               THEN [hand EXCEPT ![x] = [pc  |-> IF exec[r].pay = None THEN "find" ELSE "read",
                                         req |-> r, pay |-> exec[r].pay]]
               ELSE hand
  /\ UNCHANGED <<alloc, req, pi>>

(* A payment created before a crash is found again; any other incomplete   *)
(* payment of the app sends the request to review.                         *)
Incomplete == {p \in Payments : pi[p].state = "open" /\ ~ pi[p].completed}

Find(x) ==
  LET own == {p \in Incomplete : pi[p].for = hand[x].req}
  IN  /\ At(x, "find")
      /\ \/ \E p \in own : hand' = [hand EXCEPT ![x].pay = p, ![x].pc = "created"]
         \/ own = {} /\ Goto(x, IF Incomplete = {} THEN "create" ELSE "release")
      /\ UNCHANGED <<alloc, req, exec, lane, pi>>

Create(x, answered) ==
  /\ At(x, "create")
  /\ \E p \in Payments :
       /\ pi[p] = Unused
       /\ pi' = [pi EXCEPT ![p] = [Unused EXCEPT !.for = hand[x].req, !.state = "open"]]
       /\ hand' = [hand EXCEPT ![x].pay = IF answered THEN p ELSE None,
                               ![x].pc  = IF answered THEN "created" ELSE "release"]
  /\ UNCHANGED <<alloc, req, exec, lane>>

(***************************************************************************)
(* The updates of the execution row, and where the handler goes from each. *)
(* They need the lease, and nothing but completed follows completed.       *)
(***************************************************************************)
NextPc(to) ==
  CASE to = "created"   -> "read"
    [] to = "submitted" -> "complete"
    [] to = "completed" -> "confirm"
    [] to = "attention" -> "release"

Updates == {"created", "submitted", "completed", "attention"}

CanUpdate(x, to) ==
  LET r == hand[x].req
  IN  /\ lane = [holder |-> x, req |-> r]
      /\ exec[r].state = "completed" => to = "completed"
      /\ exec[r].pay \in {None, hand[x].pay}

Update(x, to, answered) ==
  /\ At(x, to)
  /\ CanUpdate(x, to)
  /\ exec' = [exec EXCEPT ![hand[x].req] = [state |-> to, pay |-> hand[x].pay]]
  /\ Answer(x, answered, NextPc(to))
  /\ UNCHANGED <<alloc, req, lane, pi>>

UpdateRefused(x, to) ==
  /\ At(x, to)
  /\ ~ CanUpdate(x, to)
  /\ Goto(x, "release")
  /\ UNCHANGED <<alloc, req, exec, lane, pi>>

(* Variant: a payment is submitted without a look at its transaction. *)
AfterReadBlind(p) == IF p.state = "cancelled" THEN "attention" ELSE "submit"

AfterRead(p) ==
  CASE p.state = "cancelled"                             -> "attention"
    [] p.state = "open" /\ p.sent = 0                    -> "submit"
    [] p.state = "open" /\ p.sent > 0 /\ p.verified      -> "submitted"
    [] p.state = "open" /\ p.sent > 0 /\ ~ p.verified    -> "attention"

Read(x) ==
  /\ At(x, "read")
  /\ Goto(x, AfterRead(pi[hand[x].pay]))
  /\ UNCHANGED <<alloc, req, exec, lane, pi>>

Submit(x, answered) ==
  /\ hand[x].pc = "submit"
  /\ pi[hand[x].pay].state = "open"
  /\ pi' = [pi EXCEPT ![hand[x].pay].sent = @ + 1]
  /\ late' = (late \/ lane # [holder |-> x, req |-> hand[x].req])
  /\ Answer(x, answered, "submitted")
  /\ UNCHANGED <<books, exec, lane>>

Complete(x, answered) ==
  LET p == hand[x].pay
  IN  /\ At(x, "complete")
      /\ pi' = [pi EXCEPT ![p].completed = TRUE]
      /\ Answer(x, answered, IF pi[p].verified THEN "completed" ELSE "attention")
      /\ UNCHANGED <<alloc, req, exec, lane>>

(* Pi refuses to submit what was cancelled, and may refuse to complete a   *)
(* payment a second time.                                                  *)
PiRefuses(x) ==
  /\ \/ At(x, "submit") /\ pi[hand[x].pay].state = "cancelled"
     \/ At(x, "complete") /\ pi[hand[x].pay].completed
  /\ Goto(x, "release")
  /\ UNCHANGED <<alloc, req, exec, lane, pi>>

(***************************************************************************)
(* The evidence is recorded, then the request is paid against it.  Neither *)
(* function looks at the lease or at the execution.                        *)
(***************************************************************************)
CanConfirm(x) ==
  LET r == hand[x].req
  IN  req[r].status \in {"processing", "paid"} /\ req[r].recon \in {None, hand[x].pay}

Confirm(x, answered) ==
  /\ At(x, "confirm")
  /\ CanConfirm(x)
  /\ req' = [req EXCEPT ![hand[x].req].recon = hand[x].pay]
  /\ Answer(x, answered, "pay")
  /\ UNCHANGED <<alloc, exec, lane, pi>>

ConfirmRefused(x) ==
  /\ At(x, "confirm")
  /\ ~ CanConfirm(x)
  /\ Goto(x, "release")
  /\ UNCHANGED <<alloc, req, exec, lane, pi>>

(* Variant: the evidence is enough, whatever became of the request. *)
CanPayWhenever(x) == req[hand[x].req].recon = hand[x].pay

CanPay(x) ==
  LET r == hand[x].req
  IN  req[r].status = "processing" /\ req[r].recon = hand[x].pay

Pay(x) ==
  /\ At(x, "pay")
  /\ req' = IF CanPay(x) THEN [req EXCEPT ![hand[x].req].status = "paid"] ELSE req
  /\ Goto(x, "release")
  /\ UNCHANGED <<alloc, exec, lane, pi>>

Release(x) ==
  /\ At(x, "release")
  /\ lane' = IF lane = [holder |-> x, req |-> hand[x].req] THEN NoLease ELSE lane
  /\ hand' = [hand EXCEPT ![x] = Idle]
  /\ UNCHANGED <<alloc, req, exec, pi>>

(* A call fails with no effect. *)
Fail(x) ==
  /\ At(x, hand[x].pc)
  /\ hand[x].pc \notin {"idle", "release"}
  /\ Goto(x, "release")
  /\ UNCHANGED <<alloc, req, exec, lane, pi>>

(* The process stops; or the call of the release itself fails. *)
Crash(x) ==
  /\ At(x, hand[x].pc)
  /\ hand[x].pc # "idle"
  /\ hand' = [hand EXCEPT ![x] = Idle]
  /\ UNCHANGED <<alloc, req, exec, lane, pi>>

(***************************************************************************)
(* The two recovery routes: one reconciles any completed payment made for  *)
(* the request, the other only completes, at Pi, the payment of an         *)
(* execution that needs no attention.                                      *)
(***************************************************************************)
Reconcile(x, r, p) ==
  /\ At(x, "idle")
  /\ lane.holder # x
  /\ req[r].status = "processing"
  /\ pi[p].for = r /\ pi[p].completed /\ pi[p].verified
  /\ hand' = [hand EXCEPT ![x] = [pc |-> "confirm", req |-> r, pay |-> p]]
  /\ UNCHANGED <<alloc, req, exec, lane, pi>>

CompleteOnly(r) ==
  LET p == exec[r].pay
  IN  /\ req[r].status \in {"processing", "paid"}
      /\ exec[r].state \in {"created", "submitted", "completed"}
      /\ pi[p].verified /\ ~ pi[p].completed
      /\ pi' = [pi EXCEPT ![p].completed = TRUE]
      /\ UNCHANGED <<books, exec, lane, hand, late>>

--------------------------------------------------------------------------------
(* Five minutes have passed since the lease was taken. *)
Lapse ==
  /\ lane # NoLease
  /\ lane' = NoLease
  /\ UNCHANGED <<books, exec, hand, pi, late>>

(* Pi on its own, as in PayoutExecution. *)
PiVerify(p) ==
  /\ pi[p].sent > 0 /\ ~ pi[p].verified
  /\ pi' = [pi EXCEPT ![p].verified = TRUE]
  /\ UNCHANGED <<books, exec, lane, hand, late>>

PiCancel(p) ==
  /\ pi[p].state = "open" /\ pi[p].sent = 0
  /\ pi' = [pi EXCEPT ![p].state = "cancelled"]
  /\ UNCHANGED <<books, exec, lane, hand, late>>

PiForget(p) ==
  /\ pi[p].state = "cancelled"
  /\ \A r \in Requests : exec[r].pay # p
  /\ \A x \in Handlers : hand[x].pay # p
  /\ pi' = [pi EXCEPT ![p] = Unused]
  /\ UNCHANGED <<books, exec, lane, hand, late>>

--------------------------------------------------------------------------------
(* The steps of a handler that go as they should. *)
Step(x) ==
  \/ Find(x) \/ Create(x, TRUE) \/ Read(x) \/ Submit(x, TRUE) \/ Complete(x, TRUE)
  \/ PiRefuses(x)
  \/ \E to \in Updates : Update(x, to, TRUE) \/ UpdateRefused(x, to)
  \/ Confirm(x, TRUE) \/ ConfirmRefused(x) \/ Pay(x)
  \/ Release(x)

(* The ways a call of a handler goes wrong. *)
Fault(x) ==
  \/ \E r \in Requests : Begin(x, r, FALSE)
  \/ Create(x, FALSE) \/ Submit(x, FALSE) \/ Complete(x, FALSE) \/ Confirm(x, FALSE)
  \/ \E to \in Updates : Update(x, to, FALSE)
  \/ Fail(x) \/ Crash(x)

OrderStep(o) ==
  \/ Deliver(o) \/ Decide(o)
  \/ \E n \in 1 .. Net : Award(o, n)
  \/ \E n \in 0 .. Net : Refund(o, n)

Operator(r) ==
  \/ \E to \in {"under_review", "approved", "processing", "ended"} : Operate(r, to)
  \/ CompleteOnly(r)

Pi == \E p \in Payments : PiVerify(p) \/ PiCancel(p) \/ PiForget(p)

Calls(x) ==
  \E r \in Requests : Begin(x, r, TRUE) \/ \E p \in Payments : Reconcile(x, r, p)

Next ==
  \/ \E o \in Orders : OrderStep(o)
  \/ \E r \in Requests : RequestPayout(r) \/ Operator(r)
  \/ \E x \in Handlers : Calls(x) \/ Step(x) \/ Fault(x)
  \/ Lapse
  \/ Pi

Spec == Init /\ [][Next]_vars

--------------------------------------------------------------------------------
(* The types of the variables; in particular adjustments never take more   *)
(* off an order than the seller got for it.                                *)
TypeOK ==
  /\ order \in [Orders -> [status  : {"fulfilling", "completed", "disputed", "refunded"},
                            reduced : 0 .. Net]]
  /\ alloc \in [Orders -> Requests \cup {None}]
  /\ req \in [Requests -> [status : Open \cup {"none", "paid", "ended"},
                             lines  : [Orders -> 0 .. Net],
                             recon  : Payments \cup {None}]]
  /\ exec \in [Requests -> [state : Updates \cup {"none", "initiating"},
                              pay   : Payments \cup {None}]]
  /\ lane \in [holder : Handlers \cup {None}, req : Requests \cup {None}]
  /\ hand \in [Handlers -> [pc  : Updates \cup {"idle", "find", "create", "read", "submit",
                                                 "complete", "confirm", "pay", "release"},
                              req : Requests \cup {None},
                              pay : Payments \cup {None}]]
  /\ pi \in [Payments -> [for       : Requests \cup {None},
                            state     : {"unused", "open", "cancelled"},
                            sent      : Nat,
                            verified  : BOOLEAN,
                            completed : BOOLEAN]]
  /\ late \in BOOLEAN

(***************************************************************************)
(* The seller gets the proceeds of an order once.  Two transfers never     *)
(* carry the same order, and a transfer carries no more of it than refunds *)
(* and awards left, whatever crashed, went unanswered or was retried; and  *)
(* it is made once, as long as no handler submits after its lease ran out, *)
(* which it does not check.  This holds of requests the operator did not   *)
(* end.                                                                    *)
(***************************************************************************)
Carries(p, o) == /\ pi[p].sent > 0
                 /\ req[pi[p].for].lines[o] > 0
                 /\ req[pi[p].for].status # "ended"

SellerPaidOnce ==
  \A p \in Payments, o \in Orders :
    Carries(p, o) =>
      /\ ~ late => pi[p].sent = 1
      /\ req[pi[p].for].lines[o] + order[o].reduced =< Net
      /\ \A q \in Payments : Carries(q, o) => p = q

(***************************************************************************)
(* The books agree with the orders and with Pi.  A request that has not    *)
(* ended has exactly its lines allocated to it, at what is left of the     *)
(* proceeds of orders that are not refunded.  A paid request has the       *)
(* verified and completed transaction of a payment made for it as its      *)
(* evidence, and a transfer is on record in the execution of its request.  *)
(***************************************************************************)
LinesAreReserved ==
  \A r \in Requests, o \in Orders :
    /\ alloc[o] = r <=> req[r].status # "ended" /\ req[r].lines[o] > 0
    /\ alloc[o] = r => /\ req[r].lines[o] = Net - order[o].reduced
                       /\ order[o].status # "refunded"

PaidIsConfirmed ==
  \A r \in Requests :
    req[r].status = "paid" =>
      \E p \in Payments : /\ req[r].recon = p /\ pi[p].for = r
                          /\ pi[p].sent > 0 /\ pi[p].verified /\ pi[p].completed

TransfersAreOnRecord ==
  \A p \in Payments : pi[p].sent > 0 => exec[pi[p].for].pay = p

BooksAgree == LinesAreReserved /\ PaidIsConfirmed /\ TransfersAreOnRecord

--------------------------------------------------------------------------------
Standing(status) ==
  CASE status = "fulfilling" -> "coming"
    [] status = "completed"  -> "due"
    [] OTHER                 -> "contested"

Phase(status) == IF status \in Open THEN "open" ELSE status

Promise ==
  INSTANCE SellerPromise
    WITH standing <- [o \in Orders |-> Standing(order[o].status)],
         left     <- [o \in Orders |-> Net - order[o].reduced],
         held     <- alloc,
         phase    <- [r \in Requests |-> Phase(req[r].status)],
         amount   <- [r \in Requests |-> req[r].lines],
         sent     <- {r \in Requests : \E p \in Payments : pi[p].for = r /\ pi[p].sent > 0}

(***************************************************************************)
(* Orders, requests, adjustments, the routes with lost answers and lapsed  *)
(* leases, and the operator do together what SellerPromise says: a request *)
(* takes all that is due and no other has, what it takes is not adjusted,  *)
(* it is paid only once its money was sent, and an end is an end.          *)
(***************************************************************************)
PromiseKept == Promise!Spec
================================================================================
