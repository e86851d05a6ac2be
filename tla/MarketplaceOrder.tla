--------------------------- MODULE MarketplaceOrder ---------------------------
(***************************************************************************)
(* Marketplace orders: the stock of one listing, the orders that reserve   *)
(* it, and the routes that pay, attach a payment to, cancel and deliver    *)
(* an order.  Database functions are transactions, one step each; a route  *)
(* handler is a sequence of them.  Every order is for the same quantity,   *)
(* in which the stock is counted.                                          *)
(***************************************************************************)
EXTENDS Naturals, FiniteSets

CONSTANTS
  Orders,     \* the orders that may be made
  Handlers,   \* route invocations that may be in progress at a time
  Currencies, \* in which the seller offers the listing, now or later: "GHC", "PI" or both
  MaxStock,   \* the most a seller puts up
  Shown,      \* the statuses the seller gives the listing
  None

ASSUME OrdersAssumption == IsFiniteSet(Orders) /\ None \notin Orders
ASSUME ListingAssumption ==
  /\ Currencies \subseteq {"GHC", "PI"} /\ MaxStock \in Nat
  /\ Shown \subseteq {"active", "paused", "sold_out"}

VARIABLES
  listing,    \* the stock that is left, and whether the listing is shown
  order,      \* order[o]: the row of order o
  paid,       \* paid[o]: the ledger spend of o is posted, or its Pi intent is completed
  hand,       \* hand[h]: what handler h does next
  released    \* released[o]: the operator released the claim of o when it was paid, and its
              \* payment has not been saved since; a history variable, no code reads it

vars == <<listing, order, paid, hand, released>>

(* An order is reserved while it holds unsold stock, and live until the fifteen minutes are over. *)
NoOrder == [status |-> "none", pay |-> "none", currency |-> "none", reserved |-> FALSE,
            live |-> FALSE, claimed |-> FALSE, delivered |-> FALSE]

Idle == [pc |-> "idle", order |-> None, route |-> "none", seen |-> "none"]

Init ==
  /\ listing \in [avail : 0..MaxStock, status : {"active"}]
  /\ order = [o \in Orders |-> NoOrder]
  /\ paid  = [o \in Orders |-> FALSE]
  /\ hand  = [h \in Handlers |-> Idle]
  /\ released = [o \in Orders |-> FALSE]

--------------------------------------------------------------------------------
(***************************************************************************)
(* Stock.  A trigger on every change of an order's status gives back the   *)
(* reserved stock of a cancelled order, and commits that of a paid one.    *)
(***************************************************************************)

(* Variant: a cancelled order keeps its reservation. *)
MovedOnly(r, to) == [r EXCEPT !.status = to]

(* Row r with another status, after the trigger. *)
Moved(r, to) ==
  CASE r.status # to /\ r.reserved /\ to = "cancelled" ->
         [r EXCEPT !.status = to, !.reserved = FALSE, !.live = FALSE]
    [] r.status # to /\ r.reserved /\ to = "payment_verified" ->
         [r EXCEPT !.status = to, !.reserved = FALSE, !.live = FALSE, !.claimed = FALSE]
    [] OTHER -> [r EXCEPT !.status = to]

GivenBack(r, to) == r.reserved /\ r.status # to /\ to = "cancelled"

Restocked(l, n) ==
  [avail  |-> l.avail + n,
   status |-> IF n > 0 /\ l.status = "sold_out" THEN "active" ELSE l.status]

(* Variant: the sweep does not look at the claim. *)
ExpiredClaimOrNot(r) ==
  /\ r.status = "payment_pending" /\ r.pay = "pending"
  /\ r.reserved /\ ~ r.live

Expired(r) ==
  /\ r.status = "payment_pending" /\ r.pay = "pending"
  /\ r.reserved /\ ~ r.live
  /\ ~ r.claimed

(* What gh_marketplace_release_expired_reservations makes of orders and listing. *)
SweptOrders ==
  [o \in Orders |-> IF Expired(order[o])
                    THEN [Moved(order[o], "cancelled") EXCEPT !.pay = "failed"]
                    ELSE order[o]]

SweptListing == Restocked(listing, Cardinality({o \in Orders : Expired(order[o])}))

(* An update of the status of one order. *)
Move(o, to) ==
  /\ order' = [order EXCEPT ![o] = Moved(@, to)]
  /\ listing' = Restocked(listing, IF GivenBack(order[o], to) THEN 1 ELSE 0)

--------------------------------------------------------------------------------
(***************************************************************************)
(* The transition policy, and the payment claim.                           *)
(***************************************************************************)
MayFollow(to) ==
  CASE to = "payment_verified" -> {"payment_pending"}
    [] to = "confirmed"        -> {"payment_verified"}
    [] to = "cancelled"        -> {"payment_pending", "payment_verified", "confirmed", "disputed"}

(* Variant: a paid order may be cancelled. *)
AcceptsPaid(r, to) ==
  /\ r.status \in MayFollow(to)
  /\ to = "cancelled" => ~ r.claimed
  /\ to \in {"payment_verified", "confirmed"} => r.pay = "verified"

Accepts(r, to) ==
  /\ r.status \in MayFollow(to)
  /\ to = "cancelled" => ~ r.claimed /\ r.pay \notin {"verified", "refunded"}
  /\ to \in {"payment_verified", "confirmed"} => r.pay = "verified"

(* Variant: a second payment may claim the order. *)
PayableAgain(r) ==
  /\ r.status = "payment_pending" /\ r.pay = "pending"
  /\ r.reserved /\ r.live

Payable(r) ==
  /\ r.status = "payment_pending" /\ r.pay = "pending"
  /\ r.reserved /\ r.live
  /\ ~ r.claimed

--------------------------------------------------------------------------------
(* Variant: a listing may be sold as long as it is shown. *)
AvailableWhenShown == SweptListing.status = "active"

Available == SweptListing.status = "active" /\ SweptListing.avail >= 1

(***************************************************************************)
(* The buyer makes an order, in the currency the listing then has.  An     *)
(* expired reservation is given back first.                                *)
(* A replay under the same key, and an order that is refused, only sweep.  *)
(***************************************************************************)
Create(o, currency) ==
  /\ order[o].status = "none"
  /\ Available
  /\ order' = [SweptOrders EXCEPT ![o] =
                 [NoOrder EXCEPT !.status = "payment_pending", !.pay = "pending",
                                 !.currency = currency, !.reserved = TRUE, !.live = TRUE]]
  /\ listing' = [avail  |-> SweptListing.avail - 1,
                 status |-> IF SweptListing.avail = 1 THEN "sold_out" ELSE "active"]
  /\ UNCHANGED <<paid, hand, released>>

Sweep ==
  /\ order' = SweptOrders /\ listing' = SweptListing
  /\ UNCHANGED <<paid, hand, released>>

(* Fifteen minutes pass. *)
Expire(o) ==
  /\ order[o].reserved /\ order[o].live
  /\ order' = [order EXCEPT ![o].live = FALSE]
  /\ UNCHANGED <<listing, paid, hand, released>>

(* The user's Pi payment for the order is completed (PaymentIntent). *)
PiPaid(o) ==
  /\ order[o].currency = "PI" /\ ~ paid[o]
  /\ paid' = [paid EXCEPT ![o] = TRUE]
  /\ UNCHANGED <<listing, order, hand, released>>

(* The seller writes the listing, stock and currency included, as the form shows it. *)
SellerEdit ==
  /\ listing' \in [avail : 0..MaxStock, status : Shown]
  /\ UNCHANGED <<order, paid, hand, released>>

--------------------------------------------------------------------------------
(***************************************************************************)
(* Handlers: pay, the part of the fulfil route that attaches a Pi payment  *)
(* to its order, and a buyer's or seller's other actions (act).            *)
(***************************************************************************)
Goto(h, pc) ==
  hand' = [hand EXCEPT ![h] = IF pc = "done" THEN Idle ELSE [@ EXCEPT !.pc = pc]]

At(h, o, pc) == hand[h].pc = pc /\ hand[h].order = o

(* Handler h has claimed order o and not saved the payment yet. *)
Paying(h, o) == hand[h].order = o /\ hand[h].pc \in {"spend", "release", "save"}

(* Every route first sweeps, then reads the order. *)
Start(h, o, route) ==
  /\ hand[h] = Idle /\ order[o].status # "none"
  /\ route = "fulfill" => order[o].currency = "PI" /\ paid[o]
  /\ order' = SweptOrders /\ listing' = SweptListing
  /\ hand' = [hand EXCEPT ![h] =
                [Idle EXCEPT !.pc = IF route = "act" THEN "act" ELSE "load",
                             !.order = o, !.route = route]]
  /\ UNCHANGED <<paid, released>>

(* What the pay route does with the order it read. *)
Pay(o) ==
  LET r == order[o] IN
  CASE r.currency = "PI" /\ r.pay = "verified" /\ r.status = "payment_pending"  -> "verify"
    [] r.currency = "PI" /\ r.pay = "verified" /\ r.status = "payment_verified" -> "confirm"
    [] r.status = "payment_pending" /\ (r.currency = "PI" => r.pay # "verified" /\ paid[o]) ->
         "claim"
    [] OTHER -> "done"

Attach(o) ==
  IF order[o].pay # "verified" /\ order[o].status \notin {"confirmed", "completed"}
  THEN "claim" ELSE "done"

Load(h, o) ==
  /\ At(h, o, "load")
  /\ LET next == IF hand[h].route = "pay" THEN Pay(o) ELSE Attach(o) IN
     hand' = [hand EXCEPT ![h] =
                IF next = "done" THEN Idle
                ELSE [@ EXCEPT !.pc = next,
                               !.seen = IF next = "claim" THEN order[o].status ELSE "none"]]
  /\ UNCHANGED <<listing, order, paid, released>>

Claim(h, o) ==
  /\ At(h, o, "claim")
  /\ listing' = SweptListing
  /\ IF Payable(SweptOrders[o])
     THEN /\ order' = [SweptOrders EXCEPT ![o].claimed = TRUE]
          /\ Goto(h, IF order[o].currency = "GHC" THEN "spend" ELSE "save")
     ELSE order' = SweptOrders /\ Goto(h, "done")
  /\ UNCHANGED <<paid, released>>

(* The spend names the order: a second one finds the first. *)
Spend(h, o) ==
  /\ At(h, o, "spend")
  /\ paid' = [paid EXCEPT ![o] = TRUE]
  /\ Goto(h, "save")
  /\ UNCHANGED <<listing, order, released>>

SpendRefused(h, o) ==
  /\ At(h, o, "spend") /\ ~ paid[o]
  /\ Goto(h, "release")
  /\ UNCHANGED <<listing, order, paid, released>>

ReleaseClaim(h, o) ==
  /\ At(h, o, "release")
  /\ order' = [order EXCEPT ![o].claimed =
                 @ /\ ~ (order[o].status = "payment_pending" /\ order[o].pay = "pending")]
  /\ Goto(h, "done")
  /\ UNCHANGED <<listing, paid, released>>

(* The row is written whole, with the status that was read before the claim. *)
Save(h, o) ==
  /\ At(h, o, "save")
  /\ order' = [order EXCEPT ![o] = [Moved(@, hand[h].seen) EXCEPT !.pay = "verified"]]
  /\ listing' = Restocked(listing, IF GivenBack(order[o], hand[h].seen) THEN 1 ELSE 0)
  /\ hand' = [hand EXCEPT ![h].pc = "verify", ![h].seen = "none"]
  /\ released' = [released EXCEPT ![o] = FALSE]
  /\ UNCHANGED paid

(* A call of gh_marketplace_order_transition, and the next call by its answer. *)
Transition(h, o, to, ok, refused) ==
  /\ IF Accepts(order[o], to) THEN Move(o, to) ELSE UNCHANGED <<order, listing>>
  /\ Goto(h, IF order[o].status = to \/ Accepts(order[o], to) THEN ok ELSE refused)
  /\ UNCHANGED <<paid, released>>

(* The fulfil route does not look at the answer. *)
Verify(h, o) ==
  /\ At(h, o, "verify")
  /\ Transition(h, o, "payment_verified", "confirm",
                IF hand[h].route = "fulfill" THEN "confirm" ELSE "done")

Confirm(h, o) ==
  /\ At(h, o, "confirm")
  /\ Transition(h, o, "confirmed", "done", "done")

Cancel(h, o) ==
  /\ At(h, o, "act")
  /\ Transition(h, o, "cancelled", "done", "done")

--------------------------------------------------------------------------------
(***************************************************************************)
(* gh_marketplace_order_commerce_update: what buyer and seller do with the *)
(* order itself.  A call whose guard fails changes nothing (Declined).     *)
(***************************************************************************)
Commerce(h, o, guard, to) ==
  /\ At(h, o, "act") /\ guard
  /\ Move(o, to) /\ Goto(h, "done")
  /\ UNCHANGED <<paid, released>>

SellerFulfill(h, o) ==
  /\ At(h, o, "act")
  /\ order[o].pay = "verified" /\ order[o].status = "confirmed"
  /\ order' = [order EXCEPT ![o] = [Moved(@, "fulfilling") EXCEPT !.delivered = FALSE]]
  /\ Goto(h, "done")
  /\ UNCHANGED <<listing, paid, released>>

SellerMarkDelivered(h, o) ==
  /\ At(h, o, "act") /\ order[o].status = "fulfilling"
  /\ order' = [order EXCEPT ![o].delivered = TRUE]
  /\ Goto(h, "done")
  /\ UNCHANGED <<listing, paid, released>>

BuyerConfirm(h, o) ==
  /\ At(h, o, "act")
  /\ order[o].pay = "verified" /\ order[o].status = "fulfilling" /\ order[o].delivered
  /\ order' = [order EXCEPT ![o] = [Moved(@, "completed") EXCEPT !.delivered = FALSE]]
  /\ Goto(h, "done")
  /\ UNCHANGED <<listing, paid, released>>

Dispute(h, o) ==
  Commerce(h, o, /\ order[o].pay = "verified"
                 /\ order[o].status \in {"confirmed", "fulfilling"}, "disputed")

CancelUnpaid(h, o) ==
  Commerce(h, o, /\ ~ order[o].claimed /\ order[o].pay \notin {"verified", "refunded"}
                 /\ order[o].status = "payment_pending", "cancelled")

Declined(h, o) ==
  /\ At(h, o, "act") /\ Goto(h, "done")
  /\ UNCHANGED <<listing, order, paid, released>>

Act(h, o) ==
  \/ Cancel(h, o) \/ SellerFulfill(h, o) \/ SellerMarkDelivered(h, o)
  \/ BuyerConfirm(h, o) \/ Dispute(h, o) \/ CancelUnpaid(h, o) \/ Declined(h, o)

--------------------------------------------------------------------------------
(***************************************************************************)
(* Operators.                                                              *)
(***************************************************************************)

(* An award to the buyer, whatever the state of the order. *)
Decide(o) ==
  /\ order[o].status \notin {"none", "refunded"}
  /\ Move(o, "disputed")
  /\ UNCHANGED <<paid, hand, released>>

(* A refund that the provider confirmed.  It needs the proceeds that were  *)
(* recorded when the payment was verified.                                 *)
Refund(o) ==
  /\ order[o].pay = "verified"
  /\ order' = [order EXCEPT ![o] = [Moved(@, "refunded") EXCEPT !.pay = "refunded"]]
  /\ UNCHANGED <<listing, paid, hand, released>>

(* The operator releases a stale claim.  It has to be five minutes old at  *)
(* least, longer than the calls of a handler may take, so nobody is paying *)
(* any more.  Whether the order was paid makes no difference: the values   *)
(* the function takes for paid ("paid", "fulfilled") are never written, of *)
(* those it refuses only the status "completed" is.                        *)
ForceRelease(o) ==
  /\ order[o].claimed /\ order[o].status # "completed"
  /\ \A h \in Handlers : ~ Paying(h, o)
  /\ order' = [order EXCEPT ![o].claimed = FALSE]
  /\ released' = [released EXCEPT ![o] = @ \/ (paid[o] /\ order[o].pay = "pending")]
  /\ UNCHANGED <<listing, paid, hand>>

(***************************************************************************)
(* The process stops, before or after any call.  The routes answer at once *)
(* when a call fails or its answer is lost, which is the same to the rest. *)
(* Only the fulfil route goes on when its first transition fails.          *)
(***************************************************************************)
Crash(h) ==
  /\ hand[h] # Idle
  /\ hand' = [hand EXCEPT ![h] = Idle]
  /\ UNCHANGED <<listing, order, paid, released>>

VerifyFails(h, o) ==
  /\ At(h, o, "verify") /\ hand[h].route = "fulfill"
  /\ Goto(h, "confirm")
  /\ UNCHANGED <<listing, order, paid, released>>

Step(h, o) ==
  \/ Load(h, o) \/ Claim(h, o) \/ Spend(h, o) \/ SpendRefused(h, o) \/ ReleaseClaim(h, o)
  \/ Save(h, o) \/ Verify(h, o) \/ Confirm(h, o) \/ Act(h, o)

Undisturbed ==
  \/ Sweep \/ SellerEdit
  \/ \E o \in Orders :
       \/ Expire(o) \/ PiPaid(o) \/ \E currency \in Currencies : Create(o, currency)
       \/ Decide(o) \/ Refund(o) \/ ForceRelease(o)
       \/ \E h \in Handlers :
            Step(h, o) \/ \E route \in {"pay", "fulfill", "act"} : Start(h, o, route)

Next ==
  \/ Undisturbed
  \/ \E h \in Handlers : Crash(h) \/ \E o \in Orders : VerifyFails(h, o)

Spec == Init /\ [][Next]_vars

--------------------------------------------------------------------------------
(***************************************************************************)
(* Properties.                                                             *)
(***************************************************************************)
Statuses == {"none", "payment_pending", "payment_verified", "confirmed", "fulfilling",
             "completed", "disputed", "refunded", "cancelled"}

Rows == [status : Statuses, pay : {"none", "pending", "failed", "verified", "refunded"},
         currency : {"none", "GHC", "PI"}, reserved : BOOLEAN, live : BOOLEAN,
         claimed : BOOLEAN, delivered : BOOLEAN]

Hands == [pc : {"idle", "load", "claim", "spend", "release", "save", "verify", "confirm", "act"},
          order : Orders \cup {None}, route : {"none", "pay", "fulfill", "act"},
          seen : Statuses]

(* The type of every variable; the stock never gets negative. *)
TypeOK ==
  /\ listing \in [avail : Nat, status : {"active", "paused", "sold_out"}]
  /\ order \in [Orders -> Rows]
  /\ paid \in [Orders -> BOOLEAN]
  /\ hand \in [Handlers -> Hands]
  /\ released \in [Orders -> BOOLEAN]

(* The stock an order holds: it is reserved, or it was sold. *)
Holds(r) == r.reserved \/ r.pay \in {"verified", "refunded"}

Supply == listing.avail + Cardinality({o \in Orders : Holds(order[o])})

(***************************************************************************)
(* Whatever happens to orders (made, swept, cancelled, paid, disputed,     *)
(* refunded, saved over a row that has changed since), no unit of stock is *)
(* given back twice, sold twice or lost.  Only the seller changes the sum. *)
(***************************************************************************)
StockIsConserved == [][order' # order => Supply' = Supply]_vars

(***************************************************************************)
(* From the claim to the saved payment the order stays claimed, keeps its  *)
(* stock and is paid by no one else: neither the sweep, nor a cancellation,*)
(* nor the operator gets in between.                                       *)
(***************************************************************************)
ClaimIsHeld ==
  \A o \in Orders, h \in Handlers :
    Paying(h, o) =>
      /\ order[o].claimed /\ order[o].reserved /\ order[o].pay = "pending"
      /\ \A g \in Handlers \ {h} : ~ Paying(g, o)

(***************************************************************************)
(* An order whose payment is verified was paid, is never cancelled, and    *)
(* keeps its stock until its status has followed, whether or not its claim *)
(* still stands: the operator may release that of a verified order too.    *)
(***************************************************************************)
PaidOrdersKeepTheirStock ==
  \A o \in Orders :
    order[o].pay = "verified" =>
      /\ paid[o] /\ order[o].status # "cancelled"
      /\ order[o].status = "payment_pending" => order[o].reserved

(***************************************************************************)
(* A GHC order is cancelled after it was paid only if the operator has     *)
(* released its claim after the payment: the spend comes after the claim, and neither the    *)
(* sweep nor a cancellation touches a claimed order, also when the handler *)
(* that claimed it is gone.  The operator's release has no such care, and  *)
(* the sweep then cancels an order whose spend is posted.                  *)
(***************************************************************************)
CancelledIsUnspent ==
  \A o \in Orders :
    order[o].currency = "GHC" /\ order[o].status = "cancelled" /\ paid[o] => released[o]

(* What OrderPromise tells apart of a row. *)
Phase(r) ==
  CASE r.status = "none"                  -> "none"
    [] r.pay \in {"verified", "refunded"} -> "sold"
    [] OTHER -> IF r.reserved THEN (IF r.claimed THEN "claimed" ELSE "held") ELSE "free"

Promise ==
  INSTANCE OrderPromise
    WITH stock    <- listing.avail,
         phase    <- [o \in Orders |-> Phase(order[o])],
         currency <- [o \in Orders |-> order[o].currency]

(***************************************************************************)
(* Sweeps, claims, spends, late saves and operators together do what       *)
(* OrderPromise says: a claim ends unpaid, with the sale or by the         *)
(* operator's release and in no other way, an order is paid in GHC only    *)
(* while it is claimed, and a unit goes back to the listing once, from an  *)
(* order nobody has claimed.                                               *)
(***************************************************************************)
PromiseKept == Promise!Spec
================================================================================
