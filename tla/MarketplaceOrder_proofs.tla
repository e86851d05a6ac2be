------------------------ MODULE MarketplaceOrder_proofs ------------------------
(***************************************************************************)
(* The safety properties of MarketplaceOrder, for any number of orders and *)
(* handlers, in either currency.                                           *)
(*                                                                         *)
(* The inductive invariant says which rows there are (RowOK) and what a    *)
(* handler may count on between two of its calls (HandOK).  It may count   *)
(* on it because no step of anybody else takes an order back to where a    *)
(* payment may be claimed, nor touches one that a handler pays (Kept).     *)
(* What a claim keeps from being cancelled when its handler is gone, the   *)
(* operator's release gives up; RowOK has to say so.                       *)
(***************************************************************************)
EXTENDS MarketplaceOrder, FiniteSetTheorems, TLAPS

(* The rows there are; p tells whether the order was paid, e whether it was released then. *)
RowOK(r, p, e) ==
  /\ r.status = "none" <=> r.pay = "none"
  /\ r.status = "none" <=> r.currency = "none"
  /\ r.status = "none" => ~ r.reserved /\ ~ r.claimed /\ ~ p
  /\ r.status = "cancelled" => ~ r.reserved /\ ~ r.claimed
  /\ r.status = "refunded" <=> r.pay = "refunded"
  /\ r.status \in {"payment_verified", "confirmed", "fulfilling", "completed"} =>
       r.pay = "verified"
  /\ r.pay = "verified" => r.status # "cancelled"
  /\ r.pay = "verified" /\ r.status = "payment_pending" => r.reserved
  /\ r.claimed /\ r.pay \notin {"verified", "refunded"} => r.reserved /\ r.pay = "pending"
  /\ r.pay \in {"verified", "refunded"} => p
  /\ r.currency = "GHC" /\ p => r.claimed \/ r.pay \in {"verified", "refunded"} \/ e

(* What handler record t counts on: r is the row of its order, p whether that is paid. *)
HandOK(t, r, p) ==
  /\ t.order \in Orders /\ t.pc # "idle" /\ r.status # "none"
  /\ t.pc = "load" => t.route \in {"pay", "fulfill"}
  /\ t.pc \in {"load", "claim"} /\ t.route = "fulfill" => p
  /\ t.pc = "claim" /\ r.currency = "PI" => p
  /\ t.pc = "claim" /\ r.status = "payment_pending" /\ r.pay = "pending" =>
       t.seen = "payment_pending"
  /\ t.pc = "release" => r.currency = "GHC" /\ ~ p
  /\ t.pc = "spend" => r.currency = "GHC"
  /\ t.pc = "save" => p
  /\ t.pc \in {"spend", "release", "save"} =>
       r.claimed /\ r.reserved /\ r.pay = "pending" /\ t.seen = "payment_pending"

IInv ==
  /\ TypeOK
  /\ \A o \in Orders : RowOK(order[o], paid[o], released[o])
  /\ \A h \in Handlers :
       hand[h] = Idle \/ HandOK(hand[h], order[hand[h].order], paid[hand[h].order])
  /\ \A o \in Orders : \A h, g \in Handlers : Paying(h, o) /\ Paying(g, o) => h = g

(* Row r of an order, when somebody else's step turns it into s (and paid p into q). *)
Kept(r, s, p, q) ==
  /\ p => q
  /\ r.status # "none" =>
       /\ s.status # "none" /\ s.currency = r.currency
       /\ s.status = "payment_pending" /\ s.pay = "pending" =>
            r.status = "payment_pending" /\ r.pay = "pending"

KeptClaimed(r, s, p, q) ==
  r.claimed /\ r.reserved /\ r.pay = "pending" =>
    s.claimed /\ s.reserved /\ s.pay = "pending" /\ (r.currency = "GHC" => q = p)

Pays == {"spend", "release", "save"}

Listing == [avail : Nat, status : {"active", "paused", "sold_out"}]

--------------------------------------------------------------------------------
(* A handler goes on counting on what it counted on. *)
LEMMA HandKept ==
  ASSUME NEW t \in Hands, NEW r \in Rows, NEW s \in Rows, NEW p \in BOOLEAN, NEW q \in BOOLEAN,
         HandOK(t, r, p), Kept(r, s, p, q), t.pc \in Pays => KeptClaimed(r, s, p, q)
  PROVE  HandOK(t, s, q)
BY DEF HandOK, Kept, KeptClaimed, Pays, Hands, Rows

(* A step that keeps the rows in order, and at most one handler's next call. *)
LEMMA Effect ==
  ASSUME IInv,
         listing' \in Listing, order' \in [Orders -> Rows], paid' \in [Orders -> BOOLEAN],
         released' \in [Orders -> BOOLEAN],
         \A o \in Orders : /\ RowOK(order'[o], paid'[o], released'[o])
                           /\ Kept(order[o], order'[o], paid[o], paid'[o]),
         NEW K \in SUBSET Handlers,
         \A g \in Handlers \ K : hand'[g] = hand[g],
         \A g \in Handlers \ K, o \in Orders :
           Paying(g, o) => KeptClaimed(order[o], order'[o], paid[o], paid'[o]),
         hand' \in [Handlers -> Hands],
         \A h \in K : \/ hand'[h] = Idle
                      \/ HandOK(hand'[h], order'[hand'[h].order], paid'[hand'[h].order]),
         \A h \in K, o \in Orders, g \in Handlers :
           Paying(h, o)' /\ Paying(g, o)' => h = g
  PROVE  IInv'
<1>1. TypeOK'
  BY DEF TypeOK, Listing
<1>2. ASSUME NEW g \in Handlers
      PROVE  \/ hand'[g] = Idle
             \/ HandOK(hand'[g], order'[hand'[g].order], paid'[hand'[g].order])
  <2>1. CASE g \in K
    BY <2>1
  <2>2. CASE g \notin K /\ hand[g] # Idle
    <3> DEFINE o == hand[g].order
    <3>1. HandOK(hand[g], order[o], paid[o]) /\ o \in Orders /\ hand[g] \in Hands
      BY <2>2 DEF IInv, HandOK, TypeOK
    <3>2. /\ order[o] \in Rows /\ order'[o] \in Rows
          /\ paid[o] \in BOOLEAN /\ paid'[o] \in BOOLEAN
      BY <3>1 DEF IInv, TypeOK
    <3>3. Kept(order[o], order'[o], paid[o], paid'[o])
      BY <3>1
    <3>4. hand[g].pc \in Pays => KeptClaimed(order[o], order'[o], paid[o], paid'[o])
      BY <2>2, <3>1 DEF Paying, Pays
    <3>5. HandOK(hand[g], order'[o], paid'[o])
      BY <3>1, <3>2, <3>3, <3>4, HandKept
    <3>. QED BY <2>2, <3>5
  <2>. QED BY <2>1, <2>2
<1>3. ASSUME NEW o \in Orders, NEW h \in Handlers, NEW g \in Handlers,
             Paying(h, o)', Paying(g, o)'
      PROVE  h = g
  <2>1. CASE h \in K
    BY <1>3, <2>1
  <2>2. CASE g \in K
    <3>1. g = h
      BY <1>3, <2>2
    <3>. QED BY <3>1
  <2>3. CASE h \notin K /\ g \notin K
    BY <1>3, <2>3 DEF IInv, Paying
  <2>. QED BY <2>1, <2>2, <2>3
<1>. QED BY <1>1, <1>2, <1>3 DEF IInv

(* A step that changes one order and nobody's next call. *)
LEMMA OrderOnly ==
  ASSUME IInv, NEW o \in Orders, NEW s \in Rows, NEW q \in BOOLEAN, NEW e \in BOOLEAN,
         order' = [order EXCEPT ![o] = s], paid' = [paid EXCEPT ![o] = q],
         released' = [released EXCEPT ![o] = e],
         listing' \in Listing, hand' = hand,
         RowOK(s, q, e), Kept(order[o], s, paid[o], q),
         \A g \in Handlers : Paying(g, o) => KeptClaimed(order[o], s, paid[o], q)
  PROVE  IInv'
<1>1. /\ order' \in [Orders -> Rows] /\ paid' \in [Orders -> BOOLEAN] /\ hand' \in [Handlers -> Hands]
      /\ released' \in [Orders -> BOOLEAN]
  BY DEF IInv, TypeOK
<1>2. \A d \in Orders : /\ RowOK(order'[d], paid'[d], released'[d])
                        /\ Kept(order[d], order'[d], paid[d], paid'[d])
  <2>1. \A d \in Orders \ {o} : Kept(order[d], order[d], paid[d], paid[d])
    BY DEF Kept
  <2>. QED BY <2>1 DEF IInv, TypeOK
<1>3. \A g \in Handlers, d \in Orders :
        Paying(g, d) => KeptClaimed(order[d], order'[d], paid[d], paid'[d])
  <2>1. \A d \in Orders \ {o} : KeptClaimed(order[d], order'[d], paid[d], paid'[d])
    BY DEF IInv, TypeOK, KeptClaimed
  <2>. QED BY <2>1 DEF IInv, TypeOK
<1>4. \A g \in Handlers \ {} : hand'[g] = hand[g]
  OBVIOUS
<1>5. \A g \in Handlers \ {}, d \in Orders :
        Paying(g, d) => KeptClaimed(order[d], order'[d], paid[d], paid'[d])
  BY <1>3
<1>6. {} \in SUBSET Handlers
  OBVIOUS
<1>7. /\ \A h \in {} : \/ hand'[h] = Idle
                      \/ HandOK(hand'[h], order'[hand'[h].order], paid'[hand'[h].order])
      /\ \A h \in {}, d \in Orders, g \in Handlers : Paying(h, d)' /\ Paying(g, d)' => h = g
  OBVIOUS
<1>. QED BY <1>1, <1>2, <1>4, <1>5, <1>6, <1>7, Effect

(* A step of handler h that changes its order. *)
LEMMA OrderAndHand ==
  ASSUME IInv, NEW o \in Orders, NEW s \in Rows, NEW q \in BOOLEAN, NEW e \in BOOLEAN,
         order' = [order EXCEPT ![o] = s], paid' = [paid EXCEPT ![o] = q],
         released' = [released EXCEPT ![o] = e],
         listing' \in Listing,
         RowOK(s, q, e), Kept(order[o], s, paid[o], q),
         NEW h \in Handlers, NEW t \in Hands, hand' = [hand EXCEPT ![h] = t],
         t = Idle \/ (t.order = o /\ HandOK(t, s, q)),
         \A g \in Handlers \ {h} : Paying(g, o) => KeptClaimed(order[o], s, paid[o], q),
         t.pc \in Pays => \A g \in Handlers \ {h} : ~ Paying(g, o)
  PROVE  IInv'
<1>1. /\ order' \in [Orders -> Rows] /\ paid' \in [Orders -> BOOLEAN] /\ hand' \in [Handlers -> Hands]
      /\ released' \in [Orders -> BOOLEAN]
  BY DEF IInv, TypeOK
<1>2. \A d \in Orders : /\ RowOK(order'[d], paid'[d], released'[d])
                        /\ Kept(order[d], order'[d], paid[d], paid'[d])
  <2>1. \A d \in Orders \ {o} : Kept(order[d], order[d], paid[d], paid[d])
    BY DEF Kept
  <2>. QED BY <2>1 DEF IInv, TypeOK
<1>3. \A g \in Handlers \ {h}, d \in Orders :
        Paying(g, d) => KeptClaimed(order[d], order'[d], paid[d], paid'[d])
  <2>1. \A d \in Orders \ {o} : KeptClaimed(order[d], order'[d], paid[d], paid'[d])
    BY DEF IInv, TypeOK, KeptClaimed
  <2>. QED BY <2>1 DEF IInv, TypeOK
<1>4. \A k \in {h} : \/ hand'[k] = Idle
                     \/ HandOK(hand'[k], order'[hand'[k].order], paid'[hand'[k].order])
  BY DEF IInv, TypeOK
<1>5. \A k \in {h}, d \in Orders, g \in Handlers : Paying(k, d)' /\ Paying(g, d)' => k = g
  BY DEF IInv, TypeOK, Paying, Pays, Idle
<1>6. \A g \in Handlers \ {h} : hand'[g] = hand[g]
  BY DEF IInv, TypeOK
<1>7. {h} \in SUBSET Handlers
  OBVIOUS
<1>. QED BY <1>1, <1>2, <1>3, <1>4, <1>5, <1>6, <1>7, Effect

(* A step that changes only what one handler does next. *)
LEMMA HandOnly ==
  ASSUME IInv, UNCHANGED <<order, paid, released>>, listing' \in Listing,
         NEW h \in Handlers, NEW t \in Hands, hand' = [hand EXCEPT ![h] = t],
         t = Idle \/ HandOK(t, order[t.order], paid[t.order]),
         t.pc \in Pays => Paying(h, t.order)
  PROVE  IInv'
<1>1. \A e \in Orders : /\ Kept(order[e], order[e], paid[e], paid[e])
                        /\ KeptClaimed(order[e], order[e], paid[e], paid[e])
  BY DEF Kept, KeptClaimed
<1>2. hand' \in [Handlers -> Hands] /\ \A g \in Handlers \ {h} : hand'[g] = hand[g]
  BY DEF IInv, TypeOK
<1>3. \A k \in {h}, e \in Orders, g \in Handlers : Paying(k, e)' /\ Paying(g, e)' => k = g
  BY DEF IInv, TypeOK, Paying, Pays
<1>4. \A k \in {h} : \/ hand'[k] = Idle
                     \/ HandOK(hand'[k], order'[hand'[k].order], paid'[hand'[k].order])
  BY DEF IInv, TypeOK
<1>5. /\ order' \in [Orders -> Rows] /\ paid' \in [Orders -> BOOLEAN]
      /\ released' \in [Orders -> BOOLEAN]
  BY DEF IInv, TypeOK
<1>6. \A e \in Orders : /\ RowOK(order'[e], paid'[e], released'[e])
                        /\ Kept(order[e], order'[e], paid[e], paid'[e])
  BY <1>1 DEF IInv
<1>7. \A g \in Handlers \ {h}, e \in Orders :
        Paying(g, e) => KeptClaimed(order[e], order'[e], paid[e], paid'[e])
  BY <1>1
<1>8. {h} \in SUBSET Handlers
  OBVIOUS
<1>. QED BY <1>2, <1>3, <1>4, <1>5, <1>6, <1>7, <1>8, Effect

--------------------------------------------------------------------------------
(* What the trigger makes of a row. *)
LEMMA MovedRow ==
  ASSUME NEW r \in Rows, NEW to \in Statuses
  PROVE  LET m == Moved(r, to) IN
         /\ m \in Rows /\ m.status = to /\ m.pay = r.pay /\ m.currency = r.currency
         /\ to = "cancelled" /\ r.status # to => ~ m.reserved /\ m.claimed = r.claimed
         /\ to = "payment_verified" /\ r.status # to /\ r.reserved => ~ m.reserved /\ ~ m.claimed
         /\ to \notin {"cancelled", "payment_verified"} \/ r.status = to \/ ~ r.reserved =>
              m.reserved = r.reserved /\ m.claimed = r.claimed
BY DEF Moved, Rows, Statuses

LEMMA RestockedType ==
  ASSUME NEW l \in Listing, NEW n \in Nat
  PROVE  Restocked(l, n) \in Listing /\ Restocked(l, n).avail = l.avail + n
BY DEF Restocked, Listing

(* What the sweep makes of the rows and of the listing. *)
LEMMA Swept ==
  ASSUME IInv
  PROVE  /\ SweptOrders \in [Orders -> Rows] /\ SweptListing \in Listing
         /\ \A o \in Orders :
              /\ RowOK(SweptOrders[o], paid[o], released[o])
              /\ Kept(order[o], SweptOrders[o], paid[o], paid[o])
              /\ KeptClaimed(order[o], SweptOrders[o], paid[o], paid[o])
              /\ SweptOrders[o].status = "none" <=> order[o].status = "none"
              /\ order[o].status = "none" => SweptOrders[o] = order[o]
<1>1. ASSUME NEW o \in Orders
      PROVE  /\ SweptOrders[o] \in Rows
             /\ RowOK(SweptOrders[o], paid[o], released[o])
             /\ Kept(order[o], SweptOrders[o], paid[o], paid[o])
             /\ KeptClaimed(order[o], SweptOrders[o], paid[o], paid[o])
             /\ SweptOrders[o].status = "none" <=> order[o].status = "none"
             /\ order[o].status = "none" => SweptOrders[o] = order[o]
  <2>1. order[o] \in Rows /\ RowOK(order[o], paid[o], released[o]) /\ paid[o] \in BOOLEAN
    BY DEF IInv, TypeOK
  <2>2. CASE ~ Expired(order[o])
    <3>1. SweptOrders[o] = order[o]
      BY <2>2 DEF SweptOrders
    <3>. QED BY <2>1, <3>1 DEF Kept, KeptClaimed
  <2>3. CASE Expired(order[o])
    <3> DEFINE m == Moved(order[o], "cancelled")
    <3>1. /\ m \in Rows /\ m.status = "cancelled" /\ ~ m.reserved
          /\ m.claimed = order[o].claimed /\ m.currency = order[o].currency
      BY <2>1, <2>3, MovedRow DEF Expired, Statuses
    <3>2. SweptOrders[o] = [m EXCEPT !.pay = "failed"]
      BY <2>3 DEF SweptOrders
    <3>3. /\ SweptOrders[o] \in Rows /\ SweptOrders[o].status = "cancelled"
          /\ SweptOrders[o].pay = "failed" /\ ~ SweptOrders[o].reserved
          /\ ~ SweptOrders[o].claimed /\ SweptOrders[o].currency = order[o].currency
      BY <3>1, <3>2, <2>3 DEF Rows, Expired
    <3>. QED BY <2>1, <2>3, <3>3 DEF RowOK, Kept, KeptClaimed, Expired
  <2>. QED BY <2>2, <2>3
<1>2. SweptOrders \in [Orders -> Rows]
  BY <1>1 DEF SweptOrders
<1>3. Cardinality({o \in Orders : Expired(order[o])}) \in Nat
  BY OrdersAssumption, FS_Subset, FS_CardinalityType
<1>4. SweptListing \in Listing
  BY <1>3, RestockedType DEF SweptListing, IInv, TypeOK, Listing
<1>. QED BY <1>1, <1>2, <1>4

--------------------------------------------------------------------------------
(* What At and Paying tell under the invariant. *)
LEMMA AtHand ==
  ASSUME IInv, NEW h \in Handlers, NEW o \in Orders, NEW pc, pc # "idle", At(h, o, pc)
  PROVE  /\ hand[h] \in Hands /\ hand[h].pc = pc /\ hand[h].order = o
         /\ order[o] \in Rows /\ paid[o] \in BOOLEAN /\ released[o] \in BOOLEAN
         /\ RowOK(order[o], paid[o], released[o])
         /\ HandOK(hand[h], order[o], paid[o])
<1>1. hand[h] # Idle
  BY DEF At, Idle
<1>. QED BY <1>1 DEF IInv, TypeOK, At

LEMMA PayingRow ==
  ASSUME IInv, NEW g \in Handlers, NEW o \in Orders, Paying(g, o)
  PROVE  /\ order[o].claimed /\ order[o].reserved /\ order[o].pay = "pending"
         /\ \A h \in Handlers \ {g} : ~ Paying(h, o)
<1>1. hand[g] # Idle
  BY DEF Paying, Idle
<1>2. HandOK(hand[g], order[o], paid[o])
  BY <1>1 DEF IInv, Paying
<1>3. order[o].claimed /\ order[o].reserved /\ order[o].pay = "pending"
  BY <1>2 DEF HandOK, Paying
<1>4. \A h \in Handlers \ {g} : ~ Paying(h, o)
  BY DEF IInv
<1>. QED BY <1>3, <1>4

(* A step of the handler that pays the order; nobody else does. *)
LEMMA PayerStep ==
  ASSUME IInv, NEW h \in Handlers, NEW o \in Orders, Paying(h, o),
         NEW s \in Rows, NEW q \in BOOLEAN, NEW e \in BOOLEAN, NEW t \in Hands,
         order' = [order EXCEPT ![o] = s], paid' = [paid EXCEPT ![o] = q],
         released' = [released EXCEPT ![o] = e], hand' = [hand EXCEPT ![h] = t],
         listing' \in Listing,
         RowOK(s, q, e), Kept(order[o], s, paid[o], q),
         t = Idle \/ (t.order = o /\ HandOK(t, s, q))
  PROVE  IInv'
<1>1. \A g \in Handlers \ {h} : ~ Paying(g, o)
  BY PayingRow
<1>2. /\ \A g \in Handlers \ {h} : Paying(g, o) => KeptClaimed(order[o], s, paid[o], q)
      /\ t.pc \in Pays => \A g \in Handlers \ {h} : ~ Paying(g, o)
  BY <1>1
<1>3. /\ order' = [order EXCEPT ![o] = s] /\ paid' = [paid EXCEPT ![o] = q]
      /\ released' = [released EXCEPT ![o] = e] /\ hand' = [hand EXCEPT ![h] = t]
      /\ listing' \in Listing
      /\ RowOK(s, q, e) /\ Kept(order[o], s, paid[o], q)
      /\ t = Idle \/ (t.order = o /\ HandOK(t, s, q))
  OBVIOUS
<1>. QED BY ONLY IInv, h \in Handlers, o \in Orders, s \in Rows, q \in BOOLEAN, e \in BOOLEAN,
                 t \in Hands, <1>2, <1>3, OrderAndHand, ZenonT(60)

(* The record of a handler that is gone. *)
LEMMA IdleHand == Idle \in Hands /\ Idle.pc = "idle" /\ Idle.pc \notin Pays
BY DEF Idle, Hands, Statuses, Pays

--------------------------------------------------------------------------------
(* The steps of a handler. *)
LEMMA LoadKeeps == ASSUME IInv, NEW h \in Handlers, NEW o \in Orders, Load(h, o) PROVE IInv'
<1>1. /\ hand[h] \in Hands /\ hand[h].pc = "load" /\ hand[h].order = o
      /\ order[o] \in Rows /\ paid[o] \in BOOLEAN /\ RowOK(order[o], paid[o], released[o])
      /\ HandOK(hand[h], order[o], paid[o])
  BY AtHand DEF Load
<1> DEFINE next == IF hand[h].route = "pay" THEN Pay(o) ELSE Attach(o)
           t == IF next = "done" THEN Idle
                ELSE [hand[h] EXCEPT !.pc = next,
                        !.seen = IF next = "claim" THEN order[o].status ELSE "none"]
<1>2. next \in {"done", "claim", "verify", "confirm"}
  BY DEF Pay, Attach
<1>3. next = "claim" /\ order[o].currency = "PI" => paid[o]
  BY <1>1 DEF Pay, Attach, HandOK
<1> HIDE DEF next
<1>4. t \in Hands /\ t.pc \notin Pays
  <2>1. CASE next = "done"
    BY <2>1, IdleHand
  <2>2. CASE next # "done"
    BY <1>1, <1>2, <2>2 DEF Hands, Rows, Statuses, Pays
  <2>. QED BY <2>1, <2>2
<1>5. t = Idle \/ /\ t.pc = next /\ t.order = o /\ t.route = hand[h].route
                  /\ next = "claim" => t.seen = order[o].status
  BY <1>1, <1>2 DEF Hands
<1>6. t = Idle \/ HandOK(t, order[o], paid[o])
  BY <1>1, <1>2, <1>3, <1>5 DEF HandOK
<1>7. t = Idle \/ HandOK(t, order[t.order], paid[t.order])
  BY <1>5, <1>6
<1>8. hand' = [hand EXCEPT ![h] = t] /\ UNCHANGED <<order, paid, released>> /\ listing' \in Listing
  BY DEF Load, next, IInv, TypeOK, Listing
<1> HIDE DEF t
<1>. QED BY <1>4, <1>7, <1>8, HandOnly

LEMMA ClaimKeeps == ASSUME IInv, NEW h \in Handlers, NEW o \in Orders, Claim(h, o) PROVE IInv'
<1>1. /\ hand[h] \in Hands /\ hand[h].pc = "claim" /\ hand[h].order = o
      /\ order[o] \in Rows /\ paid[o] \in BOOLEAN /\ RowOK(order[o], paid[o], released[o])
      /\ HandOK(hand[h], order[o], paid[o])
  BY AtHand DEF Claim
<1> DEFINE r == SweptOrders[o]
           next == IF Payable(r) THEN (IF order[o].currency = "GHC" THEN "spend" ELSE "save") ELSE "done"
           t == IF next = "done" THEN Idle ELSE [hand[h] EXCEPT !.pc = next]
           s == IF Payable(r) THEN [r EXCEPT !.claimed = TRUE] ELSE r
<1>2. /\ r \in Rows /\ RowOK(r, paid[o], released[o])
      /\ Kept(order[o], r, paid[o], paid[o]) /\ KeptClaimed(order[o], r, paid[o], paid[o])
  BY Swept
<1>3. /\ SweptOrders \in [Orders -> Rows] /\ SweptListing \in Listing
      /\ \A e \in Orders : /\ RowOK(SweptOrders[e], paid[e], released[e])
                           /\ Kept(order[e], SweptOrders[e], paid[e], paid[e])
                           /\ KeptClaimed(order[e], SweptOrders[e], paid[e], paid[e])
  BY Swept
<1>4. /\ order' = [SweptOrders EXCEPT ![o] = s] /\ hand' = [hand EXCEPT ![h] = t]
      /\ listing' = SweptListing /\ paid' = paid /\ released' = released
  <2>1. CASE Payable(r)
    <3>1. order' = [SweptOrders EXCEPT ![o].claimed = TRUE]
      BY <2>1 DEF Claim
    <3>2. [SweptOrders EXCEPT ![o].claimed = TRUE] = [SweptOrders EXCEPT ![o] = s]
      BY <2>1, <1>3
    <3>. QED BY <2>1, <3>1, <3>2 DEF Claim, Goto
  <2>2. CASE ~ Payable(r)
    <3>1. order' = SweptOrders
      BY <2>2 DEF Claim
    <3>2. [SweptOrders EXCEPT ![o] = s] = SweptOrders
      BY <2>2, <1>3
    <3>. QED BY <2>2, <3>1, <3>2 DEF Claim, Goto
  <2>. QED BY <2>1, <2>2
<1> HIDE DEF r
<1>5. /\ s \in Rows /\ RowOK(s, paid[o], released[o]) /\ Kept(order[o], s, paid[o], paid[o])
      /\ s.currency = order[o].currency
  <2>1. /\ s \in Rows /\ s.status = r.status /\ s.pay = r.pay /\ s.currency = r.currency
        /\ s.reserved = r.reserved /\ s.claimed = (r.claimed \/ Payable(r))
    BY <1>2 DEF Rows
  <2>2. r.currency = order[o].currency /\ (r.claimed => s.claimed)
    BY <1>1, <1>2, <2>1 DEF Kept, HandOK
  <2>3. s.claimed # r.claimed => r.status = "payment_pending" /\ r.pay = "pending" /\ r.reserved
    BY <2>1 DEF Payable
  <2> HIDE DEF s
  <2>. QED BY <1>1, <1>2, <2>1, <2>2, <2>3 DEF RowOK, Kept
<1>6. KeptClaimed(order[o], s, paid[o], paid[o])
  BY <1>2 DEF KeptClaimed, Rows
<1>7. Payable(r) => /\ s.claimed /\ s.reserved /\ s.pay = "pending" /\ s.status = "payment_pending"
                    /\ order[o].status = "payment_pending" /\ order[o].pay = "pending"
                    /\ hand[h].seen = "payment_pending" /\ ~ r.claimed
  BY <1>1, <1>2 DEF Payable, Kept, HandOK, Rows
<1>8. next \in {"done", "spend", "save"} /\ (next # "done" => Payable(r))
  BY DEF next
<1>9. Payable(r) => \A g \in Handlers : ~ Paying(g, o)
  <2>1. SUFFICES ASSUME Payable(r), NEW g \in Handlers, Paying(g, o) PROVE FALSE
    OBVIOUS
  <2>2. order[o].claimed /\ order[o].reserved /\ order[o].pay = "pending"
    BY <2>1, PayingRow
  <2>. QED BY <1>2, <1>7, <2>1, <2>2 DEF KeptClaimed
<1>10. next = "spend" => order[o].currency = "GHC"
  BY DEF next
<1>11. next = "save" => paid[o]
  <2>1. order[o].currency \in {"GHC", "PI"}
    BY <1>1 DEF HandOK, RowOK, Rows
  <2>. QED BY <1>1, <2>1 DEF next, HandOK
<1>12. /\ t \in Hands
       /\ next = "done" => t = Idle
       /\ next # "done" => t.pc = next /\ t.order = o /\ t.seen = hand[h].seen
  <2> HIDE DEF next
  <2>1. CASE next = "done"
    BY <2>1, IdleHand
  <2>2. CASE next # "done"
    BY <1>1, <1>8, <2>2 DEF Hands
  <2>. QED BY <2>1, <2>2
<1> HIDE DEF next, t, s
<1>13. t = Idle \/ HandOK(t, s, paid[o])
  BY <1>1, <1>5, <1>7, <1>8, <1>10, <1>11, <1>12 DEF HandOK
<1>14. /\ order' \in [Orders -> Rows] /\ hand' \in [Handlers -> Hands]
       /\ paid' \in [Orders -> BOOLEAN] /\ released' \in [Orders -> BOOLEAN]
  BY <1>3, <1>4, <1>5, <1>12 DEF IInv, TypeOK
<1>15. \A e \in Orders : /\ RowOK(order'[e], paid'[e], released'[e])
                         /\ Kept(order[e], order'[e], paid[e], paid'[e])
                         /\ KeptClaimed(order[e], order'[e], paid[e], paid'[e])
  BY <1>3, <1>4, <1>5, <1>6
<1>16. \A k \in {h} : \/ hand'[k] = Idle
                      \/ HandOK(hand'[k], order'[hand'[k].order], paid'[hand'[k].order])
  BY <1>3, <1>4, <1>8, <1>12, <1>13 DEF IInv, TypeOK
<1>17. \A k \in {h}, e \in Orders, g \in Handlers : Paying(k, e)' /\ Paying(g, e)' => k = g
  BY <1>4, <1>8, <1>9, <1>12, IdleHand DEF IInv, TypeOK, Paying, Pays
<1>18. \A g \in Handlers \ {h} : hand'[g] = hand[g]
  BY <1>4
<1>19. {h} \in SUBSET Handlers
  OBVIOUS
<1>. QED BY <1>3, <1>4, <1>14, <1>15, <1>16, <1>17, <1>18, <1>19, Effect

LEMMA SpendKeeps == ASSUME IInv, NEW h \in Handlers, NEW o \in Orders, Spend(h, o) PROVE IInv'
<1>1. /\ hand[h] \in Hands /\ hand[h].pc = "spend" /\ hand[h].order = o
      /\ order[o] \in Rows /\ paid[o] \in BOOLEAN /\ released[o] \in BOOLEAN
      /\ RowOK(order[o], paid[o], released[o]) /\ HandOK(hand[h], order[o], paid[o])
  BY AtHand DEF Spend
<1>2. PICK t \in Hands : t = [hand[h] EXCEPT !.pc = "save"]
  BY <1>1 DEF Hands
<1>3. t.pc = "save" /\ t.order = o /\ t.seen = hand[h].seen
  BY <1>1, <1>2 DEF Hands
<1>4. PICK s \in Rows, q \in BOOLEAN, e \in BOOLEAN : s = order[o] /\ q = TRUE /\ e = released[o]
  BY <1>1
<1>5. RowOK(s, q, e) /\ Kept(order[o], s, paid[o], q) /\ t.order = o /\ HandOK(t, s, q)
  BY <1>1, <1>3, <1>4 DEF RowOK, HandOK, Kept
<1>6. /\ order' = [order EXCEPT ![o] = s] /\ paid' = [paid EXCEPT ![o] = q]
      /\ released' = [released EXCEPT ![o] = e] /\ hand' = [hand EXCEPT ![h] = t]
      /\ listing' \in Listing
  BY <1>2, <1>4 DEF Spend, Goto, IInv, TypeOK, Listing
<1>7. Paying(h, o)
  BY <1>1 DEF Paying
<1>. QED BY ONLY IInv, h \in Handlers, o \in Orders, s \in Rows, q \in BOOLEAN, e \in BOOLEAN,
                 t \in Hands, <1>5, <1>6, <1>7, PayerStep, ZenonT(60)

LEMMA SpendRefusedKeeps ==
  ASSUME IInv, NEW h \in Handlers, NEW o \in Orders, SpendRefused(h, o) PROVE IInv'
<1>1. /\ hand[h] \in Hands /\ hand[h].pc = "spend" /\ hand[h].order = o
      /\ order[o] \in Rows /\ paid[o] \in BOOLEAN /\ RowOK(order[o], paid[o], released[o])
      /\ HandOK(hand[h], order[o], paid[o])
  BY AtHand DEF SpendRefused
<1> DEFINE t == [hand[h] EXCEPT !.pc = "release"]
<1>2. t \in Hands /\ t.pc = "release" /\ t.order = o /\ t.seen = hand[h].seen
  BY <1>1 DEF Hands
<1>3. HandOK(t, order[t.order], paid[t.order]) /\ Paying(h, t.order)
  BY <1>1, <1>2 DEF HandOK, SpendRefused, Paying
<1>4. /\ hand' = [hand EXCEPT ![h] = t] /\ UNCHANGED <<order, paid, released>> /\ listing' \in Listing
  BY DEF SpendRefused, Goto, IInv, TypeOK, Listing
<1> HIDE DEF t
<1>. QED BY <1>2, <1>3, <1>4, HandOnly

LEMMA ReleaseClaimKeeps ==
  ASSUME IInv, NEW h \in Handlers, NEW o \in Orders, ReleaseClaim(h, o) PROVE IInv'
<1>1. /\ hand[h] \in Hands /\ hand[h].pc = "release" /\ hand[h].order = o
      /\ order[o] \in Rows /\ paid[o] \in BOOLEAN /\ released[o] \in BOOLEAN
      /\ RowOK(order[o], paid[o], released[o]) /\ HandOK(hand[h], order[o], paid[o])
  BY AtHand DEF ReleaseClaim
<1>2. PICK s \in Rows, q \in BOOLEAN, e \in BOOLEAN :
        /\ s = [order[o] EXCEPT !.claimed =
                  @ /\ ~ (order[o].status = "payment_pending" /\ order[o].pay = "pending")]
        /\ q = paid[o] /\ e = released[o]
  BY <1>1 DEF Rows
<1>3. RowOK(s, q, e) /\ Kept(order[o], s, paid[o], q)
  BY <1>1, <1>2 DEF Rows, RowOK, HandOK, Kept
<1>4. /\ order' = [order EXCEPT ![o] = s] /\ paid' = [paid EXCEPT ![o] = q]
      /\ released' = [released EXCEPT ![o] = e] /\ hand' = [hand EXCEPT ![h] = Idle]
      /\ listing' \in Listing
  BY <1>2 DEF ReleaseClaim, Goto, IInv, TypeOK, Listing
<1>5. Paying(h, o)
  BY <1>1 DEF Paying
<1>. QED BY ONLY IInv, h \in Handlers, o \in Orders, s \in Rows, q \in BOOLEAN, e \in BOOLEAN,
                 <1>3, <1>4, <1>5, IdleHand, PayerStep, ZenonT(60)

(* The row that Save writes. *)
LEMMA SavedRow ==
  ASSUME NEW r \in Rows, r.reserved, r.claimed
  PROVE  LET s == [Moved(r, "payment_pending") EXCEPT !.pay = "verified"] IN
         /\ s \in Rows /\ s.status = "payment_pending" /\ s.pay = "verified"
         /\ s.reserved /\ s.claimed /\ s.currency = r.currency
<1> DEFINE m == Moved(r, "payment_pending")
<1>1. /\ m \in Rows /\ m.status = "payment_pending" /\ m.reserved /\ m.claimed
      /\ m.currency = r.currency
  BY MovedRow DEF Statuses
<1> HIDE DEF m
<1>2. LET s == [m EXCEPT !.pay = "verified"] IN
      /\ s \in Rows /\ s.status = "payment_pending" /\ s.pay = "verified"
      /\ s.reserved /\ s.claimed /\ s.currency = r.currency
  BY <1>1 DEF Rows
<1>. QED BY <1>2 DEF m

LEMMA SaveKeeps == ASSUME IInv, NEW h \in Handlers, NEW o \in Orders, Save(h, o) PROVE IInv'
<1>1. /\ hand[h] \in Hands /\ hand[h].pc = "save" /\ hand[h].order = o
      /\ order[o] \in Rows /\ paid[o] \in BOOLEAN /\ RowOK(order[o], paid[o], released[o])
      /\ HandOK(hand[h], order[o], paid[o])
  BY AtHand DEF Save
<1>2. /\ order[o].reserved /\ order[o].claimed /\ hand[h].seen = "payment_pending" /\ paid[o]
  BY <1>1 DEF HandOK
<1> DEFINE s == [Moved(order[o], "payment_pending") EXCEPT !.pay = "verified"]
           t == [hand[h] EXCEPT !.pc = "verify", !.seen = "none"]
<1>3. /\ s \in Rows /\ s.status = "payment_pending" /\ s.pay = "verified"
      /\ s.reserved /\ s.claimed /\ s.currency = order[o].currency
  BY <1>1, <1>2, SavedRow
<1>4. /\ order' = [order EXCEPT ![o] = s] /\ paid' = [paid EXCEPT ![o] = paid[o]]
      /\ released' = [released EXCEPT ![o] = FALSE]
      /\ hand' = [hand EXCEPT ![h] = t]
  BY <1>2 DEF Save, IInv, TypeOK
<1>5. listing' \in Listing
  <2>1. listing \in Listing /\ listing' = Restocked(listing, 0)
    BY <1>2 DEF Save, GivenBack, IInv, TypeOK, Listing
  <2>. QED BY <2>1, RestockedType
<1>6. t \in Hands /\ t.pc = "verify" /\ t.order = o
  BY <1>1 DEF Hands, Statuses
<1> HIDE DEF s, t
<1>7. RowOK(s, paid[o], FALSE) /\ Kept(order[o], s, paid[o], paid[o]) /\ HandOK(t, s, paid[o])
  BY <1>1, <1>2, <1>3, <1>6 DEF RowOK, Kept, HandOK
<1>8. PICK u \in Rows, q \in BOOLEAN, e \in BOOLEAN, v \in Hands :
        u = s /\ q = paid[o] /\ e = FALSE /\ v = t
  BY <1>1, <1>3, <1>6
<1>9. RowOK(u, q, e) /\ Kept(order[o], u, paid[o], q) /\ v.order = o /\ HandOK(v, u, q)
  BY <1>6, <1>7, <1>8
<1>10. /\ order' = [order EXCEPT ![o] = u] /\ paid' = [paid EXCEPT ![o] = q]
       /\ released' = [released EXCEPT ![o] = e] /\ hand' = [hand EXCEPT ![h] = v]
  BY <1>4, <1>8
<1>11. Paying(h, o)
  BY <1>1 DEF Paying
<1>. QED BY ONLY IInv, h \in Handlers, o \in Orders, u \in Rows, q \in BOOLEAN, e \in BOOLEAN,
                 v \in Hands, <1>5, <1>9, <1>10, <1>11, PayerStep, ZenonT(60)

--------------------------------------------------------------------------------
(* The moves there are of an order whose row is r. *)
Movable(r, to) ==
  \/ /\ to = "cancelled" /\ r.status \notin {"none", "cancelled", "refunded"}
     /\ ~ r.claimed /\ r.pay \notin {"verified", "refunded"}
  \/ to \in {"payment_verified", "confirmed", "fulfilling", "completed"} /\ r.pay = "verified"
  \/ to = "disputed" /\ r.status \notin {"none", "refunded"}

LEMMA MovableRow ==
  ASSUME NEW r \in Rows, NEW p \in BOOLEAN, NEW e \in BOOLEAN, NEW to \in Statuses,
         RowOK(r, p, e), Movable(r, to)
  PROVE  LET m == Moved(r, to) IN
         /\ m \in Rows /\ m.status = to /\ RowOK(m, p, e)
         /\ Kept(r, m, p, p) /\ KeptClaimed(r, m, p, p)
<1> DEFINE m == Moved(r, to)
<1>1. /\ m \in Rows /\ m.status = to /\ m.pay = r.pay /\ m.currency = r.currency
      /\ to = "cancelled" /\ r.status # to => ~ m.reserved /\ m.claimed = r.claimed
      /\ to \notin {"cancelled", "payment_verified"} =>
           m.reserved = r.reserved /\ m.claimed = r.claimed
  BY MovedRow
<1> HIDE DEF m
<1>2. RowOK(m, p, e)
  BY <1>1 DEF RowOK, Movable, Rows
<1>3. Kept(r, m, p, p) /\ KeptClaimed(r, m, p, p)
  BY <1>1 DEF RowOK, Movable, Kept, KeptClaimed, Rows
<1>. QED BY <1>1, <1>2, <1>3 DEF m

LEMMA MoveListing ==
  ASSUME IInv, NEW o \in Orders, NEW to, Move(o, to)
  PROVE  listing' \in Listing
<1>1. /\ listing \in Listing
      /\ listing' = Restocked(listing, IF GivenBack(order[o], to) THEN 1 ELSE 0)
  BY DEF Move, IInv, TypeOK, Listing
<1>2. (IF GivenBack(order[o], to) THEN 1 ELSE 0) \in Nat
  OBVIOUS
<1>. QED BY <1>1, <1>2, RestockedType

(* A handler's call that moves its order. *)
LEMMA MoveKeeps ==
  ASSUME IInv, NEW o \in Orders, NEW to \in Statuses, Movable(order[o], to), Move(o, to),
         UNCHANGED <<paid, released>>,
         NEW h \in Handlers, NEW t \in Hands, hand' = [hand EXCEPT ![h] = t],
         t = Idle \/ (t.order = o /\ t.pc = "confirm")
  PROVE  IInv'
<1>1. order[o] \in Rows /\ RowOK(order[o], paid[o], released[o])
  BY DEF IInv, TypeOK
<1>2. PICK p \in BOOLEAN, e \in BOOLEAN : p = paid[o] /\ e = released[o]
  BY DEF IInv, TypeOK
<1>3. PICK m \in Rows : m = Moved(order[o], to)
  BY <1>1, MovedRow
<1>4. /\ RowOK(m, p, e) /\ Kept(order[o], m, paid[o], p) /\ KeptClaimed(order[o], m, paid[o], p)
      /\ m.status = to
  BY <1>1, <1>2, <1>3, MovableRow
<1>5. t.pc \notin Pays
  BY IdleHand DEF Pays
<1>6. t = Idle \/ (t.order = o /\ HandOK(t, m, p))
  BY <1>4 DEF HandOK, Movable
<1>7. /\ order' = [order EXCEPT ![o] = m] /\ paid' = [paid EXCEPT ![o] = p]
      /\ released' = [released EXCEPT ![o] = e]
  BY <1>2, <1>3 DEF Move, IInv, TypeOK
<1>8. listing' \in Listing
  BY MoveListing
<1>9. /\ RowOK(m, p, e) /\ Kept(order[o], m, paid[o], p)
      /\ \A g \in Handlers \ {h} : Paying(g, o) => KeptClaimed(order[o], m, paid[o], p)
      /\ t.pc \in Pays => \A g \in Handlers \ {h} : ~ Paying(g, o)
  BY <1>4, <1>5
<1>. QED
  BY ONLY IInv, o \in Orders, h \in Handlers, t \in Hands, hand' = [hand EXCEPT ![h] = t],
          m \in Rows, p \in BOOLEAN, e \in BOOLEAN, <1>6, <1>7, <1>8, <1>9, OrderAndHand, ZenonT(60)

(* A call of the transition function. *)
LEMMA TransitionKeeps ==
  ASSUME IInv, NEW h \in Handlers, NEW o \in Orders, NEW pc, pc # "idle", At(h, o, pc),
         NEW to \in {"payment_verified", "confirmed", "cancelled"},
         NEW ok \in {"done", "confirm"}, NEW refused \in {"done", "confirm"},
         Transition(h, o, to, ok, refused)
  PROVE  IInv'
<1>1. /\ hand[h] \in Hands /\ hand[h].order = o
      /\ order[o] \in Rows /\ paid[o] \in BOOLEAN /\ RowOK(order[o], paid[o], released[o])
      /\ HandOK(hand[h], order[o], paid[o])
  BY AtHand
<1> DEFINE next == IF order[o].status = to \/ Accepts(order[o], to) THEN ok ELSE refused
<1>2. PICK t \in Hands : /\ hand' = [hand EXCEPT ![h] = t]
                         /\ t = Idle \/ (t.order = o /\ t.pc = "confirm")
  <2>1. next \in {"done", "confirm"} /\ Goto(h, next)
    BY DEF Transition
  <2> HIDE DEF next
  <2>2. CASE next = "done"
    BY <2>1, <2>2, IdleHand DEF Goto
  <2>3. CASE next = "confirm"
    <3>1. [hand[h] EXCEPT !.pc = "confirm"] \in Hands
      BY <1>1 DEF Hands
    <3>2. /\ [hand[h] EXCEPT !.pc = "confirm"].pc = "confirm"
          /\ [hand[h] EXCEPT !.pc = "confirm"].order = o
      BY <1>1 DEF Hands
    <3>3. hand' = [hand EXCEPT ![h] = [hand[h] EXCEPT !.pc = "confirm"]]
      BY <2>1, <2>3 DEF Goto, IInv, TypeOK
    <3>. QED BY <3>1, <3>2, <3>3
  <2>. QED BY <2>1, <2>2, <2>3
<1>3. CASE Accepts(order[o], to)
  <2>1. Movable(order[o], to)
    BY <1>1, <1>3 DEF Accepts, MayFollow, Movable
  <2>2. Move(o, to) /\ UNCHANGED <<paid, released>> /\ to \in Statuses
    BY <1>3 DEF Transition, Statuses
  <2>. QED BY <1>2, <2>1, <2>2, MoveKeeps
<1>4. CASE ~ Accepts(order[o], to)
  <2>1. UNCHANGED <<order, paid, released>> /\ listing' \in Listing
    BY <1>4 DEF Transition, IInv, TypeOK, Listing
  <2>2. t = Idle \/ HandOK(t, order[t.order], paid[t.order])
    BY <1>1, <1>2 DEF HandOK
  <2>3. t.pc \notin Pays
    BY <1>2, IdleHand DEF Pays
  <2>. QED BY <1>2, <2>1, <2>2, <2>3, HandOnly
<1>. QED BY <1>3, <1>4

(* The row of an order the buyer confirms. *)
LEMMA CompletedRow ==
  ASSUME NEW r \in Rows
  PROVE  LET s == [Moved(r, "completed") EXCEPT !.delivered = FALSE] IN
         /\ s \in Rows /\ s.status = "completed" /\ s.pay = r.pay /\ s.currency = r.currency
         /\ s.reserved = r.reserved /\ s.claimed = r.claimed
<1>1. PICK m \in Rows : m = Moved(r, "completed")
  BY MovedRow DEF Statuses
<1>2. /\ m.status = "completed" /\ m.pay = r.pay /\ m.currency = r.currency
      /\ m.reserved = r.reserved /\ m.claimed = r.claimed
  BY <1>1, MovedRow DEF Statuses
<1>3. LET s == [m EXCEPT !.delivered = FALSE] IN
      /\ s \in Rows /\ s.status = "completed" /\ s.pay = r.pay /\ s.currency = r.currency
      /\ s.reserved = r.reserved /\ s.claimed = r.claimed
  BY <1>2 DEF Rows
<1>. QED BY <1>1, <1>3

(* What buyer and seller do with an order. *)
LEMMA CommerceKeeps ==
  ASSUME IInv, NEW h \in Handlers, NEW o \in Orders, NEW guard \in BOOLEAN,
         NEW to \in {"disputed", "cancelled"},
         guard => Movable(order[o], to), Commerce(h, o, guard, to)
  PROVE  IInv'
<1>1. hand' = [hand EXCEPT ![h] = Idle]
  BY DEF Commerce, Goto
<1>2. Move(o, to) /\ UNCHANGED <<paid, released>> /\ Movable(order[o], to) /\ to \in Statuses
  BY DEF Commerce, Statuses
<1>. QED BY <1>1, <1>2, IdleHand, MoveKeeps

LEMMA ActKeeps == ASSUME IInv, NEW h \in Handlers, NEW o \in Orders, Act(h, o) PROVE IInv'
<1>1. /\ hand[h] \in Hands /\ hand[h].order = o
      /\ order[o] \in Rows /\ paid[o] \in BOOLEAN /\ RowOK(order[o], paid[o], released[o])
      /\ HandOK(hand[h], order[o], paid[o])
  <2>1. At(h, o, "act")
    BY DEF Act, Cancel, SellerFulfill, SellerMarkDelivered, BuyerConfirm, Dispute, CancelUnpaid,
           Declined, Commerce
  <2>. QED BY <2>1, AtHand
<1>2. CASE Cancel(h, o)
  BY <1>2, TransitionKeeps DEF Cancel
<1>3. CASE SellerFulfill(h, o)
  <2>1. PICK m \in Rows : m = Moved(order[o], "fulfilling")
    BY <1>1, MovedRow DEF Statuses
  <2>2. /\ m.status = "fulfilling" /\ m.pay = "verified" /\ order[o].pay = "verified"
        /\ m.currency = order[o].currency
    BY <1>1, <1>3, <2>1, MovedRow DEF SellerFulfill, Statuses
  <2>3. PICK n \in Rows : n = [m EXCEPT !.delivered = FALSE]
    BY DEF Rows
  <2>4. n.status = "fulfilling" /\ n.pay = "verified" /\ n.currency = order[o].currency
    BY <2>2, <2>3 DEF Rows
  <2>5. PICK p \in BOOLEAN, e \in BOOLEAN : p = paid[o] /\ e = released[o]
    BY DEF IInv, TypeOK
  <2>6. RowOK(n, p, e) /\ Kept(order[o], n, paid[o], p)
    BY <1>1, <1>3, <2>2, <2>4, <2>5 DEF RowOK, Kept
  <2>7. \A g \in Handlers \ {h} : Paying(g, o) => KeptClaimed(order[o], n, paid[o], p)
    BY <2>2 DEF KeptClaimed
  <2>8. /\ order' = [order EXCEPT ![o] = n] /\ paid' = [paid EXCEPT ![o] = p]
        /\ released' = [released EXCEPT ![o] = e]
        /\ hand' = [hand EXCEPT ![h] = Idle] /\ listing' \in Listing
    BY <1>3, <2>1, <2>3, <2>5 DEF SellerFulfill, Goto, IInv, TypeOK, Listing
  <2>9. Idle \in Hands /\ (Idle = Idle \/ (Idle.order = o /\ HandOK(Idle, n, p)))
        /\ (Idle.pc \in Pays => \A g \in Handlers \ {h} : ~ Paying(g, o))
    BY IdleHand
  <2>. QED
    BY ONLY IInv, o \in Orders, h \in Handlers, n \in Rows, p \in BOOLEAN, e \in BOOLEAN,
            <2>6, <2>7, <2>8, <2>9, OrderAndHand, ZenonT(60)
<1>4. CASE SellerMarkDelivered(h, o)
  <2>1. PICK n \in Rows : n = [order[o] EXCEPT !.delivered = TRUE]
    BY <1>1 DEF Rows
  <2>2. PICK p \in BOOLEAN, e \in BOOLEAN : p = paid[o] /\ e = released[o]
    BY DEF IInv, TypeOK
  <2>3. RowOK(n, p, e) /\ Kept(order[o], n, paid[o], p) /\ KeptClaimed(order[o], n, paid[o], p)
    BY <1>1, <2>1, <2>2 DEF RowOK, Kept, KeptClaimed, Rows
  <2>4. /\ order' = [order EXCEPT ![o] = n] /\ paid' = [paid EXCEPT ![o] = p]
        /\ released' = [released EXCEPT ![o] = e]
        /\ hand' = [hand EXCEPT ![h] = Idle] /\ listing' \in Listing
    BY <1>4, <2>1, <2>2 DEF SellerMarkDelivered, Goto, IInv, TypeOK, Listing
  <2>5. Idle \in Hands /\ (Idle = Idle \/ (Idle.order = o /\ HandOK(Idle, n, p)))
        /\ (Idle.pc \in Pays => \A g \in Handlers \ {h} : ~ Paying(g, o))
    BY IdleHand
  <2>6. \A g \in Handlers \ {h} : Paying(g, o) => KeptClaimed(order[o], n, paid[o], p)
    BY <2>3
  <2>. QED
    BY ONLY IInv, o \in Orders, h \in Handlers, n \in Rows, p \in BOOLEAN, e \in BOOLEAN,
            <2>3, <2>4, <2>5, <2>6, OrderAndHand, ZenonT(60)
<1>5. CASE BuyerConfirm(h, o)
  <2>1. order[o].pay = "verified"
    BY <1>5 DEF BuyerConfirm
  <2>2. PICK n \in Rows :
          /\ n = [Moved(order[o], "completed") EXCEPT !.delivered = FALSE]
          /\ n.status = "completed" /\ n.pay = order[o].pay /\ n.currency = order[o].currency
          /\ n.reserved = order[o].reserved /\ n.claimed = order[o].claimed
    BY <1>1, CompletedRow
  <2>3. PICK p \in BOOLEAN, e \in BOOLEAN : p = paid[o] /\ e = released[o]
    BY DEF IInv, TypeOK
  <2>4. RowOK(n, p, e) /\ Kept(order[o], n, paid[o], p)
    BY <1>1, <2>1, <2>2, <2>3 DEF RowOK, Kept
  <2>5. \A g \in Handlers \ {h} : Paying(g, o) => KeptClaimed(order[o], n, paid[o], p)
    BY <2>1 DEF KeptClaimed
  <2>6. /\ order' = [order EXCEPT ![o] = n] /\ paid' = [paid EXCEPT ![o] = p]
        /\ released' = [released EXCEPT ![o] = e]
        /\ hand' = [hand EXCEPT ![h] = Idle] /\ listing' \in Listing
    BY <1>5, <2>2, <2>3 DEF BuyerConfirm, Goto, IInv, TypeOK, Listing
  <2>7. Idle \in Hands /\ (Idle = Idle \/ (Idle.order = o /\ HandOK(Idle, n, p)))
        /\ (Idle.pc \in Pays => \A g \in Handlers \ {h} : ~ Paying(g, o))
    BY IdleHand
  <2>. QED
    BY ONLY IInv, o \in Orders, h \in Handlers, n \in Rows, p \in BOOLEAN, e \in BOOLEAN,
            <2>4, <2>5, <2>6, <2>7, OrderAndHand, ZenonT(60)
<1>6. CASE Dispute(h, o)
  BY <1>6, CommerceKeeps DEF Dispute, Movable
<1>7. CASE CancelUnpaid(h, o)
  BY <1>7, CommerceKeeps DEF CancelUnpaid, Movable
<1>8. CASE Declined(h, o)
  <2>1. hand' = [hand EXCEPT ![h] = Idle] /\ UNCHANGED <<order, paid, released>> /\ listing' \in Listing
    BY <1>8 DEF Declined, Goto, IInv, TypeOK, Listing
  <2>. QED BY <2>1, IdleHand, HandOnly
<1>. QED BY <1>2, <1>3, <1>4, <1>5, <1>6, <1>7, <1>8 DEF Act

(* A step of a handler. *)
LEMMA StepKeeps == ASSUME IInv, NEW h \in Handlers, NEW o \in Orders, Step(h, o) PROVE IInv'
<1>1. CASE Verify(h, o)
  BY <1>1, TransitionKeeps DEF Verify
<1>2. CASE Confirm(h, o)
  BY <1>2, TransitionKeeps DEF Confirm
<1>. QED
  BY <1>1, <1>2, LoadKeeps, ClaimKeeps, SpendKeeps, SpendRefusedKeeps, ReleaseClaimKeeps, SaveKeeps,
     ActKeeps DEF Step

--------------------------------------------------------------------------------
(* The steps of the others. *)
LEMMA SweepKeeps == ASSUME IInv, Sweep PROVE IInv'
<1>1. /\ order' \in [Orders -> Rows] /\ paid' \in [Orders -> BOOLEAN]
      /\ hand' \in [Handlers -> Hands] /\ listing' \in Listing /\ released' \in [Orders -> BOOLEAN]
      /\ \A o \in Orders : /\ RowOK(order'[o], paid'[o], released'[o])
                           /\ Kept(order[o], order'[o], paid[o], paid'[o])
                           /\ KeptClaimed(order[o], order'[o], paid[o], paid'[o])
      /\ hand' = hand
  BY Swept DEF Sweep, IInv, TypeOK
<1>2. /\ {} \in SUBSET Handlers
      /\ \A g \in Handlers \ {} : hand'[g] = hand[g]
      /\ \A g \in Handlers \ {}, o \in Orders :
           Paying(g, o) => KeptClaimed(order[o], order'[o], paid[o], paid'[o])
  BY <1>1
<1>3. /\ \A h \in {} : \/ hand'[h] = Idle
                      \/ HandOK(hand'[h], order'[hand'[h].order], paid'[hand'[h].order])
      /\ \A h \in {}, e \in Orders, g \in Handlers : Paying(h, e)' /\ Paying(g, e)' => h = g
  OBVIOUS
<1>. QED BY <1>1, <1>2, <1>3, Effect

LEMMA StartKeeps ==
  ASSUME IInv, NEW h \in Handlers, NEW o \in Orders, NEW route \in {"pay", "fulfill", "act"},
         Start(h, o, route)
  PROVE  IInv'
<1>1. /\ order' \in [Orders -> Rows] /\ paid' \in [Orders -> BOOLEAN] /\ listing' \in Listing
      /\ released' \in [Orders -> BOOLEAN]
      /\ \A e \in Orders : /\ RowOK(order'[e], paid'[e], released'[e])
                           /\ Kept(order[e], order'[e], paid[e], paid'[e])
                           /\ KeptClaimed(order[e], order'[e], paid[e], paid'[e])
      /\ order'[o].status # "none" /\ paid' = paid
  BY Swept DEF Start, IInv, TypeOK
<1> DEFINE t == [Idle EXCEPT !.pc = IF route = "act" THEN "act" ELSE "load",
                             !.order = o, !.route = route]
<1>2. /\ t \in Hands /\ t.order = o /\ t.route = route
      /\ t.pc = (IF route = "act" THEN "act" ELSE "load")
  BY DEF Idle, Hands, Statuses
<1>3. hand' = [hand EXCEPT ![h] = t]
  BY DEF Start
<1> HIDE DEF t
<1>4. HandOK(t, order'[o], paid'[o])
  BY <1>1, <1>2 DEF HandOK, Start
<1>5. hand' \in [Handlers -> Hands] /\ hand'[h] = t /\ \A g \in Handlers \ {h} : hand'[g] = hand[g]
  BY <1>2, <1>3 DEF IInv, TypeOK
<1>6. \A k \in {h} : \/ hand'[k] = Idle
                     \/ HandOK(hand'[k], order'[hand'[k].order], paid'[hand'[k].order])
  BY <1>2, <1>4, <1>5
<1>7. \A k \in {h}, e \in Orders, g \in Handlers : Paying(k, e)' /\ Paying(g, e)' => k = g
  BY <1>2, <1>5 DEF Paying
<1>8. {h} \in SUBSET Handlers
  OBVIOUS
<1>. QED BY <1>1, <1>5, <1>6, <1>7, <1>8, Effect

LEMMA CreateKeeps ==
  ASSUME IInv, NEW o \in Orders, NEW currency \in Currencies, Create(o, currency) PROVE IInv'
<1> DEFINE s == [NoOrder EXCEPT !.status = "payment_pending", !.pay = "pending",
                                !.currency = currency, !.reserved = TRUE, !.live = TRUE]
<1>1. /\ s \in Rows /\ s.status = "payment_pending" /\ s.pay = "pending" /\ s.reserved
      /\ s.currency \in {"GHC", "PI"}
  BY ListingAssumption DEF NoOrder, Rows, Statuses
<1>2. /\ order[o].status = "none" /\ order' = [SweptOrders EXCEPT ![o] = s]
      /\ paid' = paid /\ hand' = hand /\ released' = released
  BY DEF Create
<1> HIDE DEF s
<1>3. order[o] \in Rows /\ RowOK(order[o], paid[o], released[o]) /\ paid[o] \in BOOLEAN
  BY DEF IInv, TypeOK
<1>4. \A g \in Handlers : ~ Paying(g, o)
  BY <1>2, <1>3, PayingRow DEF RowOK
<1>5. RowOK(s, paid[o], released[o]) /\ Kept(order[o], s, paid[o], paid[o])
  <2>1. ~ paid[o]
    BY <1>2, <1>3 DEF RowOK
  <2>. QED BY <1>1, <1>2, <1>3, <2>1 DEF RowOK, Kept
<1>6. /\ SweptOrders \in [Orders -> Rows] /\ SweptListing \in Listing
      /\ \A e \in Orders : /\ RowOK(SweptOrders[e], paid[e], released[e])
                           /\ Kept(order[e], SweptOrders[e], paid[e], paid[e])
                           /\ KeptClaimed(order[e], SweptOrders[e], paid[e], paid[e])
  BY Swept
<1>7. /\ order' \in [Orders -> Rows] /\ paid' \in [Orders -> BOOLEAN]
      /\ hand' \in [Handlers -> Hands] /\ released' \in [Orders -> BOOLEAN]
  BY <1>1, <1>2, <1>6 DEF IInv, TypeOK
<1>8. listing' \in Listing
  BY <1>6 DEF Create, Available, Listing
<1>9. \A e \in Orders : /\ RowOK(order'[e], paid'[e], released'[e])
                        /\ Kept(order[e], order'[e], paid[e], paid'[e])
                        /\ e # o => KeptClaimed(order[e], order'[e], paid[e], paid'[e])
  BY <1>2, <1>5, <1>6
<1>10. /\ {} \in SUBSET Handlers
       /\ \A g \in Handlers \ {} : hand'[g] = hand[g]
       /\ \A g \in Handlers \ {}, e \in Orders :
            Paying(g, e) => KeptClaimed(order[e], order'[e], paid[e], paid'[e])
  BY <1>2, <1>4, <1>9
<1>11. /\ \A h \in {} : \/ hand'[h] = Idle
                       \/ HandOK(hand'[h], order'[hand'[h].order], paid'[hand'[h].order])
       /\ \A h \in {}, e \in Orders, g \in Handlers : Paying(h, e)' /\ Paying(g, e)' => h = g
  OBVIOUS
<1>. QED BY <1>7, <1>8, <1>9, <1>10, <1>11, Effect

LEMMA ExpireKeeps == ASSUME IInv, NEW o \in Orders, Expire(o) PROVE IInv'
<1>1. order[o] \in Rows /\ RowOK(order[o], paid[o], released[o])
  BY DEF IInv, TypeOK
<1>2. PICK s \in Rows : s = [order[o] EXCEPT !.live = FALSE]
  BY <1>1 DEF Rows
<1>3. PICK q \in BOOLEAN, e \in BOOLEAN : q = paid[o] /\ e = released[o]
  BY DEF IInv, TypeOK
<1>4. RowOK(s, q, e) /\ Kept(order[o], s, paid[o], q) /\ KeptClaimed(order[o], s, paid[o], q)
  BY <1>1, <1>2, <1>3 DEF Rows, RowOK, Kept, KeptClaimed
<1>5. /\ order' = [order EXCEPT ![o] = s] /\ paid' = [paid EXCEPT ![o] = q]
      /\ released' = [released EXCEPT ![o] = e] /\ hand' = hand
      /\ listing' \in Listing
  BY <1>2, <1>3 DEF Expire, IInv, TypeOK, Listing
<1>. QED BY ONLY IInv, o \in Orders, s \in Rows, q \in BOOLEAN, e \in BOOLEAN,
                 <1>4, <1>5, OrderOnly, ZenonT(60)

LEMMA PiPaidKeeps == ASSUME IInv, NEW o \in Orders, PiPaid(o) PROVE IInv'
<1>1. /\ order[o] \in Rows /\ RowOK(order[o], paid[o], released[o])
      /\ paid[o] \in BOOLEAN /\ released[o] \in BOOLEAN
  BY DEF IInv, TypeOK
<1>2. RowOK(order[o], TRUE, released[o]) /\ Kept(order[o], order[o], paid[o], TRUE)
  BY <1>1 DEF PiPaid, RowOK, Kept
<1>3. KeptClaimed(order[o], order[o], paid[o], TRUE)
  BY DEF PiPaid, KeptClaimed
<1>4. /\ order' = [order EXCEPT ![o] = order[o]] /\ paid' = [paid EXCEPT ![o] = TRUE]
      /\ released' = [released EXCEPT ![o] = released[o]]
      /\ hand' = hand /\ listing' \in Listing
  BY DEF PiPaid, IInv, TypeOK, Listing
<1>. QED BY <1>1, <1>2, <1>3, <1>4, OrderOnly

LEMMA SellerEditKeeps == ASSUME IInv, SellerEdit PROVE IInv'
<1>1. 0..MaxStock \in SUBSET Nat
  BY ListingAssumption
<1>2. listing' \in [avail : Nat, status : {"active", "paused", "sold_out"}]
  BY <1>1, ListingAssumption DEF SellerEdit
<1>3. order' = order /\ paid' = paid /\ hand' = hand /\ released' = released
  BY DEF SellerEdit
<1>. QED BY <1>2, <1>3 DEF IInv, TypeOK, Paying

(* An operator's changes of one order. *)
LEMMA DecideKeeps == ASSUME IInv, NEW o \in Orders, Decide(o) PROVE IInv'
<1>1. order[o] \in Rows /\ RowOK(order[o], paid[o], released[o])
  BY DEF IInv, TypeOK
<1>2. PICK s \in Rows : s = Moved(order[o], "disputed")
  BY <1>1, MovedRow DEF Statuses
<1>3. PICK q \in BOOLEAN, e \in BOOLEAN : q = paid[o] /\ e = released[o]
  BY DEF IInv, TypeOK
<1>4. Movable(order[o], "disputed") /\ "disputed" \in Statuses
  BY DEF Decide, Movable, Statuses
<1>5. RowOK(s, q, e) /\ Kept(order[o], s, paid[o], q) /\ KeptClaimed(order[o], s, paid[o], q)
  BY <1>1, <1>2, <1>3, <1>4, MovableRow
<1>6. listing' \in Listing
  BY MoveListing DEF Decide
<1>7. /\ order' = [order EXCEPT ![o] = s] /\ paid' = [paid EXCEPT ![o] = q]
      /\ released' = [released EXCEPT ![o] = e] /\ hand' = hand
  BY <1>2, <1>3 DEF Decide, Move, IInv, TypeOK
<1>. QED BY ONLY IInv, o \in Orders, s \in Rows, q \in BOOLEAN, e \in BOOLEAN,
                 <1>5, <1>6, <1>7, OrderOnly, ZenonT(60)

LEMMA RefundKeeps == ASSUME IInv, NEW o \in Orders, Refund(o) PROVE IInv'
<1>1. order[o] \in Rows /\ RowOK(order[o], paid[o], released[o])
  BY DEF IInv, TypeOK
<1>2. PICK m \in Rows : m = Moved(order[o], "refunded")
  BY <1>1, MovedRow DEF Statuses
<1>3. m.status = "refunded" /\ m.currency = order[o].currency
  BY <1>1, <1>2, MovedRow DEF Statuses
<1>4. PICK s \in Rows : s = [m EXCEPT !.pay = "refunded"]
  BY DEF Rows
<1>5. s.status = "refunded" /\ s.pay = "refunded" /\ s.currency = order[o].currency
  BY <1>3, <1>4 DEF Rows
<1>6. PICK q \in BOOLEAN, e \in BOOLEAN : q = paid[o] /\ e = released[o]
  BY DEF IInv, TypeOK
<1>7. RowOK(s, q, e) /\ Kept(order[o], s, paid[o], q) /\ KeptClaimed(order[o], s, paid[o], q)
  BY <1>1, <1>5, <1>6 DEF Refund, RowOK, Kept, KeptClaimed
<1>8. /\ order' = [order EXCEPT ![o] = s] /\ paid' = [paid EXCEPT ![o] = q]
      /\ released' = [released EXCEPT ![o] = e] /\ hand' = hand
      /\ listing' \in Listing
  BY <1>2, <1>4, <1>6 DEF Refund, IInv, TypeOK, Listing
<1>. QED BY ONLY IInv, o \in Orders, s \in Rows, q \in BOOLEAN, e \in BOOLEAN,
                 <1>7, <1>8, OrderOnly, ZenonT(60)

LEMMA ForceReleaseKeeps == ASSUME IInv, NEW o \in Orders, ForceRelease(o) PROVE IInv'
<1>1. order[o] \in Rows /\ RowOK(order[o], paid[o], released[o])
  BY DEF IInv, TypeOK
<1>2. PICK s \in Rows : s = [order[o] EXCEPT !.claimed = FALSE]
  BY <1>1 DEF Rows
<1>3. PICK q \in BOOLEAN, e \in BOOLEAN :
        q = paid[o] /\ e = (released[o] \/ (paid[o] /\ order[o].pay = "pending"))
  BY DEF IInv, TypeOK
<1>4. RowOK(s, q, e) /\ Kept(order[o], s, paid[o], q)
  BY <1>1, <1>2, <1>3 DEF ForceRelease, Rows, RowOK, Kept
<1>5. \A g \in Handlers : Paying(g, o) => KeptClaimed(order[o], s, paid[o], q)
  BY DEF ForceRelease
<1>6. /\ order' = [order EXCEPT ![o] = s] /\ paid' = [paid EXCEPT ![o] = q]
      /\ released' = [released EXCEPT ![o] = e] /\ hand' = hand
      /\ listing' \in Listing
  BY <1>2, <1>3 DEF ForceRelease, IInv, TypeOK, Listing
<1>. QED BY ONLY IInv, o \in Orders, s \in Rows, q \in BOOLEAN, e \in BOOLEAN,
                 <1>4, <1>5, <1>6, OrderOnly, ZenonT(60)

LEMMA CrashKeeps == ASSUME IInv, NEW h \in Handlers, Crash(h) PROVE IInv'
<1>1. hand' = [hand EXCEPT ![h] = Idle] /\ UNCHANGED <<order, paid, released>> /\ listing' \in Listing
  BY DEF Crash, IInv, TypeOK, Listing
<1>. QED BY <1>1, IdleHand, HandOnly

LEMMA VerifyFailsKeeps ==
  ASSUME IInv, NEW h \in Handlers, NEW o \in Orders, VerifyFails(h, o) PROVE IInv'
<1>1. /\ hand[h] \in Hands /\ hand[h].order = o /\ HandOK(hand[h], order[o], paid[o])
  BY AtHand DEF VerifyFails
<1>2. PICK t \in Hands : t = [hand[h] EXCEPT !.pc = "confirm"]
  BY <1>1 DEF Hands
<1>3. t.pc = "confirm" /\ t.order = o
  BY <1>1, <1>2 DEF Hands
<1>4. HandOK(t, order[t.order], paid[t.order]) /\ t.pc \notin Pays
  BY <1>1, <1>3 DEF HandOK, Pays
<1>5. hand' = [hand EXCEPT ![h] = t] /\ UNCHANGED <<order, paid, released>> /\ listing' \in Listing
  BY <1>2 DEF VerifyFails, Goto, IInv, TypeOK, Listing
<1>. QED BY <1>4, <1>5, HandOnly

--------------------------------------------------------------------------------
LEMMA InitInvariant == Init => IInv
<1> SUFFICES ASSUME Init PROVE IInv
  OBVIOUS
<1>1. 0..MaxStock \in SUBSET Nat
  BY ListingAssumption
<1>2. NoOrder \in Rows /\ NoOrder.status = "none" /\ NoOrder.pay = "none" /\ ~ NoOrder.reserved
      /\ ~ NoOrder.claimed /\ NoOrder.currency = "none"
  BY DEF NoOrder, Rows, Statuses
<1>3. TypeOK
  BY <1>1, <1>2, IdleHand DEF Init, TypeOK
<1>4. \A o \in Orders : RowOK(order[o], paid[o], released[o])
  BY <1>2 DEF Init, RowOK
<1>5. \A o \in Orders, h \in Handlers : ~ Paying(h, o)
  BY DEF Init, Paying, Idle
<1>. QED BY <1>3, <1>4, <1>5 DEF IInv, Init

LEMMA NextInvariant == IInv /\ [Next]_vars => IInv'
<1> SUFFICES ASSUME IInv, [Next]_vars PROVE IInv'
  OBVIOUS
<1>1. CASE UNCHANGED vars
  BY <1>1 DEF vars, IInv, TypeOK, Paying
<1>2. CASE Next
  BY <1>2, SweepKeeps, SellerEditKeeps, CreateKeeps, ExpireKeeps, PiPaidKeeps, DecideKeeps,
     RefundKeeps, ForceReleaseKeeps, StepKeeps, StartKeeps, CrashKeeps, VerifyFailsKeeps
     DEF Next, Undisturbed
<1>. QED BY <1>1, <1>2

(* The invariant holds throughout. *)
THEOREM OrderInvariant == Spec => []IInv
<1>. QED BY InitInvariant, NextInvariant, PTL DEF Spec

(* Every variable has its type; the stock never gets negative. *)
THEOREM OrderTypes == Spec => []TypeOK
<1>1. IInv => TypeOK
  BY DEF IInv
<1>. QED BY <1>1, OrderInvariant, PTL

(* From the claim to the saved payment nobody takes the order away. *)
THEOREM ClaimsAreHeld == Spec => []ClaimIsHeld
<1>1. IInv => ClaimIsHeld
  BY PayingRow DEF ClaimIsHeld
<1>. QED BY <1>1, OrderInvariant, PTL

(* A verified order was paid, is not cancelled and keeps its stock until its status follows. *)
THEOREM PaidKeepStock == Spec => []PaidOrdersKeepTheirStock
<1>1. IInv => PaidOrdersKeepTheirStock
  BY DEF IInv, RowOK, PaidOrdersKeepTheirStock
<1>. QED BY <1>1, OrderInvariant, PTL

(* A GHC order is cancelled after it was paid only when the operator released it since. *)
THEOREM CancelledUnspent == Spec => []CancelledIsUnspent
<1>1. IInv => CancelledIsUnspent
  BY DEF IInv, RowOK, CancelledIsUnspent
<1>. QED BY <1>1, OrderInvariant, PTL

--------------------------------------------------------------------------------
(***************************************************************************)
(* Conservation of stock.  What counts is which orders hold stock: a step  *)
(* that changes an order keeps that set, or takes from it as many orders   *)
(* as units go back to the listing, or adds the one whose unit is taken.   *)
(***************************************************************************)
HeldIn(rows) == {o \in Orders : Holds(rows[o])}

LEMMA HeldFinite ==
  ASSUME NEW rows
  PROVE  IsFiniteSet(HeldIn(rows)) /\ Cardinality(HeldIn(rows)) \in Nat
<1>1. HeldIn(rows) \subseteq Orders
  BY DEF HeldIn
<1>. QED BY <1>1, OrdersAssumption, FS_Subset, FS_CardinalityType

(* A row is changed, and not what it holds. *)
LEMMA SameHeld ==
  ASSUME NEW rows \in [Orders -> Rows], NEW o \in Orders, NEW s \in Rows,
         Holds(s) <=> Holds(rows[o])
  PROVE  HeldIn([rows EXCEPT ![o] = s]) = HeldIn(rows)
BY DEF HeldIn

(* The sweep gives back what the expired orders hold. *)
LEMMA SweptSupply ==
  ASSUME IInv
  PROVE  /\ SweptListing.avail + Cardinality(HeldIn(SweptOrders)) =
              listing.avail + Cardinality(HeldIn(order))
         /\ SweptListing.avail \in Nat
<1> DEFINE E == {o \in Orders : Expired(order[o])}
<1>1. E \subseteq HeldIn(order)
  BY DEF Expired, Holds, HeldIn
<1>2. HeldIn(SweptOrders) = HeldIn(order) \ E
  <2>1. ASSUME NEW o \in Orders, Expired(order[o]) PROVE ~ Holds(SweptOrders[o])
    <3>1. order[o] \in Rows
      BY DEF IInv, TypeOK
    <3>2. PICK m \in Rows : m = Moved(order[o], "cancelled")
      BY <3>1, MovedRow DEF Statuses
    <3>3. ~ m.reserved
      BY <2>1, <3>1, <3>2, MovedRow DEF Expired, Statuses
    <3>4. SweptOrders[o] = [m EXCEPT !.pay = "failed"]
      BY <2>1, <3>2 DEF SweptOrders
    <3>. QED BY <3>2, <3>3, <3>4 DEF Holds, Rows
  <2>2. \A o \in Orders : ~ Expired(order[o]) => SweptOrders[o] = order[o]
    BY DEF SweptOrders
  <2>. QED BY <2>1, <2>2 DEF HeldIn
<1>3. IsFiniteSet(E) /\ Cardinality(E) \in Nat
  BY OrdersAssumption, FS_Subset, FS_CardinalityType
<1>4. Cardinality(HeldIn(SweptOrders)) = Cardinality(HeldIn(order)) - Cardinality(E)
  <2>1. HeldIn(order) \cap E = E
    BY <1>1
  <2>2. Cardinality(HeldIn(order) \ E) = Cardinality(HeldIn(order)) - Cardinality(HeldIn(order) \cap E)
    BY HeldFinite, FS_Difference
  <2>. QED BY <1>2, <2>1, <2>2
<1>5. SweptListing.avail = listing.avail + Cardinality(E) /\ listing.avail \in Nat
  BY DEF SweptListing, Restocked, IInv, TypeOK
<1>. QED BY <1>3, <1>4, <1>5, HeldFinite

(* A unit goes back to the listing when, and only when, its order gives it up. *)
LEMMA MoveSupply ==
  ASSUME IInv, NEW o \in Orders, NEW to \in Statuses, Movable(order[o], to), Move(o, to)
  PROVE  listing'.avail + Cardinality(HeldIn(order')) = listing.avail + Cardinality(HeldIn(order))
<1>1. order \in [Orders -> Rows] /\ order[o] \in Rows /\ RowOK(order[o], paid[o], released[o])
      /\ listing.avail \in Nat
  BY DEF IInv, TypeOK
<1>2. PICK m \in Rows : m = Moved(order[o], to)
  BY <1>1, MovedRow
<1>3. /\ m.pay = order[o].pay
      /\ to = "cancelled" /\ order[o].status # to => ~ m.reserved
      /\ to \notin {"cancelled", "payment_verified"} => m.reserved = order[o].reserved
  BY <1>1, <1>2, MovedRow
<1>4. order' = [order EXCEPT ![o] = m]
  BY <1>2 DEF Move
<1>5. CASE GivenBack(order[o], to)
  <2>1. Holds(order[o]) /\ ~ Holds(m)
    BY <1>1, <1>3, <1>5 DEF GivenBack, Holds, Movable
  <2>2. listing'.avail = listing.avail + 1
    BY <1>5 DEF Move, Restocked
  <2>3. Cardinality(HeldIn(order')) = Cardinality(HeldIn(order)) - 1
    <3>1. HeldIn(order') = HeldIn(order) \ {o} /\ o \in HeldIn(order)
      BY <1>1, <1>4, <2>1 DEF HeldIn
    <3>. QED BY <3>1, HeldFinite, FS_RemoveElement
  <2>4. Cardinality(HeldIn(order)) \in Nat
    BY HeldFinite
  <2>. QED BY <1>1, <2>2, <2>3, <2>4
<1>6. CASE ~ GivenBack(order[o], to)
  <2>1. Holds(m) <=> Holds(order[o])
    BY <1>1, <1>3, <1>6 DEF GivenBack, Holds, Movable, Rows
  <2>2. listing'.avail = listing.avail
    BY <1>1, <1>6 DEF Move, Restocked
  <2>3. HeldIn(order') = HeldIn(order)
    BY <1>1, <1>4, <2>1, SameHeld
  <2>. QED BY <2>2, <2>3
<1>. QED BY <1>5, <1>6

LEMMA SupplyHeld == Supply = listing.avail + Cardinality(HeldIn(order))
BY DEF Supply, HeldIn

(* A step that changes one row, and not what it holds. *)
LEMMA SameSupply ==
  ASSUME IInv, NEW o \in Orders, NEW s \in Rows, order' = [order EXCEPT ![o] = s],
         Holds(s) <=> Holds(order[o]), listing'.avail = listing.avail
  PROVE  listing'.avail + Cardinality(HeldIn(order')) = listing.avail + Cardinality(HeldIn(order))
<1>1. order \in [Orders -> Rows]
  BY DEF IInv, TypeOK
<1>2. HeldIn(order') = HeldIn(order)
  BY <1>1, SameHeld
<1>. QED BY <1>2

LEMMA CreateSupply ==
  ASSUME IInv, NEW o \in Orders, NEW currency \in Currencies, Create(o, currency)
  PROVE  listing'.avail + Cardinality(HeldIn(order')) = listing.avail + Cardinality(HeldIn(order))
<1>1. PICK s \in Rows : s = [NoOrder EXCEPT !.status = "payment_pending", !.pay = "pending",
                                            !.currency = currency, !.reserved = TRUE, !.live = TRUE]
  BY ListingAssumption DEF NoOrder, Rows, Statuses
<1>2. Holds(s)
  BY <1>1 DEF NoOrder, Holds
<1>3. order[o].status = "none" /\ order' = [SweptOrders EXCEPT ![o] = s]
  BY <1>1 DEF Create
<1>4. SweptOrders \in [Orders -> Rows] /\ SweptOrders[o] = order[o]
  BY <1>3, Swept
<1>5. PICK rows \in [Orders -> Rows] : rows = SweptOrders
  BY <1>4
<1>6. ~ Holds(rows[o]) /\ order' = [rows EXCEPT ![o] = s]
  BY <1>3, <1>4, <1>5 DEF IInv, RowOK, Holds
<1>7. Cardinality(HeldIn(order')) = Cardinality(HeldIn(rows)) + 1
  <2>1. HeldIn(order') = HeldIn(rows) \cup {o} /\ o \notin HeldIn(rows)
    BY <1>2, <1>6 DEF HeldIn
  <2>. QED BY <2>1, HeldFinite, FS_AddElement
<1>8. listing'.avail = SweptListing.avail - 1
  BY DEF Create
<1>9. Cardinality(HeldIn(SweptOrders)) \in Nat
  BY HeldFinite
<1>. QED BY <1>5, <1>7, <1>8, <1>9, SweptSupply

LEMMA ClaimSupply ==
  ASSUME IInv, NEW h \in Handlers, NEW o \in Orders, Claim(h, o)
  PROVE  listing'.avail + Cardinality(HeldIn(order')) = listing.avail + Cardinality(HeldIn(order))
<1>1. listing' = SweptListing /\ SweptOrders \in [Orders -> Rows]
  BY Swept DEF Claim
<1>2. HeldIn(order') = HeldIn(SweptOrders)
  <2>1. CASE Payable(SweptOrders[o])
    <3>1. PICK s \in Rows : s = [SweptOrders[o] EXCEPT !.claimed = TRUE]
      BY <1>1 DEF Rows
    <3>2. Holds(s) <=> Holds(SweptOrders[o])
      BY <1>1, <3>1 DEF Holds, Rows
    <3>3. order' = [SweptOrders EXCEPT ![o] = s]
      BY <1>1, <2>1, <3>1 DEF Claim
    <3>4. \A e \in Orders : Holds(order'[e]) <=> Holds(SweptOrders[e])
      BY <1>1, <3>2, <3>3
    <3>. QED BY <3>4 DEF HeldIn
  <2>2. CASE ~ Payable(SweptOrders[o])
    BY <2>2 DEF Claim
  <2>. QED BY <2>1, <2>2
<1>. QED BY <1>1, <1>2, SweptSupply

LEMMA SaveSupply ==
  ASSUME IInv, NEW h \in Handlers, NEW o \in Orders, Save(h, o)
  PROVE  listing'.avail + Cardinality(HeldIn(order')) = listing.avail + Cardinality(HeldIn(order))
<1>1. /\ order[o] \in Rows /\ order[o].reserved /\ order[o].claimed
      /\ hand[h].seen = "payment_pending"
  BY AtHand DEF Save, HandOK
<1>2. PICK s \in Rows : s = [Moved(order[o], "payment_pending") EXCEPT !.pay = "verified"]
  BY <1>1, SavedRow
<1>3. s.reserved
  BY <1>1, <1>2, SavedRow
<1>4. Holds(s) <=> Holds(order[o])
  BY <1>1, <1>3 DEF Holds
<1>5. order' = [order EXCEPT ![o] = s]
  BY <1>1, <1>2 DEF Save
<1>6. listing'.avail = listing.avail
  BY <1>1 DEF Save, GivenBack, Restocked, IInv, TypeOK
<1>. QED BY <1>4, <1>5, <1>6, SameSupply

LEMMA ActSupply ==
  ASSUME IInv, NEW h \in Handlers, NEW o \in Orders, Act(h, o), order' # order
  PROVE  listing'.avail + Cardinality(HeldIn(order')) = listing.avail + Cardinality(HeldIn(order))
<1>1. order[o] \in Rows /\ RowOK(order[o], paid[o], released[o])
  BY DEF IInv, TypeOK
<1>2. CASE \/ Cancel(h, o) \/ Dispute(h, o) \/ CancelUnpaid(h, o)
  <2>1. \E to \in {"cancelled", "disputed"} : Movable(order[o], to) /\ Move(o, to)
    BY <1>2 DEF Cancel, Transition, Dispute, CancelUnpaid, Commerce, Movable,
                Accepts, MayFollow
  <2>2. {"cancelled", "disputed"} \subseteq Statuses
    BY DEF Statuses
  <2>. QED BY <2>1, <2>2, MoveSupply
<1>3. CASE SellerFulfill(h, o)
  <2>1. PICK m \in Rows : m = Moved(order[o], "fulfilling")
    BY <1>1, MovedRow DEF Statuses
  <2>2. m.pay = order[o].pay /\ m.reserved = order[o].reserved
    BY <1>1, <2>1, MovedRow DEF Statuses
  <2>3. PICK n \in Rows : n = [m EXCEPT !.delivered = FALSE]
    BY DEF Rows
  <2>4. Holds(n) <=> Holds(order[o])
    BY <2>2, <2>3 DEF Holds, Rows
  <2>5. order' = [order EXCEPT ![o] = n] /\ listing'.avail = listing.avail
    BY <1>3, <2>1, <2>3 DEF SellerFulfill
  <2>. QED BY <2>4, <2>5, SameSupply
<1>4. CASE SellerMarkDelivered(h, o)
  <2>1. PICK n \in Rows : n = [order[o] EXCEPT !.delivered = TRUE]
    BY <1>1 DEF Rows
  <2>2. Holds(n) <=> Holds(order[o])
    BY <1>1, <2>1 DEF Holds, Rows
  <2>3. order' = [order EXCEPT ![o] = n] /\ listing'.avail = listing.avail
    BY <1>4, <2>1 DEF SellerMarkDelivered
  <2>. QED BY <2>2, <2>3, SameSupply
<1>5. CASE BuyerConfirm(h, o)
  <2>1. PICK n \in Rows : /\ n = [Moved(order[o], "completed") EXCEPT !.delivered = FALSE]
                          /\ n.pay = order[o].pay /\ n.reserved = order[o].reserved
    BY <1>1, CompletedRow
  <2>2. Holds(n) <=> Holds(order[o])
    BY <2>1 DEF Holds
  <2>3. order' = [order EXCEPT ![o] = n] /\ listing'.avail = listing.avail
    BY <1>5, <2>1 DEF BuyerConfirm
  <2>. QED BY <2>2, <2>3, SameSupply
<1>. QED BY <1>2, <1>3, <1>4, <1>5 DEF Act, Declined

LEMMA StepSupply ==
  ASSUME IInv, NEW h \in Handlers, NEW o \in Orders, Step(h, o), order' # order
  PROVE  listing'.avail + Cardinality(HeldIn(order')) = listing.avail + Cardinality(HeldIn(order))
<1>1. order[o] \in Rows /\ RowOK(order[o], paid[o], released[o])
  BY DEF IInv, TypeOK
<1>2. CASE Verify(h, o) \/ Confirm(h, o)
  <2>1. \E to \in {"payment_verified", "confirmed"} : Movable(order[o], to) /\ Move(o, to)
    BY <1>2 DEF Verify, Confirm, Transition, Movable, Accepts
  <2>2. {"payment_verified", "confirmed"} \subseteq Statuses
    BY DEF Statuses
  <2>. QED BY <2>1, <2>2, MoveSupply
<1>3. CASE ReleaseClaim(h, o)
  <2>1. PICK n \in Rows : n = [order[o] EXCEPT !.claimed =
             @ /\ ~ (order[o].status = "payment_pending" /\ order[o].pay = "pending")]
    BY <1>1 DEF Rows
  <2>2. Holds(n) <=> Holds(order[o])
    BY <1>1, <2>1 DEF Holds, Rows
  <2>3. order' = [order EXCEPT ![o] = n] /\ listing'.avail = listing.avail
    BY <1>3, <2>1 DEF ReleaseClaim
  <2>. QED BY <2>2, <2>3, SameSupply
<1>. QED
  BY <1>2, <1>3, ClaimSupply, SaveSupply, ActSupply DEF Step, Load, Spend, SpendRefused

LEMMA OperatorSupply ==
  ASSUME IInv, NEW o \in Orders, Decide(o) \/ Refund(o) \/ ForceRelease(o) \/ Expire(o)
  PROVE  listing'.avail + Cardinality(HeldIn(order')) = listing.avail + Cardinality(HeldIn(order))
<1>1. order[o] \in Rows /\ RowOK(order[o], paid[o], released[o])
  BY DEF IInv, TypeOK
<1>2. CASE Decide(o)
  BY <1>2, MoveSupply DEF Decide, Movable, Statuses
<1>3. CASE Refund(o)
  <2>1. PICK m \in Rows : m = Moved(order[o], "refunded")
    BY <1>1, MovedRow DEF Statuses
  <2>2. PICK n \in Rows : n = [m EXCEPT !.pay = "refunded"]
    BY DEF Rows
  <2>3. Holds(n) <=> Holds(order[o])
    BY <1>3, <2>2 DEF Refund, Holds, Rows
  <2>4. order' = [order EXCEPT ![o] = n] /\ listing'.avail = listing.avail
    BY <1>3, <2>1, <2>2 DEF Refund
  <2>. QED BY <2>3, <2>4, SameSupply
<1>4. CASE ForceRelease(o)
  <2>1. PICK n \in Rows : n = [order[o] EXCEPT !.claimed = FALSE]
    BY <1>1 DEF Rows
  <2>2. Holds(n) <=> Holds(order[o])
    BY <1>1, <2>1 DEF Holds, Rows
  <2>3. order' = [order EXCEPT ![o] = n] /\ listing'.avail = listing.avail
    BY <1>4, <2>1 DEF ForceRelease
  <2>. QED BY <2>2, <2>3, SameSupply
<1>5. CASE Expire(o)
  <2>1. PICK n \in Rows : n = [order[o] EXCEPT !.live = FALSE]
    BY <1>1 DEF Rows
  <2>2. Holds(n) <=> Holds(order[o])
    BY <1>1, <2>1 DEF Holds, Rows
  <2>3. order' = [order EXCEPT ![o] = n] /\ listing'.avail = listing.avail
    BY <1>5, <2>1 DEF Expire
  <2>. QED BY <2>2, <2>3, SameSupply
<1>. QED BY <1>2, <1>3, <1>4, <1>5

LEMMA NextSupply == IInv /\ [Next]_vars => [order' # order => Supply' = Supply]_vars
<1> SUFFICES ASSUME IInv, Next, order' # order PROVE Supply' = Supply
  OBVIOUS
<1> DEFINE Same == listing'.avail + Cardinality(HeldIn(order')) =
                     listing.avail + Cardinality(HeldIn(order))
<1>1. ASSUME Sweep PROVE Same
  BY <1>1, SweptSupply DEF Sweep
<1>2. ASSUME NEW h \in Handlers, NEW o \in Orders, NEW route, Start(h, o, route) PROVE Same
  BY <1>2, SweptSupply DEF Start
<1>3. Same
  <2> HIDE DEF Same
  <2>1. ASSUME NEW o \in Orders,
               \/ \E currency \in Currencies : Create(o, currency)
               \/ Decide(o) \/ Refund(o) \/ ForceRelease(o) \/ Expire(o)
        PROVE  Same
    BY <2>1, CreateSupply, OperatorSupply DEF Same
  <2>2. ASSUME NEW h \in Handlers, NEW o \in Orders, Step(h, o) PROVE Same
    BY <2>2, StepSupply DEF Same
  <2>. QED
    BY <1>1, <1>2, <2>1, <2>2 DEF Next, Undisturbed, SellerEdit, PiPaid, Crash, VerifyFails
<1>4. Supply' = listing'.avail + Cardinality(HeldIn(order'))
  BY DEF Supply, HeldIn
<1>. QED BY <1>3, <1>4, SupplyHeld

(* No unit of stock is given back twice, sold twice or lost. *)
THEOREM StockKept == Spec => StockIsConserved
<1>. QED BY OrderInvariant, NextSupply, PTL DEF Spec, StockIsConserved

--------------------------------------------------------------------------------
(***************************************************************************)
(* Refinement.  OrderPromise sees the phase of an order, its currency and  *)
(* whether it was paid.  The sweep frees the expired orders, all held; of  *)
(* the other orders a step changes the phase of one at most.               *)
(***************************************************************************)
PhaseOf(rows) == [o \in Orders |-> Phase(rows[o])]

CurrencyOf(rows) == [o \in Orders |-> rows[o].currency]

Late == {o \in Orders : Expired(order[o])}

(* What a move does to the phase of a row. *)
LEMMA MovedPhase ==
  ASSUME NEW r \in Rows, NEW p \in BOOLEAN, NEW e \in BOOLEAN, NEW to \in Statuses,
         RowOK(r, p, e), Movable(r, to)
  PROVE  /\ Moved(r, to) \in Rows /\ Moved(r, to).currency = r.currency
         /\ GivenBack(r, to) => Phase(r) = "held" /\ Phase(Moved(r, to)) = "free"
         /\ ~ GivenBack(r, to) => Phase(Moved(r, to)) = Phase(r)
<1> DEFINE m == Moved(r, to)
<1>1. /\ m \in Rows /\ m.status = to /\ m.pay = r.pay /\ m.currency = r.currency
      /\ to = "cancelled" /\ r.status # to => ~ m.reserved /\ m.claimed = r.claimed
      /\ to \notin {"cancelled", "payment_verified"} =>
           m.reserved = r.reserved /\ m.claimed = r.claimed
  BY MovedRow
<1> HIDE DEF m
<1>2. to # "none" /\ r.status # "none"
  BY DEF Movable, RowOK
<1>3. GivenBack(r, to) => Phase(r) = "held" /\ Phase(m) = "free"
  BY <1>1, <1>2 DEF GivenBack, Movable, Phase
<1>4. ~ GivenBack(r, to) => Phase(m) = Phase(r)
  BY <1>1, <1>2 DEF GivenBack, Movable, Phase
<1>. QED BY <1>1, <1>3, <1>4 DEF m

(* The sweep frees the late orders, and gives a unit back for each. *)
LEMMA SweptPhase ==
  ASSUME IInv
  PROVE  /\ Late \in SUBSET {o \in Orders : PhaseOf(order)[o] = "held"}
         /\ Cardinality(Late) \in Nat
         /\ PhaseOf(SweptOrders) = [o \in Orders |-> IF o \in Late THEN "free" ELSE PhaseOf(order)[o]]
         /\ CurrencyOf(SweptOrders) = CurrencyOf(order)
         /\ SweptListing.avail = listing.avail + Cardinality(Late)
<1>1. ASSUME NEW o \in Orders
      PROVE  /\ SweptOrders[o].currency = order[o].currency
             /\ o \in Late => Phase(order[o]) = "held" /\ Phase(SweptOrders[o]) = "free"
             /\ o \notin Late => Phase(SweptOrders[o]) = Phase(order[o])
  <2>1. order[o] \in Rows /\ RowOK(order[o], paid[o], released[o])
    BY DEF IInv, TypeOK
  <2>2. CASE o \notin Late
    BY <2>2 DEF Late, SweptOrders
  <2>3. CASE o \in Late
    <3>1. Expired(order[o])
      BY <2>3 DEF Late
    <3>2. PICK m \in Rows : m = Moved(order[o], "cancelled")
      BY <2>1, MovedRow DEF Statuses
    <3>3. /\ m.status = "cancelled" /\ ~ m.reserved /\ m.currency = order[o].currency
      BY <2>1, <3>1, <3>2, MovedRow DEF Expired, Statuses
    <3>4. SweptOrders[o] = [m EXCEPT !.pay = "failed"]
      BY <3>1, <3>2 DEF SweptOrders
    <3>5. /\ SweptOrders[o].status = "cancelled" /\ SweptOrders[o].pay = "failed"
          /\ ~ SweptOrders[o].reserved /\ SweptOrders[o].currency = order[o].currency
      BY <3>3, <3>4 DEF Rows
    <3>6. Phase(SweptOrders[o]) = "free"
      BY <3>5 DEF Phase
    <3>7. Phase(order[o]) = "held"
      BY <3>1 DEF Expired, Phase
    <3>. QED BY <2>3, <3>5, <3>6, <3>7
  <2>. QED BY <2>2, <2>3
<1>2. Late \in SUBSET {o \in Orders : PhaseOf(order)[o] = "held"}
  BY <1>1 DEF Late, PhaseOf
<1>3. PhaseOf(SweptOrders) = [o \in Orders |-> IF o \in Late THEN "free" ELSE PhaseOf(order)[o]]
  BY <1>1 DEF PhaseOf
<1>4. CurrencyOf(SweptOrders) = CurrencyOf(order)
  BY <1>1 DEF CurrencyOf
<1>5. SweptListing.avail = listing.avail + Cardinality(Late)
  BY DEF SweptListing, Restocked, Late
<1>6. Cardinality(Late) \in Nat
  BY OrdersAssumption, FS_Subset, FS_CardinalityType DEF Late
<1>. QED BY <1>2, <1>3, <1>4, <1>5, <1>6

(* The instance has a Cardinality of its own. *)
LEMMA SameCardinality == ASSUME NEW S PROVE Promise!Cardinality(S) = Cardinality(S)
BY DEF Promise!Cardinality, Cardinality

(* The steps of OrderPromise, as the operators above put them. *)
LEMMA SeenNext ==
  Promise!Next <=>
    \/ Promise!Restock
    \/ \E S \in SUBSET {o \in Orders : PhaseOf(order)[o] = "held"} :
         \/ Promise!GiveBack(S)
         \/ \E o \in Orders :
              \/ Promise!Claim(o, S)
              \/ \E c \in {"GHC", "PI"} : Promise!Reserve(o, c, S)
    \/ \E o \in Orders : Promise!Pay(o) \/ Promise!Unclaim(o) \/ Promise!Sell(o)
                        \/ Promise!Release(o)
BY DEF Promise!Next, Promise!Held, PhaseOf

LEMMA SeenUnchanged ==
  ASSUME UNCHANGED <<listing.avail, PhaseOf(order), CurrencyOf(order), paid, released>>
  PROVE  UNCHANGED Promise!vars
BY DEF Promise!vars, PhaseOf, CurrencyOf

LEMMA SeenSame ==
  ASSUME UNCHANGED <<listing, order, paid, released>>
  PROVE  UNCHANGED Promise!vars
<1>1. UNCHANGED <<listing.avail, PhaseOf(order), CurrencyOf(order), paid, released>>
  BY DEF PhaseOf, CurrencyOf
<1>. QED BY <1>1, SeenUnchanged

LEMMA SeenGiveBack ==
  ASSUME NEW S,
         PhaseOf(order)' = [o \in Orders |-> IF o \in S THEN "free" ELSE PhaseOf(order)[o]],
         listing'.avail = listing.avail + Cardinality(S),
         UNCHANGED <<CurrencyOf(order), paid, released>>
  PROVE  Promise!GiveBack(S)
BY SameCardinality DEF Promise!GiveBack, Promise!Freed, PhaseOf, CurrencyOf

LEMMA SeenReserve ==
  ASSUME NEW S, NEW o, NEW c, PhaseOf(order)[o] = "none", listing.avail + Cardinality(S) > 0,
         PhaseOf(order)' = [[e \in Orders |-> IF e \in S THEN "free" ELSE PhaseOf(order)[e]]
                              EXCEPT ![o] = "held"],
         listing'.avail = listing.avail + Cardinality(S) - 1,
         CurrencyOf(order)' = [CurrencyOf(order) EXCEPT ![o] = c], UNCHANGED <<paid, released>>
  PROVE  Promise!Reserve(o, c, S)
BY SameCardinality DEF Promise!Reserve, Promise!Freed, PhaseOf, CurrencyOf

LEMMA SeenClaim ==
  ASSUME NEW S, NEW o \in Orders, PhaseOf(order)[o] = "held", o \notin S,
         PhaseOf(order)' = [[e \in Orders |-> IF e \in S THEN "free" ELSE PhaseOf(order)[e]]
                              EXCEPT ![o] = "claimed"],
         listing'.avail = listing.avail + Cardinality(S),
         UNCHANGED <<CurrencyOf(order), paid, released>>
  PROVE  Promise!Claim(o, S)
BY SameCardinality DEF Promise!Claim, Promise!Held, Promise!Freed, PhaseOf, CurrencyOf

LEMMA SeenUnclaim ==
  ASSUME NEW o, PhaseOf(order)[o] = "claimed", ~ paid[o],
         PhaseOf(order)' = [PhaseOf(order) EXCEPT ![o] = "held"],
         UNCHANGED <<listing.avail, CurrencyOf(order), paid, released>>
  PROVE  Promise!Unclaim(o)
BY DEF Promise!Unclaim, PhaseOf, CurrencyOf

LEMMA SeenSell ==
  ASSUME NEW o, PhaseOf(order)[o] = "claimed", paid[o],
         PhaseOf(order)' = [PhaseOf(order) EXCEPT ![o] = "sold"],
         released' = [released EXCEPT ![o] = FALSE],
         UNCHANGED <<listing.avail, CurrencyOf(order), paid>>
  PROVE  Promise!Sell(o)
BY DEF Promise!Sell, PhaseOf, CurrencyOf

LEMMA SeenRelease ==
  ASSUME NEW o, PhaseOf(order)[o] = "claimed", paid[o],
         PhaseOf(order)' = [PhaseOf(order) EXCEPT ![o] = "held"],
         released' = [released EXCEPT ![o] = TRUE],
         UNCHANGED <<listing.avail, CurrencyOf(order), paid>>
  PROVE  Promise!Release(o)
BY DEF Promise!Release, PhaseOf, CurrencyOf

LEMMA SeenPay ==
  ASSUME NEW o \in Orders, ~ paid[o], CurrencyOf(order)[o] = "PI" \/ PhaseOf(order)[o] = "claimed",
         paid' = [paid EXCEPT ![o] = TRUE],
         UNCHANGED <<listing.avail, PhaseOf(order), CurrencyOf(order), released>>
  PROVE  Promise!Pay(o)
BY DEF Promise!Pay, PhaseOf, CurrencyOf

(* A step after which an order has another row of the same phase. *)
LEMMA SamePhase ==
  ASSUME IInv, NEW o \in Orders, NEW s \in Rows, order' = [order EXCEPT ![o] = s],
         Phase(s) = Phase(order[o]), s.currency = order[o].currency,
         listing'.avail = listing.avail, UNCHANGED <<paid, released>>
  PROVE  UNCHANGED Promise!vars
<1>1. order \in [Orders -> Rows]
  BY DEF IInv, TypeOK
<1>2. \A e \in Orders : Phase(order'[e]) = Phase(order[e]) /\ order'[e].currency = order[e].currency
  BY <1>1
<1>3. UNCHANGED <<PhaseOf(order), CurrencyOf(order)>>
  BY <1>2 DEF PhaseOf, CurrencyOf
<1>. QED BY <1>3, SeenUnchanged

(* A step after which one order is in another phase. *)
LEMMA OtherPhase ==
  ASSUME IInv, NEW o \in Orders, NEW s \in Rows, order' = [order EXCEPT ![o] = s],
         s.currency = order[o].currency
  PROVE  /\ PhaseOf(order)' = [PhaseOf(order) EXCEPT ![o] = Phase(s)]
         /\ UNCHANGED CurrencyOf(order)
<1>1. order \in [Orders -> Rows]
  BY DEF IInv, TypeOK
<1>2. \A e \in Orders : /\ Phase(order'[e]) = IF e = o THEN Phase(s) ELSE Phase(order[e])
                        /\ order'[e].currency = order[e].currency
  BY <1>1
<1>. QED BY <1>2 DEF PhaseOf, CurrencyOf

LEMMA PromiseSweep ==
  ASSUME IInv, order' = SweptOrders, listing' = SweptListing, UNCHANGED <<paid, released>>
  PROVE  Promise!Next
<1>1. UNCHANGED CurrencyOf(order)
  BY SweptPhase DEF CurrencyOf
<1>2. PhaseOf(order)' = [o \in Orders |-> IF o \in Late THEN "free" ELSE PhaseOf(order)[o]]
  BY SweptPhase DEF PhaseOf
<1>3. Promise!GiveBack(Late)
  BY <1>1, <1>2, SweptPhase, SeenGiveBack
<1>. QED BY <1>3, SeenNext, SweptPhase

LEMMA PromiseMove ==
  ASSUME IInv, NEW o \in Orders, NEW to \in Statuses, Movable(order[o], to), Move(o, to),
         UNCHANGED <<paid, released>>
  PROVE  Promise!Next \/ UNCHANGED Promise!vars
<1>1. /\ order[o] \in Rows /\ RowOK(order[o], paid[o], released[o]) /\ paid[o] \in BOOLEAN
      /\ released[o] \in BOOLEAN
      /\ listing.avail \in Nat
  BY DEF IInv, TypeOK
<1>2. PICK m \in Rows : m = Moved(order[o], to)
  BY <1>1, MovedRow
<1>3. /\ m.currency = order[o].currency
      /\ GivenBack(order[o], to) => Phase(order[o]) = "held" /\ Phase(m) = "free"
      /\ ~ GivenBack(order[o], to) => Phase(m) = Phase(order[o])
  BY <1>1, <1>2, MovedPhase
<1>4. order' = [order EXCEPT ![o] = m]
  BY <1>2 DEF Move
<1>5. CASE GivenBack(order[o], to)
  <2>1. listing'.avail = listing.avail + 1
    BY <1>5 DEF Move, Restocked
  <2>2. PhaseOf(order)' = [PhaseOf(order) EXCEPT ![o] = "free"] /\ UNCHANGED CurrencyOf(order)
    BY <1>3, <1>4, <1>5, OtherPhase
  <2>3. PhaseOf(order)' = [e \in Orders |-> IF e \in {o} THEN "free" ELSE PhaseOf(order)[e]]
    BY <2>2 DEF PhaseOf
  <2>4. Cardinality({o}) = 1
    BY FS_Singleton
  <2>5. Promise!GiveBack({o})
    <3>1. listing'.avail = listing.avail + Cardinality({o}) /\ UNCHANGED <<CurrencyOf(order), paid, released>>
      BY <2>1, <2>2, <2>4
    <3>. QED BY <2>3, <3>1, SeenGiveBack
  <2>6. {o} \in SUBSET {e \in Orders : PhaseOf(order)[e] = "held"}
    BY <1>3, <1>5 DEF PhaseOf
  <2>. QED BY <2>5, <2>6, SeenNext
<1>6. CASE ~ GivenBack(order[o], to)
  <2>1. listing'.avail = listing.avail
    BY <1>1, <1>6 DEF Move, Restocked
  <2>. QED BY <1>3, <1>4, <1>6, <2>1, SamePhase
<1>. QED BY <1>5, <1>6

LEMMA PromiseCreate ==
  ASSUME IInv, NEW o \in Orders, NEW c \in Currencies, Create(o, c)
  PROVE  Promise!Next
<1>1. PICK s \in Rows : s = [NoOrder EXCEPT !.status = "payment_pending", !.pay = "pending",
                                            !.currency = c, !.reserved = TRUE, !.live = TRUE]
  BY ListingAssumption DEF NoOrder, Rows, Statuses
<1>2. Phase(s) = "held" /\ s.currency = c
  BY <1>1 DEF NoOrder, Phase
<1>3. /\ order[o].status = "none" /\ order' = [SweptOrders EXCEPT ![o] = s] /\ UNCHANGED <<paid, released>>
      /\ listing'.avail = SweptListing.avail - 1 /\ SweptListing.avail >= 1
  BY <1>1 DEF Create, Available
<1>4. SweptOrders \in [Orders -> Rows]
  BY Swept
<1>5. \A e \in Orders : /\ Phase(order'[e]) = IF e = o THEN "held" ELSE Phase(SweptOrders[e])
                        /\ order'[e].currency = IF e = o THEN c ELSE SweptOrders[e].currency
  BY <1>2, <1>3, <1>4
<1>6. /\ PhaseOf(order)' = [PhaseOf(SweptOrders) EXCEPT ![o] = "held"]
      /\ CurrencyOf(order)' = [CurrencyOf(SweptOrders) EXCEPT ![o] = c]
  BY <1>5 DEF PhaseOf, CurrencyOf
<1>7. PhaseOf(order)[o] = "none"
  <2>1. Phase(order[o]) = "none"
    BY <1>3 DEF Phase, IInv, RowOK
  <2>. QED BY <2>1 DEF PhaseOf
<1>8. listing.avail \in Nat
  BY DEF IInv, TypeOK
<1>9. /\ listing.avail + Cardinality(Late) > 0
      /\ listing'.avail = listing.avail + Cardinality(Late) - 1
  BY <1>3, <1>8, SweptPhase
<1>10. PhaseOf(order)' = [[e \in Orders |-> IF e \in Late THEN "free" ELSE PhaseOf(order)[e]]
                            EXCEPT ![o] = "held"]
  BY <1>6, SweptPhase
<1>11. CurrencyOf(order)' = [CurrencyOf(order) EXCEPT ![o] = c]
  BY <1>6, SweptPhase
<1>12. PICK S : S = Late
  OBVIOUS
<1>13. Promise!Reserve(o, c, S)
  <2>1. /\ PhaseOf(order)[o] = "none" /\ listing.avail + Cardinality(S) > 0
        /\ PhaseOf(order)' = [[e \in Orders |-> IF e \in S THEN "free" ELSE PhaseOf(order)[e]]
                                EXCEPT ![o] = "held"]
        /\ listing'.avail = listing.avail + Cardinality(S) - 1
        /\ CurrencyOf(order)' = [CurrencyOf(order) EXCEPT ![o] = c] /\ UNCHANGED <<paid, released>>
    BY <1>3, <1>7, <1>9, <1>10, <1>11, <1>12
  <2>. QED BY ONLY <2>1, SeenReserve
<1>14. S \in SUBSET {e \in Orders : PhaseOf(order)[e] = "held"} /\ c \in {"GHC", "PI"}
  BY <1>12, SweptPhase, ListingAssumption
<1>. QED BY ONLY o \in Orders, <1>13, <1>14, SeenNext

LEMMA PromiseClaim ==
  ASSUME IInv, NEW h \in Handlers, NEW o \in Orders, Claim(h, o)
  PROVE  Promise!Next
<1>1. CASE Payable(SweptOrders[o])
  <2>1. SweptOrders \in [Orders -> Rows]
    BY Swept
  <2>2. PICK s \in Rows : s = [SweptOrders[o] EXCEPT !.claimed = TRUE]
    BY <2>1 DEF Rows
  <2>3. /\ order' = [SweptOrders EXCEPT ![o] = s] /\ UNCHANGED <<paid, released>> /\ listing' = SweptListing
    BY <1>1, <2>1, <2>2 DEF Claim
  <2>4. /\ Phase(SweptOrders[o]) = "held" /\ Phase(s) = "claimed"
        /\ s.currency = SweptOrders[o].currency
    BY <1>1, <2>1, <2>2 DEF Payable, Phase, Rows
  <2>5. \A e \in Orders : /\ Phase(order'[e]) = IF e = o THEN "claimed" ELSE Phase(SweptOrders[e])
                          /\ order'[e].currency = SweptOrders[e].currency
    BY <2>1, <2>3, <2>4
  <2>6. /\ PhaseOf(order)' = [PhaseOf(SweptOrders) EXCEPT ![o] = "claimed"]
        /\ CurrencyOf(order)' = CurrencyOf(SweptOrders)
    BY <2>5 DEF PhaseOf, CurrencyOf
  <2>7. PhaseOf(SweptOrders)[o] = "held"
    BY <2>4 DEF PhaseOf
  <2>8. o \notin Late /\ PhaseOf(order)[o] = "held"
    BY <2>7, SweptPhase
  <2>9. UNCHANGED CurrencyOf(order)
    BY <2>6, SweptPhase
  <2>10. PhaseOf(order)' = [[e \in Orders |-> IF e \in Late THEN "free" ELSE PhaseOf(order)[e]]
                              EXCEPT ![o] = "claimed"]
    BY <2>6, SweptPhase
  <2>11. Promise!Claim(o, Late)
    BY <2>3, <2>8, <2>9, <2>10, SweptPhase, SeenClaim
  <2>. QED BY <2>11, SeenNext, SweptPhase
<1>2. CASE ~ Payable(SweptOrders[o])
  BY <1>2, PromiseSweep DEF Claim
<1>. QED BY <1>1, <1>2

(* A payment: of an order in Pi, or of one that its handler has claimed. *)
LEMMA PromisePay ==
  ASSUME IInv, NEW o \in Orders, paid' = [paid EXCEPT ![o] = TRUE], UNCHANGED <<listing, order, released>>,
         order[o].currency = "PI" \/ Phase(order[o]) = "claimed"
  PROVE  Promise!Next \/ UNCHANGED Promise!vars
<1>1. CASE paid[o]
  <2>1. UNCHANGED <<paid, released>>
    BY <1>1 DEF IInv, TypeOK
  <2>. QED BY <2>1, SeenSame
<1>2. CASE ~ paid[o]
  <2>1. CurrencyOf(order)[o] = "PI" \/ PhaseOf(order)[o] = "claimed"
    BY DEF CurrencyOf, PhaseOf
  <2>2. UNCHANGED <<listing.avail, PhaseOf(order), CurrencyOf(order), released>>
    BY DEF PhaseOf, CurrencyOf
  <2>3. Promise!Pay(o)
    BY <1>2, <2>1, <2>2, SeenPay
  <2>. QED BY <2>3, SeenNext
<1>. QED BY <1>1, <1>2

(* A claim is given up: unpaid, or by the operator. *)
LEMMA PromiseUnclaim ==
  ASSUME IInv, NEW o \in Orders, order' = [order EXCEPT ![o].claimed = FALSE],
         order[o].claimed, UNCHANGED <<listing, paid>>,
         released' = [released EXCEPT ![o] = @ \/ (paid[o] /\ order[o].pay = "pending")]
  PROVE  Promise!Next \/ UNCHANGED Promise!vars
<1>1. order[o] \in Rows /\ RowOK(order[o], paid[o], released[o])
  BY DEF IInv, TypeOK
<1>2. PICK s \in Rows : s = [order[o] EXCEPT !.claimed = FALSE]
  BY <1>1 DEF Rows
<1>3. s.currency = order[o].currency /\ order' = [order EXCEPT ![o] = s]
  BY <1>1, <1>2 DEF Rows
<1>4. CASE order[o].pay \notin {"verified", "refunded"}
  <2>1. Phase(order[o]) = "claimed" /\ Phase(s) = "held" /\ order[o].pay = "pending"
    BY <1>1, <1>2, <1>4 DEF RowOK, Phase, Rows
  <2>2. PhaseOf(order)' = [PhaseOf(order) EXCEPT ![o] = "held"] /\ UNCHANGED CurrencyOf(order)
    BY ONLY IInv, o \in Orders, s \in Rows, <1>3, <2>1, OtherPhase
  <2>3. PhaseOf(order)[o] = "claimed"
    BY <2>1 DEF PhaseOf
  <2>4. CASE ~ paid[o]
    <3>1. released' = released
      BY <2>4 DEF IInv, TypeOK
    <3>2. Promise!Unclaim(o)
      BY <2>2, <2>3, <2>4, <3>1, SeenUnclaim
    <3>. QED BY <3>2, SeenNext
  <2>5. CASE paid[o]
    <3>1. released' = [released EXCEPT ![o] = TRUE]
      BY <2>1, <2>5 DEF IInv, TypeOK
    <3>2. Promise!Release(o)
      BY <2>2, <2>3, <2>5, <3>1, SeenRelease
    <3>. QED BY <3>2, SeenNext
  <2>. QED BY <2>4, <2>5
<1>5. CASE order[o].pay \in {"verified", "refunded"}
  <2>1. Phase(s) = Phase(order[o])
    BY <1>1, <1>2, <1>5 DEF RowOK, Phase, Rows
  <2>2. released' = released
    BY <1>5 DEF IInv, TypeOK
  <2>. QED BY <1>3, <2>1, <2>2, SamePhase
<1>. QED BY <1>4, <1>5

LEMMA PromiseReleaseClaim ==
  ASSUME IInv, NEW h \in Handlers, NEW o \in Orders, ReleaseClaim(h, o)
  PROVE  Promise!Next \/ UNCHANGED Promise!vars
<1>1. /\ order[o] \in Rows /\ order[o].claimed /\ ~ paid[o]
  BY AtHand DEF ReleaseClaim, HandOK
<1>2. CASE order[o].status = "payment_pending" /\ order[o].pay = "pending"
  <2>1. order' = [order EXCEPT ![o].claimed = FALSE] /\ UNCHANGED <<listing, paid, released>>
    BY <1>2 DEF ReleaseClaim
  <2>2. released' = [released EXCEPT ![o] = @ \/ (paid[o] /\ order[o].pay = "pending")]
    BY <1>1, <2>1 DEF IInv, TypeOK
  <2>. QED BY <1>1, <2>1, <2>2, PromiseUnclaim
<1>3. CASE ~ (order[o].status = "payment_pending" /\ order[o].pay = "pending")
  <2>1. order' = [order EXCEPT ![o].claimed = @] /\ UNCHANGED <<listing, paid, released>>
    BY <1>1, <1>3 DEF ReleaseClaim
  <2>2. order' = order
    BY <1>1, <2>1 DEF IInv, TypeOK, Rows
  <2>. QED BY <2>1, <2>2, SeenSame
<1>. QED BY <1>2, <1>3

(* The late save of the row sells the order, which is claimed and paid. *)
LEMMA PromiseSave ==
  ASSUME IInv, NEW h \in Handlers, NEW o \in Orders, Save(h, o)
  PROVE  Promise!Next
<1>1. /\ order[o] \in Rows /\ order[o].reserved /\ order[o].claimed /\ order[o].pay = "pending"
      /\ hand[h].seen = "payment_pending" /\ paid[o] /\ order[o].status # "none"
  BY AtHand DEF Save, HandOK
<1>2. PICK s \in Rows : s = [Moved(order[o], "payment_pending") EXCEPT !.pay = "verified"]
  BY <1>1, SavedRow
<1>3. s.status = "payment_pending" /\ s.pay = "verified" /\ s.currency = order[o].currency
  BY <1>1, <1>2, SavedRow
<1>4. Phase(order[o]) = "claimed" /\ Phase(s) = "sold"
  BY <1>1, <1>3 DEF Phase
<1>5. /\ order' = [order EXCEPT ![o] = s] /\ paid' = paid
      /\ released' = [released EXCEPT ![o] = FALSE]
  BY <1>1, <1>2 DEF Save
<1>6. listing'.avail = listing.avail
  BY <1>1 DEF Save, GivenBack, Restocked, IInv, TypeOK
<1>7. PhaseOf(order)' = [PhaseOf(order) EXCEPT ![o] = "sold"] /\ UNCHANGED CurrencyOf(order)
  BY <1>3, <1>4, <1>5, OtherPhase
<1>8. PhaseOf(order)[o] = "claimed"
  BY <1>4 DEF PhaseOf
<1>9. Promise!Sell(o)
  BY <1>1, <1>5, <1>6, <1>7, <1>8, SeenSell
<1>. QED BY <1>9, SeenNext

LEMMA PromiseAct ==
  ASSUME IInv, NEW h \in Handlers, NEW o \in Orders, Act(h, o)
  PROVE  Promise!Next \/ UNCHANGED Promise!vars
<1>1. order[o] \in Rows /\ RowOK(order[o], paid[o], released[o])
  BY DEF IInv, TypeOK
<1>2. CASE UNCHANGED <<listing, order, paid, released>>
  BY <1>2, SeenSame
<1>3. CASE /\ \/ Cancel(h, o) \/ Dispute(h, o) \/ CancelUnpaid(h, o)
           /\ ~ UNCHANGED <<listing, order, paid, released>>
  <2>1. \E to \in {"cancelled", "disputed"} : Movable(order[o], to) /\ Move(o, to)
    BY <1>3 DEF Cancel, Transition, Dispute, CancelUnpaid, Commerce, Movable,
                Accepts, MayFollow
  <2>2. {"cancelled", "disputed"} \subseteq Statuses /\ UNCHANGED <<paid, released>>
    BY <1>3 DEF Statuses, Cancel, Transition, Dispute, CancelUnpaid, Commerce
  <2>. QED BY <2>1, <2>2, PromiseMove
<1>4. CASE SellerFulfill(h, o)
  <2>1. PICK m \in Rows : m = Moved(order[o], "fulfilling")
    BY <1>1, MovedRow DEF Statuses
  <2>2. m.pay = order[o].pay /\ m.status = "fulfilling" /\ m.currency = order[o].currency
    BY <1>1, <2>1, MovedRow DEF Statuses
  <2>3. PICK n \in Rows : n = [m EXCEPT !.delivered = FALSE]
    BY DEF Rows
  <2>4. Phase(n) = "sold" /\ Phase(order[o]) = "sold" /\ n.currency = order[o].currency
    BY <1>4, <2>2, <2>3 DEF SellerFulfill, Phase, Rows
  <2>5. /\ order' = [order EXCEPT ![o] = n]
        /\ listing'.avail = listing.avail /\ UNCHANGED <<paid, released>>
    BY <1>4, <2>1, <2>3 DEF SellerFulfill
  <2>. QED BY <2>4, <2>5, SamePhase
<1>5. CASE SellerMarkDelivered(h, o)
  <2>1. PICK n \in Rows : n = [order[o] EXCEPT !.delivered = TRUE]
    BY <1>1 DEF Rows
  <2>2. Phase(n) = Phase(order[o]) /\ n.currency = order[o].currency
    BY <1>1, <2>1 DEF Phase, Rows
  <2>3. /\ order' = [order EXCEPT ![o] = n]
        /\ listing'.avail = listing.avail /\ UNCHANGED <<paid, released>>
    BY <1>5, <2>1 DEF SellerMarkDelivered
  <2>. QED BY <2>2, <2>3, SamePhase
<1>6. CASE BuyerConfirm(h, o)
  <2>1. PICK n \in Rows :
          /\ n = [Moved(order[o], "completed") EXCEPT !.delivered = FALSE]
          /\ n.status = "completed" /\ n.pay = order[o].pay /\ n.currency = order[o].currency
    BY <1>1, CompletedRow
  <2>2. Phase(n) = "sold" /\ Phase(order[o]) = "sold"
    BY <1>6, <2>1 DEF BuyerConfirm, Phase
  <2>3. /\ order' = [order EXCEPT ![o] = n]
        /\ listing'.avail = listing.avail /\ UNCHANGED <<paid, released>>
    BY <1>6, <2>1 DEF BuyerConfirm
  <2>. QED BY <2>1, <2>2, <2>3, SamePhase
<1>. QED BY <1>2, <1>3, <1>4, <1>5, <1>6 DEF Act, Declined

LEMMA PromiseStep ==
  ASSUME IInv, NEW h \in Handlers, NEW o \in Orders, Step(h, o)
  PROVE  Promise!Next \/ UNCHANGED Promise!vars
<1>1. CASE UNCHANGED <<listing, order, paid, released>>
  BY <1>1, SeenSame
<1>2. CASE (Verify(h, o) \/ Confirm(h, o)) /\ ~ UNCHANGED <<listing, order, paid, released>>
  <2>1. \E to \in {"payment_verified", "confirmed"} : Movable(order[o], to) /\ Move(o, to)
    BY <1>2 DEF Verify, Confirm, Transition, Movable, Accepts
  <2>2. {"payment_verified", "confirmed"} \subseteq Statuses /\ UNCHANGED <<paid, released>>
    BY <1>2 DEF Statuses, Verify, Confirm, Transition
  <2>. QED BY <2>1, <2>2, PromiseMove
<1>3. CASE Spend(h, o)
  <2>1. Phase(order[o]) = "claimed"
    BY <1>3, AtHand DEF Spend, HandOK, Phase
  <2>. QED BY <1>3, <2>1, PromisePay DEF Spend
<1>. QED
  BY <1>1, <1>2, <1>3, PromiseClaim, PromiseReleaseClaim, PromiseSave, PromiseAct
     DEF Step, Load, SpendRefused

LEMMA PromiseOperator ==
  ASSUME IInv, NEW o \in Orders, Decide(o) \/ Refund(o) \/ ForceRelease(o) \/ Expire(o)
  PROVE  Promise!Next \/ UNCHANGED Promise!vars
<1>1. order[o] \in Rows /\ RowOK(order[o], paid[o], released[o])
  BY DEF IInv, TypeOK
<1>2. CASE Decide(o)
  <2>1. Movable(order[o], "disputed") /\ Move(o, "disputed") /\ UNCHANGED <<paid, released>>
    BY <1>2 DEF Decide, Movable
  <2>. QED BY <2>1, PromiseMove DEF Statuses
<1>3. CASE Refund(o)
  <2>1. PICK m \in Rows : m = Moved(order[o], "refunded")
    BY <1>1, MovedRow DEF Statuses
  <2>2. m.status = "refunded" /\ m.currency = order[o].currency
    BY <1>1, <2>1, MovedRow DEF Statuses
  <2>3. PICK n \in Rows : n = [m EXCEPT !.pay = "refunded"]
    BY DEF Rows
  <2>4. n.status = "refunded" /\ n.pay = "refunded" /\ n.currency = order[o].currency
    BY <2>2, <2>3 DEF Rows
  <2>5. Phase(n) = "sold" /\ Phase(order[o]) = "sold"
    BY <1>1, <1>3, <2>4 DEF Refund, RowOK, Phase
  <2>6. /\ order' = [order EXCEPT ![o] = n]
        /\ listing'.avail = listing.avail /\ UNCHANGED <<paid, released>>
    BY <1>3, <2>1, <2>3 DEF Refund
  <2>. QED BY <2>4, <2>5, <2>6, SamePhase
<1>4. CASE ForceRelease(o)
  BY <1>4, PromiseUnclaim DEF ForceRelease
<1>5. CASE Expire(o)
  <2>1. PICK n \in Rows : n = [order[o] EXCEPT !.live = FALSE]
    BY <1>1 DEF Rows
  <2>2. Phase(n) = Phase(order[o]) /\ n.currency = order[o].currency
    BY <1>1, <2>1 DEF Phase, Rows
  <2>3. /\ order' = [order EXCEPT ![o] = n]
        /\ listing'.avail = listing.avail /\ UNCHANGED <<paid, released>>
    BY <1>5, <2>1 DEF Expire
  <2>. QED BY <2>2, <2>3, SamePhase
<1>. QED BY <1>2, <1>3, <1>4, <1>5

LEMMA PromiseNext == IInv /\ [Next]_vars => [Promise!Next]_(Promise!vars)
<1> SUFFICES ASSUME IInv, [Next]_vars PROVE Promise!Next \/ UNCHANGED Promise!vars
  OBVIOUS
<1>1. CASE UNCHANGED <<listing, order, paid, released>>
  BY <1>1, SeenSame
<1>2. CASE Sweep
  BY <1>2, PromiseSweep DEF Sweep
<1>3. ASSUME NEW h \in Handlers, NEW o \in Orders, NEW route, Start(h, o, route)
      PROVE  Promise!Next
  BY <1>3, PromiseSweep DEF Start
<1>4. CASE SellerEdit
  <2>1. listing'.avail \in Nat
    BY <1>4, ListingAssumption DEF SellerEdit
  <2>2. Promise!Restock
    BY <1>4, <2>1 DEF SellerEdit, Promise!Restock
  <2>. QED BY <2>2, SeenNext
<1>5. ASSUME NEW o \in Orders, PiPaid(o)
      PROVE  Promise!Next \/ UNCHANGED Promise!vars
  BY <1>5, PromisePay DEF PiPaid
<1>. QED
  BY <1>1, <1>2, <1>3, <1>4, <1>5, PromiseCreate, PromiseStep, PromiseOperator
     DEF Next, Undisturbed, Crash, VerifyFails, vars

LEMMA PromiseInit == Init => Promise!Init
<1> SUFFICES ASSUME Init PROVE Promise!Init
  OBVIOUS
<1>1. listing.avail \in Nat
  BY ListingAssumption DEF Init
<1>2. PhaseOf(order) = [o \in Orders |-> "none"] /\ CurrencyOf(order) = [o \in Orders |-> "none"]
  BY DEF Init, PhaseOf, CurrencyOf, NoOrder, Phase
<1>. QED BY <1>1, <1>2 DEF Promise!Init, PhaseOf, CurrencyOf, Init

(* Orders keep what OrderPromise says about stock and money. *)
THEOREM OrdersKeepPromise == Spec => PromiseKept
<1>. QED
  BY OrderInvariant, PromiseInit, PromiseNext, PTL DEF Spec, PromiseKept, Promise!Spec
================================================================================
