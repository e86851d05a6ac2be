-------------------------- MODULE SellerPayout_proofs --------------------------
(***************************************************************************)
(* For any number of orders, requests, handlers and payments: the seller   *)
(* gets the proceeds of an order once, and the books agree.                *)
(*                                                                         *)
(* What a handler knows when it stands somewhere in the route stays true   *)
(* under everything others do (RightHand), because the payments and the    *)
(* execution rows it has read only ever grow: a payment that was sent      *)
(* stays sent, and the payment an execution names is never replaced.  So   *)
(* a payment is sent only when the execution of its request names it, and  *)
(* a request has one; an order has one request through its allocation.     *)
(* Only that a payment is sent once depends on the lease (SentOnce).       *)
(***************************************************************************)
EXTENDS SellerPayout, TLAPS

OrderRows == [status : {"fulfilling", "completed", "disputed", "refunded"}, reduced : 0 .. Net]
ReqRows   == [status : Open \cup {"none", "paid", "ended"},
              lines  : [Orders -> 0 .. Net],
              recon  : Payments \cup {None}]
ExecRows  == [state : Updates \cup {"none", "initiating"}, pay : Payments \cup {None}]
Leases    == [holder : Handlers \cup {None}, req : Requests \cup {None}]
Places    == Updates \cup {"idle", "find", "create", "read", "submit",
                           "complete", "confirm", "pay", "release"}
Hands     == [pc : Places, req : Requests \cup {None}, pay : Payments \cup {None}]
PiRecords == [for : Requests \cup {None}, state : {"unused", "open", "cancelled"},
              sent : Nat, verified : BOOLEAN, completed : BOOLEAN]

(* What Pi knows of a payment is consistent. *)
RightPayment(p) ==
  /\ pi[p].state = "unused" => pi[p] = Unused
  /\ pi[p].state # "unused" => pi[p].for \in Requests
  /\ pi[p].sent > 0 => pi[p].state = "open"
  /\ pi[p].verified \/ pi[p].completed => pi[p].sent > 0

(* An execution names a payment that was made for its request. *)
RightRecord(r) ==
  /\ exec[r].pay # None => pi[exec[r].pay].for = r
  /\ exec[r].state \in Updates => exec[r].pay # None

(* What a handler knows at its place in the route. *)
Paying   == {"created", "read", "submit", "submitted", "complete", "completed", "attention",
             "confirm", "pay"}
Recorded == {"read", "submit", "submitted", "complete", "completed", "attention"}
Sent     == {"submitted", "complete", "completed", "confirm", "pay"}
Final    == {"completed", "confirm", "pay"}

RightHand(h) ==
  /\ h.pc # "idle" => h.req \in Requests
  /\ h.pc \in Paying => h.pay \in Payments /\ pi[h.pay].for = h.req
  /\ h.pc \in Recorded => exec[h.req].pay = h.pay
  /\ h.pc \in Sent => pi[h.pay].sent > 0
  /\ h.pc \in Final => pi[h.pay].verified /\ pi[h.pay].completed

(* The evidence of a request is a transfer made for it. *)
RightEvidence(r) ==
  /\ req[r].recon # None =>
       LET p == pi[req[r].recon]
       IN  p.for = r /\ p.sent > 0 /\ p.verified /\ p.completed
  /\ req[r].status = "paid" => req[r].recon # None

NoLines == \A r \in Requests, o \in Orders : req[r].status = "none" => req[r].lines[o] = 0

(* As long as nobody submitted without the lease. *)
SentOnce ==
  ~ late =>
    /\ \A p \in Payments : pi[p].sent =< 1
    /\ \A x \in Handlers :
         hand[x].pc = "submit" /\ lane = [holder |-> x, req |-> hand[x].req]
           => pi[hand[x].pay].sent = 0

IInv ==
  /\ TypeOK
  /\ \A p \in Payments : RightPayment(p)
  /\ \A r \in Requests : RightRecord(r) /\ RightEvidence(r)
  /\ \A x \in Handlers : RightHand(hand[x])
  /\ TransfersAreOnRecord
  /\ LinesAreReserved /\ NoLines
  /\ SentOnce

--------------------------------------------------------------------------------
LEMMA Types ==
  TypeOK <=> /\ order \in [Orders -> OrderRows]
             /\ alloc \in [Orders -> Requests \cup {None}]
             /\ req \in [Requests -> ReqRows]
             /\ exec \in [Requests -> ExecRows]
             /\ lane \in Leases
             /\ hand \in [Handlers -> Hands]
             /\ pi \in [Payments -> PiRecords]
             /\ late \in BOOLEAN
  BY DEF TypeOK, OrderRows, ReqRows, ExecRows, Leases, Hands, Places, PiRecords

LEMMA TypesAfter ==
  TypeOK' <=> /\ order' \in [Orders -> OrderRows]
              /\ alloc' \in [Orders -> Requests \cup {None}]
              /\ req' \in [Requests -> ReqRows]
              /\ exec' \in [Requests -> ExecRows]
              /\ lane' \in Leases
              /\ hand' \in [Handlers -> Hands]
              /\ pi' \in [Payments -> PiRecords]
              /\ late' \in BOOLEAN
  BY DEF TypeOK, OrderRows, ReqRows, ExecRows, Leases, Hands, Places, PiRecords

LEMMA InitIInv == Init => IInv
<1> SUFFICES ASSUME Init PROVE IInv
  OBVIOUS
<1> USE NetAssumption, NoneAssumption
<1>1. TypeOK
  <2>1. /\ order \in [Orders -> OrderRows] /\ alloc \in [Orders -> Requests \cup {None}]
        /\ req \in [Requests -> ReqRows] /\ exec \in [Requests -> ExecRows]
    BY DEF Init, OrderRows, ReqRows, ExecRows
  <2>2. /\ lane \in Leases /\ hand \in [Handlers -> Hands] /\ pi \in [Payments -> PiRecords]
        /\ late \in BOOLEAN
    BY DEF Init, NoLease, Leases, Idle, Hands, Places, Unused, PiRecords
  <2> QED  BY <2>1, <2>2, Types
<1>2. \A p \in Payments : RightPayment(p)
  BY DEF Init, RightPayment, Unused
<1>3. \A r \in Requests : RightRecord(r) /\ RightEvidence(r)
  BY DEF Init, RightRecord, RightEvidence, Updates
<1>4. \A x \in Handlers : RightHand(hand[x]) /\ hand[x].pc # "submit"
  BY DEF Init, RightHand, Idle, Paying, Recorded, Sent, Final
<1>5. TransfersAreOnRecord /\ LinesAreReserved /\ NoLines
  BY DEF Init, TransfersAreOnRecord, LinesAreReserved, NoLines, Unused
<1>6. SentOnce
  BY <1>4 DEF Init, SentOnce, Unused
<1> QED  BY <1>1, <1>2, <1>3, <1>4, <1>5, <1>6 DEF IInv

--------------------------------------------------------------------------------
(***************************************************************************)
(* The steps of the machinery that carries requests out: payments and      *)
(* executions grow, and the handlers that move know what they should.      *)
(***************************************************************************)
PaymentGrows(p) ==
  /\ pi[p].state # "unused" => pi'[p].for = pi[p].for
  /\ pi'[p].sent >= pi[p].sent
  /\ pi[p].verified => pi'[p].verified
  /\ pi[p].completed => pi'[p].completed

LEMMA MachineryKeeps ==
  ASSUME IInv, UNCHANGED <<order, alloc, req>>,
         exec' \in [Requests -> ExecRows], lane' \in Leases, late' \in BOOLEAN,
         hand' \in [Handlers -> Hands], pi' \in [Payments -> PiRecords],
         \A p \in Payments : RightPayment(p)' /\ PaymentGrows(p),
         \A r \in Requests : /\ RightRecord(r)'
                             /\ exec[r].pay # None => exec'[r].pay = exec[r].pay,
         \A p \in Payments : pi'[p].sent > 0 /\ pi[p].sent = 0 => exec'[pi'[p].for].pay = p,
         \A x \in Handlers : hand'[x] = hand[x] \/ RightHand(hand[x])',
         SentOnce'
  PROVE  IInv'
<1> USE NoneAssumption
<1>1. TypeOK'
  BY TypesAfter, Types DEF IInv
<1>2. \A p \in Payments : pi[p] \in PiRecords /\ pi'[p] \in PiRecords
  BY Types DEF IInv
<1>3. \A p \in Payments : pi[p].for \in Requests => pi'[p].for = pi[p].for
  <2> SUFFICES ASSUME NEW p \in Payments, pi[p].for \in Requests PROVE pi'[p].for = pi[p].for
    OBVIOUS
  <2>1. pi[p].state # "unused"
    BY DEF IInv, RightPayment, Unused
  <2> QED  BY <2>1 DEF PaymentGrows
<1>4. \A p \in Payments : pi[p].sent > 0 => pi'[p].sent > 0
  BY <1>2 DEF PaymentGrows, PiRecords
<1>5. \A x \in Handlers : RightHand(hand[x])'
  <2> SUFFICES ASSUME NEW x \in Handlers, hand'[x] = hand[x] PROVE RightHand(hand[x])'
    OBVIOUS
  <2> DEFINE h == hand[x]
  <2>1. RightHand(h) /\ h.pc \in Places
    BY Types DEF IInv, Hands
  <2>2. h.pc # "idle" => h.req \in Requests
    BY <2>1 DEF RightHand
  <2>3. h.pc \in Paying => h.pc # "idle" /\ h.pay \in Payments /\ pi'[h.pay].for = h.req
    BY <1>3, <2>1, <2>2 DEF RightHand, Paying
  <2>4. h.pc \in Recorded => exec'[h.req].pay = h.pay
    BY <2>1, <2>2, <2>3 DEF RightHand, Recorded, Paying
  <2>5. h.pc \in Sent => pi'[h.pay].sent > 0
    BY <1>4, <2>1, <2>3 DEF RightHand, Sent, Paying
  <2>6. h.pc \in Final => pi'[h.pay].verified /\ pi'[h.pay].completed
    BY <2>1, <2>3 DEF RightHand, Final, Paying, PaymentGrows
  <2> QED  BY <2>2, <2>3, <2>4, <2>5, <2>6 DEF RightHand
<1>6. \A r \in Requests : RightEvidence(r)'
  <2> SUFFICES ASSUME NEW r \in Requests PROVE RightEvidence(r)'
    OBVIOUS
  <2>1. req[r].recon \in Payments \cup {None} /\ RightEvidence(r)
    BY Types DEF IInv, ReqRows
  <2>2. CASE req[r].recon = None
    BY <2>1, <2>2 DEF RightEvidence
  <2>3. CASE req[r].recon \in Payments
    BY <1>3, <1>4, <2>1, <2>3 DEF RightEvidence, PaymentGrows
  <2> QED  BY <2>1, <2>2, <2>3
<1>7. TransfersAreOnRecord'
  <2> SUFFICES ASSUME NEW p \in Payments, pi'[p].sent > 0 PROVE exec'[pi'[p].for].pay = p
    BY DEF TransfersAreOnRecord
  <2>1. CASE pi[p].sent > 0
    <3>1. exec[pi[p].for].pay = p /\ pi[p].for \in Requests
      BY <2>1 DEF IInv, TransfersAreOnRecord, RightPayment
    <3> QED  BY <1>3, <3>1
  <2>2. CASE pi[p].sent = 0
    BY <2>2
  <2> QED  BY <1>2, <2>1, <2>2 DEF PiRecords
<1>8. LinesAreReserved' /\ NoLines'
  BY DEF IInv, LinesAreReserved, NoLines
<1> QED  BY <1>1, <1>5, <1>6, <1>7, <1>8 DEF IInv

(* One handler moves, to h; it may take the lease, or the lease may end. *)
LEMMA HandMoves ==
  ASSUME IInv, NEW x \in Handlers, NEW h \in Hands, RightHand(h),
         hand' = [hand EXCEPT ![x] = h],
         \/ lane' \in {lane, NoLease} /\ (h.pc = "submit" => pi[h.pay].sent = 0)
         \/ lane' \in Leases /\ lane'.holder = x /\ h.pc # "submit",
         UNCHANGED <<order, alloc, req, exec, pi, late>>
  PROVE  IInv'
<1> USE NoneAssumption
<1>1. \A y \in Handlers : hand'[y] = IF y = x THEN h ELSE hand[y]
  BY Types DEF IInv
<1>2. /\ hand' \in [Handlers -> Hands] /\ lane' \in Leases
      /\ exec' \in [Requests -> ExecRows] /\ pi' \in [Payments -> PiRecords]
      /\ late' \in BOOLEAN
  BY Types DEF IInv, NoLease, Leases
<1>3. \A y \in Handlers : hand'[y] = hand[y] \/ RightHand(hand[y])'
  BY <1>1 DEF RightHand
<1>4. \A p \in Payments : RightPayment(p)' /\ PaymentGrows(p)
  BY <1>2 DEF IInv, RightPayment, PaymentGrows, PiRecords
<1>5. \A r \in Requests : RightRecord(r)'
  BY DEF IInv, RightRecord
<1>6. SentOnce'
  <2>1. NoLease.holder = None
    BY DEF NoLease
  <2> SUFFICES ASSUME ~ late, NEW y \in Handlers, hand'[y].pc = "submit",
                      lane' = [holder |-> y, req |-> hand'[y].req]
               PROVE  pi[hand'[y].pay].sent = 0
    BY DEF SentOnce, IInv
  <2>2. lane'.holder = y /\ lane' # NoLease
    BY <2>1
  <2>3. CASE y = x
    BY <1>1, <2>2, <2>3
  <2>4. CASE y # x
    BY <1>1, <2>2, <2>4 DEF SentOnce, IInv
  <2> QED  BY <2>3, <2>4
<1> QED  BY <1>2, <1>3, <1>4, <1>5, <1>6, MachineryKeeps

Placed(x, pc) ==
  [pc |-> pc, req |-> hand[x].req, pay |-> IF pc = "release" THEN None ELSE hand[x].pay]

LEMMA GotoIs ==
  ASSUME IInv, NEW x \in Handlers, NEW pc \in Places, Goto(x, pc)
  PROVE  /\ hand' = [hand EXCEPT ![x] = Placed(x, pc)]
         /\ Placed(x, pc) \in Hands
<1>1. hand \in [Handlers -> Hands]
  BY Types DEF IInv
<1>2. Placed(x, pc) \in Hands
  BY <1>1 DEF Placed, Hands
<1>3. \A y \in Handlers : hand'[y] = IF y = x THEN Placed(x, pc) ELSE hand[y]
  <2>1. \A y \in Handlers : y # x => hand'[y] = hand[y]
    BY <1>1 DEF Goto
  <2>2. hand'[x] = Placed(x, pc)
    <3>1. CASE pc = "release"
      BY <1>1, <3>1 DEF Goto, Placed, Hands
    <3>2. CASE pc # "release"
      BY <1>1, <3>2 DEF Goto, Placed, Hands
    <3> QED  BY <3>1, <3>2
  <2> QED  BY <2>1, <2>2
<1>4. hand' \in [Handlers -> Hands]
  BY <1>1, <1>2, <1>3 DEF Goto
<1> QED  BY <1>1, <1>2, <1>3, <1>4

LEMMA ToReleaseKeeps ==
  ASSUME IInv, NEW x \in Handlers, hand[x].pc # "idle", Goto(x, "release"),
         UNCHANGED <<order, alloc, req, exec, lane, pi, late>>
  PROVE  IInv'
<1>1. /\ hand' = [hand EXCEPT ![x] = Placed(x, "release")] /\ Placed(x, "release") \in Hands
  BY GotoIs DEF Places
<1>2. RightHand(Placed(x, "release")) /\ Placed(x, "release").pc = "release"
  BY DEF IInv, RightHand, Placed, Paying, Recorded, Sent, Final
<1> QED  BY <1>1, <1>2, HandMoves

LEMMA ReturnsKeep ==
  ASSUME IInv, NEW x \in Handlers,
         \/ PiRefuses(x) \/ ConfirmRefused(x) \/ Fail(x)
         \/ \E to \in Updates : UpdateRefused(x, to)
  PROVE  IInv'
<1>1. hand[x].pc # "idle" /\ Goto(x, "release")
  BY DEF PiRefuses, ConfirmRefused, Fail, UpdateRefused, At, Updates
<1>2. UNCHANGED <<order, alloc, req, exec, lane, pi, late>>
  BY DEF PiRefuses, ConfirmRefused, Fail, UpdateRefused, At
<1> QED  BY <1>1, <1>2, ToReleaseKeeps

LEMMA ToIdleKeeps ==
  ASSUME IInv, NEW x \in Handlers, Release(x) \/ Crash(x) PROVE IInv'
<1>1. /\ hand' = [hand EXCEPT ![x] = Idle] /\ lane' \in {lane, NoLease}
      /\ UNCHANGED <<order, alloc, req, exec, pi, late>>
  BY DEF Release, Crash, At
<1>2. Idle \in Hands /\ RightHand(Idle) /\ Idle.pc # "submit"
  BY DEF Idle, Hands, Places, RightHand, Paying, Recorded, Sent, Final
<1> QED  BY <1>1, <1>2, HandMoves

LEMMA FindKeeps ==
  ASSUME IInv, NEW x \in Handlers, Find(x) PROVE IInv'
<1>1. /\ hand[x].pc = "find" /\ UNCHANGED <<order, alloc, req, exec, lane, pi, late>>
      /\ hand \in [Handlers -> Hands] /\ hand[x].req \in Requests
  BY Types DEF Find, At, IInv, RightHand
<1>2. CASE \E p \in Payments : /\ pi[p].for = hand[x].req
                               /\ hand' = [hand EXCEPT ![x].pay = p, ![x].pc = "created"]
  <2>1. PICK p \in Payments : /\ pi[p].for = hand[x].req
                             /\ hand' = [hand EXCEPT ![x].pay = p, ![x].pc = "created"]
    BY <1>2
  <2> DEFINE h == [pc |-> "created", req |-> hand[x].req, pay |-> p]
  <2>2. h \in Hands /\ RightHand(h) /\ hand' = [hand EXCEPT ![x] = h]
    BY <1>1, <2>1 DEF Hands, Places, Updates, RightHand, Paying, Recorded, Sent, Final
  <2>3. h.pc # "submit"
    OBVIOUS
  <2> HIDE DEF h
  <2> QED  BY <1>1, <2>2, <2>3, HandMoves
<1>3. CASE Goto(x, "release")
  BY <1>1, <1>3, ToReleaseKeeps
<1>4. CASE Goto(x, "create")
  <2>1. /\ hand' = [hand EXCEPT ![x] = Placed(x, "create")] /\ Placed(x, "create") \in Hands
    BY <1>4, GotoIs DEF Places
  <2>2. RightHand(Placed(x, "create")) /\ Placed(x, "create").pc = "create"
    BY <1>1 DEF RightHand, Placed, Paying, Recorded, Sent, Final
  <2> QED  BY <1>1, <2>1, <2>2, HandMoves
<1> QED  BY <1>2, <1>3, <1>4 DEF Find, Incomplete

LEMMA ReadKeeps ==
  ASSUME IInv, NEW x \in Handlers, Read(x) PROVE IInv'
<1> DEFINE p == hand[x].pay
           to == AfterRead(pi[p])
<1>1. /\ hand[x].pc = "read" /\ UNCHANGED <<order, alloc, req, exec, lane, pi, late>>
      /\ Goto(x, to)
  BY DEF Read, At
<1>2. /\ hand[x].req \in Requests /\ p \in Payments /\ pi[p].for = hand[x].req
      /\ exec[hand[x].req].pay = p
  BY <1>1 DEF IInv, RightHand, Paying, Recorded
<1>3. pi[p] \in PiRecords /\ pi[p].state # "unused"
  BY <1>2, Types, NoneAssumption DEF IInv, RightPayment, Unused
<1>4. \/ to = "attention"
      \/ to = "submit" /\ pi[p].sent = 0
      \/ to = "submitted" /\ pi[p].sent > 0
  BY <1>3 DEF AfterRead, PiRecords
<1> HIDE DEF to
<1>5. /\ hand' = [hand EXCEPT ![x] = Placed(x, to)] /\ Placed(x, to) \in Hands
  BY <1>1, <1>4, GotoIs DEF Places, Updates
<1>6. Placed(x, to) = [pc |-> to, req |-> hand[x].req, pay |-> p]
  BY <1>4 DEF Placed
<1>7. RightHand(Placed(x, to))
  BY <1>2, <1>4, <1>6 DEF RightHand, Paying, Recorded, Sent, Final
<1> QED  BY <1>1, <1>4, <1>5, <1>6, <1>7, HandMoves

LEMMA ReconcileKeeps ==
  ASSUME IInv, NEW x \in Handlers, NEW r \in Requests, NEW p \in Payments, Reconcile(x, r, p)
  PROVE  IInv'
<1> DEFINE h == [pc |-> "confirm", req |-> r, pay |-> p]
<1>1. /\ hand' = [hand EXCEPT ![x] = h]
      /\ pi[p].for = r /\ pi[p].completed /\ pi[p].verified
      /\ UNCHANGED <<order, alloc, req, exec, lane, pi, late>>
  BY DEF Reconcile, At
<1>2. h \in Hands /\ RightHand(h) /\ h.pc # "submit"
  BY <1>1 DEF Hands, Places, IInv, RightPayment, RightHand, Paying, Recorded, Sent, Final
<1> HIDE DEF h
<1> QED  BY <1>1, <1>2, HandMoves

LEMMA LapseKeeps == IInv /\ Lapse => IInv'
<1> SUFFICES ASSUME IInv, Lapse PROVE IInv'
  OBVIOUS
<1>1. lane' = NoLease /\ UNCHANGED <<order, alloc, req, exec, hand, pi, late>>
  BY DEF Lapse, books
<1>2. /\ hand' \in [Handlers -> Hands] /\ lane' \in Leases
      /\ exec' \in [Requests -> ExecRows] /\ pi' \in [Payments -> PiRecords]
      /\ late' \in BOOLEAN
  BY <1>1, Types DEF IInv, NoLease, Leases
<1>3. \A p \in Payments : RightPayment(p)' /\ PaymentGrows(p)
  BY <1>1, <1>2 DEF IInv, RightPayment, PaymentGrows, PiRecords
<1>4. \A r \in Requests : RightRecord(r)'
  BY <1>1 DEF IInv, RightRecord
<1>5. SentOnce'
  BY <1>1, NoneAssumption DEF IInv, SentOnce, NoLease
<1> QED  BY <1>1, <1>2, <1>3, <1>4, <1>5, MachineryKeeps

--------------------------------------------------------------------------------
(* Nothing is sent, and no handler comes to the point of sending. *)
LEMMA SendsNothing ==
  ASSUME IInv, late' = late, \A p \in Payments : pi'[p].sent = pi[p].sent,
         NEW x \in Handlers,
         \A y \in Handlers \ {x} : hand'[y] = hand[y],
         hand'[x] = hand[x] \/ hand'[x].pc # "submit",
         \/ lane' \in {lane, NoLease}
         \/ lane'.holder = x /\ hand'[x].pc # "submit"
  PROVE  SentOnce'
<1> SUFFICES ASSUME ~ late, NEW y \in Handlers, hand'[y].pc = "submit",
                    lane' = [holder |-> y, req |-> hand'[y].req]
             PROVE  pi'[hand'[y].pay].sent = 0
  BY DEF SentOnce, IInv
<1>1. lane' # NoLease /\ lane'.holder = y
  BY NoneAssumption DEF NoLease
<1>2. hand'[y] = hand[y] /\ lane' = lane
  BY <1>1
<1>3. hand[y].pay \in Payments
  BY <1>2 DEF IInv, RightHand, Paying
<1> QED  BY <1>2, <1>3 DEF SentOnce, IInv

LEMMA BeginKeeps ==
  ASSUME IInv, NEW x \in Handlers, NEW r \in Requests, NEW answered \in BOOLEAN,
         Begin(x, r, answered)
  PROVE  IInv'
<1> USE NoneAssumption
<1> DEFINE h == [pc |-> IF exec[r].pay = None THEN "find" ELSE "read", req |-> r,
                 pay |-> exec[r].pay]
<1>1. /\ hand' = IF answered THEN [hand EXCEPT ![x] = h] ELSE hand
      /\ exec' = [exec EXCEPT ![r].state = IF @ = "none" THEN "initiating" ELSE @]
      /\ lane' = [holder |-> x, req |-> r] /\ lane'.holder = x /\ hand[x].pc = "idle"
      /\ UNCHANGED <<order, alloc, req, pi, late>>
  BY DEF Begin, At
<1>2. /\ hand \in [Handlers -> Hands] /\ exec \in [Requests -> ExecRows]
      /\ pi \in [Payments -> PiRecords] /\ late \in BOOLEAN
  BY Types DEF IInv
<1>3. \A q \in Requests : exec'[q].pay = exec[q].pay /\ exec'[q].state \in {exec[q].state, "initiating"}
  BY <1>1, <1>2 DEF ExecRows
<1>4. exec' \in [Requests -> ExecRows] /\ lane' \in Leases
  BY <1>1, <1>2 DEF ExecRows, Leases
<1>5. \A q \in Requests : RightRecord(q)'
  BY <1>1, <1>3 DEF IInv, RightRecord, Updates
<1>6. h \in Hands /\ h.pc # "submit"
  BY <1>2 DEF Hands, Places, Updates, ExecRows
<1>7. hand' \in [Handlers -> Hands] /\ \A y \in Handlers \ {x} : hand'[y] = hand[y]
  BY <1>1, <1>2, <1>6
<1>8. (hand'[x] = hand[x] /\ hand[x].pc # "submit") \/ hand'[x] = h
  BY <1>1, <1>2
<1>9. hand'[x] = hand[x] \/ RightHand(hand[x])'
  <2> SUFFICES ASSUME hand'[x] = h PROVE RightHand(hand[x])'
    BY <1>8
  <2>1. CASE exec[r].pay = None
    BY <2>1 DEF RightHand, Paying, Recorded, Sent, Final
  <2>2. CASE exec[r].pay # None
    BY <1>1, <1>2, <1>3, <2>2 DEF RightHand, Paying, Recorded, Sent, Final, IInv, RightRecord, ExecRows
  <2> QED  BY <2>1, <2>2
<1> HIDE DEF h
<1>10. \A p \in Payments : RightPayment(p)' /\ PaymentGrows(p)
  BY <1>1, <1>2 DEF IInv, RightPayment, PaymentGrows, PiRecords
<1>11. SentOnce'
  BY <1>1, <1>6, <1>7, <1>8, SendsNothing
<1>12. \A y \in Handlers : hand'[y] = hand[y] \/ RightHand(hand[y])'
  BY <1>7, <1>9
<1> QED  BY <1>1, <1>2, <1>3, <1>4, <1>5, <1>7, <1>10, <1>11, <1>12, MachineryKeeps

LEMMA CreateKeeps ==
  ASSUME IInv, NEW x \in Handlers, NEW answered \in BOOLEAN, Create(x, answered) PROVE IInv'
<1> USE NoneAssumption
<1>1. PICK p \in Payments :
        /\ pi[p] = Unused
        /\ pi' = [pi EXCEPT ![p] = [Unused EXCEPT !.for = hand[x].req, !.state = "open"]]
        /\ hand' = [hand EXCEPT ![x].pay = IF answered THEN p ELSE None,
                                ![x].pc  = IF answered THEN "created" ELSE "release"]
  BY DEF Create
<1>2. hand[x].pc = "create" /\ UNCHANGED <<order, alloc, req, exec, lane, late>>
  BY DEF Create, At
<1>3. /\ hand \in [Handlers -> Hands] /\ exec \in [Requests -> ExecRows]
      /\ pi \in [Payments -> PiRecords] /\ late \in BOOLEAN /\ lane \in Leases
  BY Types DEF IInv
<1>4. hand[x].req \in Requests
  BY <1>2 DEF IInv, RightHand
<1> DEFINE n == [for |-> hand[x].req, state |-> "open", sent |-> 0, verified |-> FALSE,
                 completed |-> FALSE]
           h == [pc  |-> IF answered THEN "created" ELSE "release", req |-> hand[x].req,
                 pay |-> IF answered THEN p ELSE None]
<1>5. /\ n \in PiRecords /\ n.for \in Requests /\ n.state = "open" /\ n.sent = 0
      /\ ~ n.verified /\ ~ n.completed
  BY <1>4 DEF PiRecords
<1>6. \A q \in Payments : pi'[q] = IF q = p THEN n ELSE pi[q]
  <2> DEFINE v == [Unused EXCEPT !.for = hand[x].req, !.state = "open"]
  <2>1. v \in PiRecords
    BY <1>4 DEF Unused, PiRecords
  <2>2. /\ v.for = hand[x].req /\ v.state = "open" /\ v.sent = 0
        /\ v.verified = FALSE /\ v.completed = FALSE
    BY DEF Unused
  <2> HIDE DEF v
  <2>3. v = n
    BY <2>1, <2>2 DEF PiRecords
  <2> QED  BY <1>1, <1>3, <2>3 DEF v
<1>7. pi' \in [Payments -> PiRecords]
  BY <1>1, <1>3, <1>5, <1>6
<1>8. h \in Hands /\ h.pc # "submit"
  BY <1>4 DEF Hands, Places, Updates
<1>9. hand'[x] = h
  <2> DEFINE pc == IF answered THEN "created" ELSE "release"
             v  == IF answered THEN p ELSE None
  <2>1. hand[x] \in Hands /\ pc \in Places /\ v \in Payments \cup {None}
    BY <1>3 DEF Places, Updates
  <2>2. h = [pc |-> pc, req |-> hand[x].req, pay |-> v]
    OBVIOUS
  <2>3. hand' = [hand EXCEPT ![x].pay = v, ![x].pc = pc]
    BY <1>1
  <2> HIDE DEF n, h, pc, v
  <2>4. hand'[x] = [hand[x] EXCEPT !.pay = v, !.pc = pc]
    BY <1>3, <2>3
  <2>5. hand'[x] \in Hands
    BY <2>1, <2>4 DEF Hands
  <2>6. hand'[x].pc = pc /\ hand'[x].req = hand[x].req /\ hand'[x].pay = v
    BY <2>1, <2>4 DEF Hands
  <2> QED  BY <2>2, <2>5, <2>6 DEF Hands
<1>10. RightHand(hand[x])'
  BY <1>4, <1>6, <1>9 DEF RightHand, Paying, Recorded, Sent, Final
<1>11. /\ pi[p].state = "unused" /\ pi[p].sent = 0 /\ pi[p].for = None
       /\ ~ pi[p].verified /\ ~ pi[p].completed
  BY <1>1 DEF Unused
<1> HIDE DEF n, h
<1>12. hand' \in [Handlers -> Hands] /\ \A y \in Handlers \ {x} : hand'[y] = hand[y]
  BY <1>1, <1>3, <1>8, <1>9
<1>13. \A q \in Payments : RightPayment(q)' /\ PaymentGrows(q) /\ pi'[q].sent = pi[q].sent
  <2> SUFFICES ASSUME NEW q \in Payments
               PROVE  RightPayment(q)' /\ PaymentGrows(q) /\ pi'[q].sent = pi[q].sent
    OBVIOUS
  <2>1. CASE q = p
    BY <1>5, <1>6, <1>11, <2>1 DEF RightPayment, PaymentGrows
  <2>2. CASE q # p
    BY <1>3, <1>6, <2>2 DEF IInv, RightPayment, PaymentGrows, PiRecords
  <2> QED  BY <2>1, <2>2
<1>14. \A q \in Requests : RightRecord(q)'
  BY <1>2, <1>3, <1>6, <1>11 DEF IInv, RightRecord, ExecRows
<1>15. \A y \in Handlers : hand'[y] = hand[y] \/ RightHand(hand[y])'
  BY <1>10, <1>12
<1>16. SentOnce'
  BY <1>2, <1>8, <1>9, <1>12, <1>13, SendsNothing
<1> QED  BY <1>2, <1>3, <1>7, <1>12, <1>13, <1>14, <1>15, <1>16, MachineryKeeps

(* Where an answer takes the handler. *)
LEMMA AnswerIs ==
  ASSUME IInv, NEW x \in Handlers, NEW pc \in Places, NEW answered \in BOOLEAN,
         Answer(x, answered, pc)
  PROVE  /\ hand' \in [Handlers -> Hands]
         /\ \A y \in Handlers \ {x} : hand'[y] = hand[y]
         /\ hand'[x] = Placed(x, pc) \/ hand'[x] = Placed(x, "release")
<1>1. hand \in [Handlers -> Hands]
  BY Types DEF IInv
<1>2. CASE answered
  BY <1>1, <1>2, GotoIs DEF Answer
<1>3. CASE ~ answered
  BY <1>1, <1>3, GotoIs DEF Answer, Places
<1> QED  BY <1>2, <1>3

LEMMA UpdateKeeps ==
  ASSUME IInv, NEW x \in Handlers, NEW to \in Updates, NEW answered \in BOOLEAN,
         Update(x, to, answered)
  PROVE  IInv'
<1> USE NoneAssumption
<1> DEFINE r == hand[x].req
           p == hand[x].pay
<1>1. /\ hand[x].pc = to /\ exec[r].pay \in {None, p}
      /\ exec' = [exec EXCEPT ![r] = [state |-> to, pay |-> p]]
      /\ Answer(x, answered, NextPc(to))
      /\ UNCHANGED <<order, alloc, req, lane, pi, late>>
  BY DEF Update, At, CanUpdate
<1>2. /\ hand \in [Handlers -> Hands] /\ exec \in [Requests -> ExecRows]
      /\ pi \in [Payments -> PiRecords] /\ late \in BOOLEAN /\ lane \in Leases
  BY Types DEF IInv
<1>3. RightHand(hand[x])
  BY DEF IInv
<1>4. r \in Requests /\ p \in Payments /\ pi[p].for = r
  BY <1>1, <1>3 DEF RightHand, Updates, Paying
<1>5. \A q \in Requests : exec'[q] = IF q = r THEN [state |-> to, pay |-> p] ELSE exec[q]
  BY <1>1, <1>2
<1>6. exec' \in [Requests -> ExecRows]
  BY <1>1, <1>2, <1>4 DEF ExecRows
<1>7. /\ NextPc(to) \in Places /\ NextPc(to) # "submit"
      /\ NextPc(to) \in {"read", "complete", "confirm", "release"}
      /\ NextPc(to) = "complete" => to = "submitted"
      /\ NextPc(to) = "confirm" => to = "completed"
  BY DEF NextPc, Updates, Places
<1>8. /\ hand' \in [Handlers -> Hands] /\ \A y \in Handlers \ {x} : hand'[y] = hand[y]
      /\ hand'[x] = Placed(x, NextPc(to)) \/ hand'[x] = Placed(x, "release")
  BY <1>1, <1>7, AnswerIs
<1>9. hand'[x].req = r /\ hand'[x].pc \in {NextPc(to), "release"}
      /\ (hand'[x].pc # "release" => hand'[x].pay = p)
  BY <1>8 DEF Placed
<1>10. RightHand(hand[x])'
  <2>1. exec'[r].pay = p
    BY <1>4, <1>5
  <2>2. hand[x].pc = "submitted" => pi[p].sent > 0
    BY <1>3 DEF RightHand, Sent
  <2>3. hand[x].pc = "completed" => pi[p].sent > 0 /\ pi[p].verified /\ pi[p].completed
    BY <1>3 DEF RightHand, Sent, Final
  <2> HIDE DEF r, p
  <2> QED  BY <1>1, <1>4, <1>7, <1>9, <2>1, <2>2, <2>3 DEF RightHand, Paying, Recorded, Sent, Final
<1>11. \A y \in Handlers : hand'[y] = hand[y] \/ RightHand(hand[y])'
  BY <1>8, <1>10
<1>12. \A q \in Requests : /\ RightRecord(q)'
                           /\ exec[q].pay # None => exec'[q].pay = exec[q].pay
  BY <1>1, <1>4, <1>5 DEF IInv, RightRecord
<1>13. \A q \in Payments : RightPayment(q)' /\ PaymentGrows(q)
  BY <1>1, <1>2 DEF IInv, RightPayment, PaymentGrows, PiRecords
<1>14. SentOnce'
  <2>1. hand'[x].pc # "submit"
    BY <1>7, <1>9
  <2>2. /\ late' = late /\ lane' \in {lane, NoLease}
        /\ \A q \in Payments : pi'[q].sent = pi[q].sent
    BY <1>1
  <2> QED  BY <1>8, <2>1, <2>2, SendsNothing
<1> QED  BY <1>1, <1>2, <1>6, <1>8, <1>11, <1>12, <1>13, <1>14, MachineryKeeps

LEMMA SubmitKeeps ==
  ASSUME IInv, NEW x \in Handlers, NEW answered \in BOOLEAN, Submit(x, answered) PROVE IInv'
<1> USE NoneAssumption
<1> DEFINE r == hand[x].req
           p == hand[x].pay
<1>1. /\ hand[x].pc = "submit" /\ pi[p].state = "open"
      /\ pi' = [pi EXCEPT ![p].sent = @ + 1]
      /\ late' = (late \/ lane # [holder |-> x, req |-> r])
      /\ Answer(x, answered, "submitted")
      /\ UNCHANGED <<order, alloc, req, exec, lane>>
  BY DEF Submit, books
<1>2. /\ hand \in [Handlers -> Hands] /\ exec \in [Requests -> ExecRows]
      /\ pi \in [Payments -> PiRecords] /\ late \in BOOLEAN /\ lane \in Leases
  BY Types DEF IInv
<1>3. RightHand(hand[x])
  BY DEF IInv
<1>4. r \in Requests /\ p \in Payments /\ pi[p].for = r /\ exec[r].pay = p
  BY <1>1, <1>3 DEF RightHand, Paying, Recorded
<1>5. /\ pi' \in [Payments -> PiRecords] /\ late' \in BOOLEAN
      /\ \A q \in Payments \ {p} : pi'[q] = pi[q]
      /\ pi'[p].sent = pi[p].sent + 1 /\ pi[p].sent \in Nat
      /\ pi'[p].for = pi[p].for /\ pi'[p].state = pi[p].state
      /\ pi'[p].verified = pi[p].verified /\ pi'[p].completed = pi[p].completed
  BY <1>1, <1>2, <1>4 DEF PiRecords
<1>6. /\ hand' \in [Handlers -> Hands] /\ \A y \in Handlers \ {x} : hand'[y] = hand[y]
      /\ hand'[x] = Placed(x, "submitted") \/ hand'[x] = Placed(x, "release")
  BY <1>1, AnswerIs DEF Places, Updates
<1>7. hand'[x].req = r /\ hand'[x].pc \in {"submitted", "release"}
      /\ (hand'[x].pc # "release" => hand'[x].pay = p)
  BY <1>6 DEF Placed
<1>8. RightHand(hand[x])'
  <2> HIDE DEF r, p
  <2> QED  BY <1>1, <1>4, <1>5, <1>7 DEF RightHand, Paying, Recorded, Sent, Final
<1>9. \A y \in Handlers : hand'[y] = hand[y] \/ RightHand(hand[y])'
  BY <1>6, <1>8
<1>10. \A q \in Payments : RightPayment(q)' /\ PaymentGrows(q)
  <2> SUFFICES ASSUME NEW q \in Payments PROVE RightPayment(q)' /\ PaymentGrows(q)
    OBVIOUS
  <2>1. RightPayment(q) /\ pi[q] \in PiRecords
    BY <1>2 DEF IInv
  <2> HIDE DEF r, p
  <2>2. CASE q = p
    BY <1>1, <1>5, <2>1, <2>2 DEF RightPayment, PaymentGrows
  <2>3. CASE q # p
    BY <1>5, <2>1, <2>3 DEF RightPayment, PaymentGrows, PiRecords
  <2> QED  BY <2>2, <2>3
<1>11. \A q \in Requests : RightRecord(q)'
  <2> SUFFICES ASSUME NEW q \in Requests PROVE RightRecord(q)'
    OBVIOUS
  <2>1. exec[q].pay \in Payments \cup {None} /\ RightRecord(q)
    BY <1>2 DEF IInv, ExecRows
  <2> HIDE DEF r, p
  <2> QED  BY <1>1, <1>5, <2>1 DEF RightRecord
<1>12. \A q \in Payments : pi'[q].sent > 0 /\ pi[q].sent = 0 => exec'[pi'[q].for].pay = q
  <2> HIDE DEF r, p
  <2> QED  BY <1>1, <1>4, <1>5
<1>13. SentOnce'
  <2> SUFFICES ASSUME ~ late'
               PROVE  /\ \A q \in Payments : pi'[q].sent =< 1
                      /\ \A y \in Handlers :
                           hand'[y].pc = "submit" /\ lane' = [holder |-> y, req |-> hand'[y].req]
                             => pi'[hand'[y].pay].sent = 0
    BY DEF SentOnce
  <2>1. ~ late /\ lane = [holder |-> x, req |-> r]
    BY <1>1, Zenon
  <2>2. pi[p].sent = 0 /\ lane.holder = x /\ \A q \in Payments : pi[q].sent =< 1
    BY <1>1, <2>1 DEF IInv, SentOnce
  <2>3. \A q \in Payments : pi'[q].sent =< 1
    <3> HIDE DEF r, p
    <3> QED  BY <1>4, <1>5, <2>2
  <2>4. \A y \in Handlers : ~ (hand'[y].pc = "submit" /\ lane' = [holder |-> y, req |-> hand'[y].req])
    <3> SUFFICES ASSUME NEW y \in Handlers, hand'[y].pc = "submit",
                        lane' = [holder |-> y, req |-> hand'[y].req]
                 PROVE FALSE
      OBVIOUS
    <3>1. lane'.holder = y /\ lane' = lane
      BY <1>1
    <3>2. y = x
      BY <2>2, <3>1
    <3> QED  BY <1>7, <3>2
  <2> QED  BY <2>3, <2>4
<1> QED  BY <1>1, <1>2, <1>5, <1>6, <1>9, <1>10, <1>11, <1>12, <1>13, MachineryKeeps

--------------------------------------------------------------------------------
(* Payment p grows, sent or not as before; no handler comes to send. *)
LEMMA PaymentChanges ==
  ASSUME IInv, NEW p \in Payments,
         pi' \in [Payments -> PiRecords], \A q \in Payments \ {p} : pi'[q] = pi[q],
         pi'[p].sent = pi[p].sent, pi'[p].for = pi[p].for,
         pi[p].verified => pi'[p].verified, pi[p].completed => pi'[p].completed,
         pi[p].state # "unused" /\ pi'[p].state # "unused",
         pi[p].sent > 0 => pi'[p].state = "open",
         pi'[p].verified \/ pi'[p].completed => pi[p].sent > 0,
         hand' \in [Handlers -> Hands],
         \A x \in Handlers : \/ hand'[x] = hand[x]
                             \/ RightHand(hand[x])' /\ hand'[x].pc # "submit",
         UNCHANGED <<order, alloc, req, exec, lane, late>>
  PROVE  IInv'
<1> USE NoneAssumption
<1>1. /\ exec \in [Requests -> ExecRows] /\ pi \in [Payments -> PiRecords]
      /\ late \in BOOLEAN /\ lane \in Leases
  BY Types DEF IInv
<1>2. \A q \in Payments : pi'[q].sent = pi[q].sent /\ pi'[q].for = pi[q].for
  OBVIOUS
<1>3. \A q \in Payments : RightPayment(q)' /\ PaymentGrows(q)
  <2> SUFFICES ASSUME NEW q \in Payments PROVE RightPayment(q)' /\ PaymentGrows(q)
    OBVIOUS
  <2>1. RightPayment(q) /\ pi[q] \in PiRecords
    BY <1>1 DEF IInv
  <2>2. CASE q = p
    BY <2>1, <2>2 DEF RightPayment, PaymentGrows, PiRecords
  <2>3. CASE q # p
    BY <2>1, <2>3 DEF RightPayment, PaymentGrows, PiRecords
  <2> QED  BY <2>2, <2>3
<1>4. \A q \in Requests : RightRecord(q)'
  <2> SUFFICES ASSUME NEW q \in Requests PROVE RightRecord(q)'
    OBVIOUS
  <2>1. exec[q].pay \in Payments \cup {None} /\ RightRecord(q)
    BY <1>1 DEF IInv, ExecRows
  <2> QED  BY <1>2, <2>1 DEF RightRecord
<1>5. SentOnce'
  <2> SUFFICES ASSUME ~ late
               PROVE  /\ \A q \in Payments : pi'[q].sent =< 1
                      /\ \A y \in Handlers :
                           hand'[y].pc = "submit" /\ lane = [holder |-> y, req |-> hand'[y].req]
                             => pi'[hand'[y].pay].sent = 0
    BY DEF SentOnce
  <2>1. \A y \in Handlers : hand[y].pc = "submit" => hand[y].pay \in Payments
    BY DEF IInv, RightHand, Paying
  <2> QED  BY <1>2, <2>1 DEF IInv, SentOnce
<1>6. \A y \in Handlers : hand'[y] = hand[y] \/ RightHand(hand[y])'
  OBVIOUS
<1> QED  BY <1>1, <1>2, <1>3, <1>4, <1>5, <1>6, MachineryKeeps

LEMMA CompleteKeeps ==
  ASSUME IInv, NEW x \in Handlers, NEW answered \in BOOLEAN, Complete(x, answered)
  PROVE  IInv'
<1> DEFINE r  == hand[x].req
           p  == hand[x].pay
           pc == IF pi[p].verified THEN "completed" ELSE "attention"
<1>1. /\ hand[x].pc = "complete" /\ pi' = [pi EXCEPT ![p].completed = TRUE]
      /\ Answer(x, answered, pc) /\ UNCHANGED <<order, alloc, req, exec, lane, late>>
  BY DEF Complete, At
<1>2. /\ hand \in [Handlers -> Hands] /\ pi \in [Payments -> PiRecords] /\ RightHand(hand[x])
  BY Types DEF IInv
<1>3. r \in Requests /\ p \in Payments /\ pi[p].for = r /\ exec[r].pay = p /\ pi[p].sent > 0
  BY <1>1, <1>2 DEF RightHand, Paying, Recorded, Sent
<1>4. /\ pi' \in [Payments -> PiRecords] /\ \A q \in Payments \ {p} : pi'[q] = pi[q]
      /\ pi'[p].sent = pi[p].sent /\ pi'[p].for = pi[p].for
      /\ pi'[p].state = pi[p].state /\ pi'[p].verified = pi[p].verified
  BY <1>1, <1>2, <1>3 DEF PiRecords
<1>5. pi'[p].completed
  BY <1>1, <1>2, <1>3 DEF PiRecords
<1>6. pi[p].state = "open"
  BY <1>3 DEF IInv, RightPayment
<1>7. /\ hand' \in [Handlers -> Hands] /\ \A y \in Handlers \ {x} : hand'[y] = hand[y]
      /\ hand'[x] = Placed(x, pc) \/ hand'[x] = Placed(x, "release")
  BY <1>1, AnswerIs DEF Places, Updates
<1>8. /\ hand'[x].req = r /\ hand'[x].pc \in {pc, "release"}
      /\ (hand'[x].pc # "release" => hand'[x].pay = p)
  BY <1>7 DEF Placed
<1>9. pc \in {"completed", "attention"} /\ (pc = "completed" => pi[p].verified)
  OBVIOUS
<1>10. pi[p].verified => pi'[p].verified
  BY <1>4
<1> HIDE DEF r, p, pc
<1>11. RightHand(hand[x])' /\ hand'[x].pc # "submit"
  BY <1>1, <1>3, <1>4, <1>5, <1>8, <1>9, <1>10 DEF RightHand, Paying, Recorded, Sent, Final
<1>12. \A y \in Handlers : \/ hand'[y] = hand[y]
                           \/ RightHand(hand[y])' /\ hand'[y].pc # "submit"
  <2> SUFFICES ASSUME NEW y \in Handlers, y = x
               PROVE  RightHand(hand[y])' /\ hand'[y].pc # "submit"
    BY <1>7
  <2> QED  BY <1>11
<1>13. pi[p].state # "unused" /\ pi'[p].state = "open" /\ pi'[p].state # "unused"
  BY <1>4, <1>6
<1> QED  BY <1>1, <1>3, <1>4, <1>5, <1>7, <1>10, <1>12, <1>13, PaymentChanges

(* A step of Pi or of the operator on a payment; no handler moves. *)
LEMMA PaymentAlone ==
  ASSUME IInv, NEW p \in Payments,
         \/ /\ pi[p].sent > 0 /\ pi' = [pi EXCEPT ![p].verified = TRUE]
         \/ /\ pi[p].sent > 0 /\ pi' = [pi EXCEPT ![p].completed = TRUE]
         \/ /\ pi[p].state = "open" /\ pi[p].sent = 0
            /\ pi' = [pi EXCEPT ![p].state = "cancelled"],
         UNCHANGED <<order, alloc, req, exec, lane, hand, late>>
  PROVE  IInv'
<1>1. pi[p] \in PiRecords /\ pi \in [Payments -> PiRecords] /\ hand \in [Handlers -> Hands]
      /\ RightPayment(p)
  BY Types DEF IInv
<1>2. CASE pi[p].sent > 0 /\ pi' = [pi EXCEPT ![p].verified = TRUE]
  <2>1. /\ pi' \in [Payments -> PiRecords] /\ \A q \in Payments \ {p} : pi'[q] = pi[q]
        /\ pi'[p].sent = pi[p].sent /\ pi'[p].for = pi[p].for /\ pi'[p].state = pi[p].state
        /\ pi'[p].completed = pi[p].completed
    BY <1>1, <1>2 DEF PiRecords
  <2>2. pi'[p].verified
    BY <1>1, <1>2 DEF PiRecords
  <2>3. pi[p].state = "open" /\ pi'[p].state = "open"
    BY <1>1, <1>2, <2>1 DEF RightPayment
  <2> QED  BY <1>1, <1>2, <2>1, <2>2, <2>3, PaymentChanges
<1>3. CASE pi[p].sent > 0 /\ pi' = [pi EXCEPT ![p].completed = TRUE]
  <2>1. /\ pi' \in [Payments -> PiRecords] /\ \A q \in Payments \ {p} : pi'[q] = pi[q]
        /\ pi'[p].sent = pi[p].sent /\ pi'[p].for = pi[p].for /\ pi'[p].state = pi[p].state
        /\ pi'[p].verified = pi[p].verified
    BY <1>1, <1>3 DEF PiRecords
  <2>2. pi'[p].completed
    BY <1>1, <1>3 DEF PiRecords
  <2>3. pi[p].state = "open" /\ pi'[p].state = "open"
    BY <1>1, <1>3, <2>1 DEF RightPayment
  <2> QED  BY <1>1, <1>3, <2>1, <2>2, <2>3, PaymentChanges
<1>4. CASE /\ pi[p].state = "open" /\ pi[p].sent = 0
           /\ pi' = [pi EXCEPT ![p].state = "cancelled"]
  <2>1. /\ pi' \in [Payments -> PiRecords] /\ \A q \in Payments \ {p} : pi'[q] = pi[q]
        /\ pi'[p].sent = pi[p].sent /\ pi'[p].for = pi[p].for /\ pi'[p].state = "cancelled"
        /\ pi'[p].verified = pi[p].verified /\ pi'[p].completed = pi[p].completed
    BY <1>1, <1>4 DEF PiRecords
  <2>2. ~ pi[p].verified /\ ~ pi[p].completed
    BY <1>1, <1>4 DEF RightPayment
  <2> QED  BY <1>1, <1>4, <2>1, <2>2, PaymentChanges
<1> QED  BY <1>2, <1>3, <1>4

LEMMA PaymentStepsKeep ==
  ASSUME IInv,
         \/ \E p \in Payments : PiVerify(p) \/ PiCancel(p)
         \/ \E r \in Requests : CompleteOnly(r)
  PROVE  IInv'
<1> USE NoneAssumption
<1>1. CASE \E p \in Payments : PiVerify(p)
  BY <1>1, PaymentAlone DEF PiVerify, books
<1>2. CASE \E p \in Payments : PiCancel(p)
  BY <1>2, PaymentAlone DEF PiCancel, books
<1>3. ASSUME NEW r \in Requests, CompleteOnly(r) PROVE IInv'
  <2>1. exec[r].pay \in Payments
    <3>1. exec[r].pay # None /\ exec[r] \in ExecRows
      BY <1>3, Types DEF CompleteOnly, IInv, RightRecord, Updates
    <3> QED  BY <3>1 DEF ExecRows
  <2>2. pi[exec[r].pay].sent > 0
    BY <1>3, <2>1 DEF CompleteOnly, IInv, RightPayment
  <2> QED  BY <1>3, <2>1, <2>2, PaymentAlone DEF CompleteOnly, books
<1> QED  BY <1>1, <1>2, <1>3

(* Nothing refers to a payment that is forgotten. *)
LEMMA ForgetKeeps ==
  ASSUME IInv, NEW p \in Payments, PiForget(p) PROVE IInv'
<1> USE NoneAssumption
<1>1. /\ pi[p].state = "cancelled" /\ pi' = [pi EXCEPT ![p] = Unused]
      /\ \A r \in Requests : exec[r].pay # p
      /\ \A x \in Handlers : hand[x].pay # p
      /\ UNCHANGED <<order, alloc, req, exec, lane, hand, late>>
  BY DEF PiForget, books
<1>2. pi \in [Payments -> PiRecords] /\ RightPayment(p)
  BY Types DEF IInv
<1>3. /\ Unused \in PiRecords /\ Unused.sent = 0 /\ Unused.state = "unused"
      /\ Unused.verified = FALSE /\ Unused.completed = FALSE
  BY DEF Unused, PiRecords
<1>4. pi[p].sent = 0
  BY <1>1, <1>2 DEF RightPayment, PiRecords
<1>5. \A q \in Payments : pi'[q] = IF q = p THEN Unused ELSE pi[q]
  BY <1>1, <1>2
<1>6. TypeOK'
  BY <1>1, <1>2, <1>3, TypesAfter, Types DEF IInv
<1>7. \A q \in Payments : RightPayment(q)'
  BY <1>3, <1>5 DEF IInv, RightPayment
<1>8. \A r \in Requests : RightRecord(r)'
  BY <1>1, <1>5, Types DEF IInv, RightRecord, ExecRows
<1>9. \A r \in Requests : RightEvidence(r)'
  BY <1>1, <1>4, <1>5, Types DEF IInv, RightEvidence, ReqRows
<1>10. \A x \in Handlers : RightHand(hand[x])'
  <2> SUFFICES ASSUME NEW x \in Handlers PROVE RightHand(hand[x])'
    OBVIOUS
  <2>1. RightHand(hand[x]) /\ hand[x].pay # p
    BY <1>1 DEF IInv
  <2>2. hand[x].pc \in Paying => hand[x].pay \in Payments /\ pi'[hand[x].pay] = pi[hand[x].pay]
    BY <1>5, <2>1 DEF RightHand
  <2>3. Sent \subseteq Paying /\ Final \subseteq Paying
    BY DEF Sent, Final, Paying
  <2> QED  BY <1>1, <2>1, <2>2, <2>3 DEF RightHand
<1>11. TransfersAreOnRecord'
  BY <1>1, <1>3, <1>5 DEF IInv, TransfersAreOnRecord
<1>12. LinesAreReserved' /\ NoLines'
  BY <1>1 DEF IInv, LinesAreReserved, NoLines
<1>13. SentOnce'
  <2>1. \A q \in Payments : pi'[q].sent = pi[q].sent
    BY <1>3, <1>4, <1>5
  <2>2. \A y \in Handlers : hand[y].pc = "submit" => hand[y].pay \in Payments
    BY DEF IInv, RightHand, Paying
  <2> QED  BY <1>1, <2>1, <2>2 DEF IInv, SentOnce
<1> QED  BY <1>6, <1>7, <1>8, <1>9, <1>10, <1>11, <1>12, <1>13 DEF IInv

--------------------------------------------------------------------------------
(* The steps that change orders, allocations and requests. *)
LEMMA BooksKeep ==
  ASSUME IInv,
         order' \in [Orders -> OrderRows], alloc' \in [Orders -> Requests \cup {None}],
         req' \in [Requests -> ReqRows], hand' \in [Handlers -> Hands],
         \A x \in Handlers : \/ hand'[x] = hand[x]
                             \/ RightHand(hand[x])' /\ hand'[x].pc # "submit",
         \A r \in Requests : RightEvidence(r)',
         LinesAreReserved', NoLines',
         UNCHANGED <<exec, lane, pi, late>>
  PROVE  IInv'
<1>1. TypeOK'
  BY TypesAfter, Types DEF IInv
<1>2. \A p \in Payments : RightPayment(p)'
  BY DEF IInv, RightPayment
<1>3. \A r \in Requests : RightRecord(r)'
  BY DEF IInv, RightRecord
<1>4. \A x \in Handlers : RightHand(hand[x])'
  BY DEF IInv, RightHand
<1>5. TransfersAreOnRecord'
  BY DEF IInv, TransfersAreOnRecord
<1>6. SentOnce'
  BY DEF IInv, SentOnce
<1> QED  BY <1>1, <1>2, <1>3, <1>4, <1>5, <1>6 DEF IInv

(* An order changes, in a way its allocation allows. *)
LEMMA OrderKeeps ==
  ASSUME IInv, NEW o \in Orders, NEW n \in OrderRows, order' = [order EXCEPT ![o] = n],
         alloc[o] # None => n.reduced = order[o].reduced /\ n.status # "refunded",
         UNCHANGED <<alloc, req, exec, lane, hand, pi, late>>
  PROVE  IInv'
<1>1. /\ order \in [Orders -> OrderRows] /\ alloc \in [Orders -> Requests \cup {None}]
      /\ req \in [Requests -> ReqRows] /\ hand \in [Handlers -> Hands]
  BY Types DEF IInv
<1>2. order' \in [Orders -> OrderRows] /\ \A q \in Orders : order'[q] = IF q = o THEN n ELSE order[q]
  BY <1>1
<1>3. \A r \in Requests : RightEvidence(r)'
  BY DEF IInv, RightEvidence
<1>4. LinesAreReserved' /\ NoLines'
  <2>1. NoLines'
    BY DEF IInv, NoLines
  <2>2. \A q \in Orders : alloc[q] # None =>
          /\ order'[q].reduced = order[q].reduced
          /\ order[q].status # "refunded" => order'[q].status # "refunded"
    BY <1>2
  <2>3. LinesAreReserved
    BY DEF IInv
  <2> SUFFICES ASSUME NEW r \in Requests, NEW q \in Orders
               PROVE  /\ alloc[q] = r <=> req[r].status # "ended" /\ req[r].lines[q] > 0
                      /\ alloc[q] = r => /\ req[r].lines[q] = Net - order'[q].reduced
                                         /\ order'[q].status # "refunded"
    BY <2>1 DEF LinesAreReserved
  <2>4. r # None
    BY NoneAssumption
  <2> QED  BY <2>2, <2>3, <2>4 DEF LinesAreReserved
<1> QED  BY <1>1, <1>2, <1>3, <1>4, BooksKeep

LEMMA OrderStepsKeep ==
  ASSUME IInv, NEW o \in Orders, OrderStep(o) PROVE IInv'
<1>1. /\ order \in [Orders -> OrderRows] /\ order[o] \in OrderRows
      /\ alloc \in [Orders -> Requests \cup {None}]
  BY Types DEF IInv
<1>2. alloc[o] # None => order[o].status # "refunded"
  BY <1>1 DEF IInv, LinesAreReserved
<1>3. \A st \in {"completed", "disputed"} :
        /\ [order[o] EXCEPT !.status = st] \in OrderRows
        /\ [order[o] EXCEPT !.status = st].reduced = order[o].reduced
        /\ [order[o] EXCEPT !.status = st].status # "refunded"
  BY <1>1 DEF OrderRows
<1>4. CASE Deliver(o)
  <2>1. order' = [order EXCEPT ![o] = [order[o] EXCEPT !.status = "completed"]]
    BY <1>4 DEF Deliver
  <2> QED  BY <1>3, <1>4, <2>1, OrderKeeps DEF Deliver, ElsewhereThanOrders
<1>5. CASE Decide(o)
  <2>1. order' = [order EXCEPT ![o] = [order[o] EXCEPT !.status = "disputed"]]
    BY <1>5 DEF Decide
  <2> QED  BY <1>3, <1>5, <2>1, OrderKeeps DEF Decide, ElsewhereThanOrders
<1>6. ASSUME NEW n \in 1 .. Net, Award(o, n) PROVE IInv'
  <2> DEFINE x == [order[o] EXCEPT !.reduced = @ + n]
  <2>1. /\ alloc[o] = None /\ order[o].reduced + n =< Net
        /\ UNCHANGED <<alloc, req, exec, lane, hand, pi, late>>
    BY <1>6 DEF Award, MayReduce, ElsewhereThanOrders
  <2>2. x \in OrderRows
    BY <1>1, <2>1, NetAssumption DEF OrderRows
  <2>3. order' = [order EXCEPT ![o] = x]
    BY <1>6 DEF Award
  <2> HIDE DEF x
  <2> QED  BY <2>1, <2>2, <2>3, OrderKeeps
<1>7. ASSUME NEW n \in 0 .. Net, Refund(o, n) PROVE IInv'
  <2> DEFINE x == [status |-> "refunded", reduced |-> order[o].reduced + n]
  <2>1. /\ alloc[o] = None /\ order[o].reduced + n =< Net
        /\ UNCHANGED <<alloc, req, exec, lane, hand, pi, late>>
    BY <1>7 DEF Refund, MayReduce, ElsewhereThanOrders
  <2>2. x \in OrderRows
    BY <1>1, <2>1, NetAssumption DEF OrderRows
  <2>3. order' = [order EXCEPT ![o] = x]
    BY <1>7 DEF Refund
  <2> HIDE DEF x
  <2> QED  BY <2>1, <2>2, <2>3, OrderKeeps
<1> QED  BY <1>4, <1>5, <1>6, <1>7 DEF OrderStep

(* A request takes what is left of orders nobody has. *)
LEMMA RequestPayoutKeeps ==
  ASSUME IInv, NEW r \in Requests, RequestPayout(r) PROVE IInv'
<1> USE NoneAssumption, NetAssumption
<1> DEFINE ls == [o \in Orders |-> IF o \in Eligible THEN Net - order[o].reduced ELSE 0]
           x  == [status |-> "requested", lines |-> ls, recon |-> req[r].recon]
<1>1. /\ order \in [Orders -> OrderRows] /\ alloc \in [Orders -> Requests \cup {None}]
      /\ req \in [Requests -> ReqRows] /\ hand \in [Handlers -> Hands]
  BY Types DEF IInv
<1>2. /\ req[r].status = "none"
      /\ req' = [req EXCEPT ![r].status = "requested", ![r].lines = ls]
      /\ alloc' = [o \in Orders |-> IF o \in Eligible THEN r ELSE alloc[o]]
      /\ UNCHANGED <<order, exec, lane, hand, pi, late>>
  BY DEF RequestPayout
<1>3. \A o \in Eligible : /\ o \in Orders /\ order[o].status = "completed" /\ alloc[o] = None
                         /\ order[o].reduced \in Nat /\ order[o].reduced < Net
  BY <1>1 DEF Eligible, OrderRows
<1>4. ls \in [Orders -> 0 .. Net]
  BY <1>3
<1>5. x \in ReqRows
  BY <1>1, <1>4 DEF ReqRows, Open
<1>6. \A q \in Requests : req'[q] = IF q = r THEN x ELSE req[q]
  <2>1. \A q \in Requests \ {r} : req'[q] = req[q]
    BY <1>1, <1>2
  <2>2. req'[r] = x
    BY <1>1, <1>2 DEF ReqRows
  <2> QED  BY <2>1, <2>2
<1>7. req' \in [Requests -> ReqRows] /\ alloc' \in [Orders -> Requests \cup {None}]
  BY <1>1, <1>2, <1>5, <1>6
<1>8. x.status = "requested" /\ x.recon = req[r].recon /\ x.lines = ls
  OBVIOUS
<1>9. \A o \in Orders : /\ o \in Eligible => ls[o] = Net - order[o].reduced /\ ls[o] > 0
                        /\ o \notin Eligible => ls[o] = 0
  BY <1>3
<1> HIDE DEF x, ls
<1>10. \A q \in Requests : RightEvidence(q)'
  <2> SUFFICES ASSUME NEW q \in Requests PROVE RightEvidence(q)'
    OBVIOUS
  <2>1. /\ pi' = pi /\ req'[q].recon = req[q].recon
        /\ req'[q].status = req[q].status \/ req'[q].status # "paid"
    BY <1>2, <1>6, <1>8
  <2>2. RightEvidence(q)
    BY DEF IInv
  <2> QED  BY <2>1, <2>2 DEF RightEvidence
<1>11. NoLines'
  BY <1>6, <1>8 DEF IInv, NoLines
<1>12. LinesAreReserved'
  <2> SUFFICES ASSUME NEW q \in Requests, NEW o \in Orders
               PROVE  /\ alloc'[o] = q <=> req'[q].status # "ended" /\ req'[q].lines[o] > 0
                      /\ alloc'[o] = q => /\ req'[q].lines[o] = Net - order[o].reduced
                                          /\ order[o].status # "refunded"
    <3>1. order' = order
      BY <1>2
    <3> QED  BY <3>1 DEF LinesAreReserved
  <2>1. /\ alloc[o] = q <=> req[q].status # "ended" /\ req[q].lines[o] > 0
        /\ alloc[o] = q => /\ req[q].lines[o] = Net - order[o].reduced
                           /\ order[o].status # "refunded"
    BY DEF IInv, LinesAreReserved
  <2>2. alloc[o] # r
    <3>1. req[r].lines[o] = 0
      BY <1>2 DEF IInv, NoLines
    <3>2. alloc[o] = r => req[r].lines[o] > 0
      BY DEF IInv, LinesAreReserved
    <3> QED  BY <3>1, <3>2
  <2>3. alloc'[o] = IF o \in Eligible THEN r ELSE alloc[o]
    BY <1>2
  <2>4. CASE q = r
    BY <1>3, <1>6, <1>8, <1>9, <2>2, <2>3, <2>4
  <2>5. CASE q # r
    <3>1. req'[q] = req[q]
      BY <1>6, <2>5
    <3>2. o \in Eligible => alloc[o] = None
      BY <1>3
    <3> QED  BY <2>1, <2>3, <2>5, <3>1, <3>2
  <2> QED  BY <2>4, <2>5
<1> QED  BY <1>1, <1>2, <1>7, <1>10, <1>11, <1>12, BooksKeep

(* A request that ends gives its orders back. *)
LEMMA OperateKeeps ==
  ASSUME IInv, NEW r \in Requests,
         NEW to \in {"under_review", "approved", "processing", "ended"}, Operate(r, to)
  PROVE  IInv'
<1> USE NoneAssumption
<1>1. /\ order \in [Orders -> OrderRows] /\ alloc \in [Orders -> Requests \cup {None}]
      /\ req \in [Requests -> ReqRows] /\ hand \in [Handlers -> Hands]
  BY Types DEF IInv
<1>2. /\ req[r].status \in Open /\ req' = [req EXCEPT ![r].status = to]
      /\ alloc' = [o \in Orders |-> IF to = "ended" /\ alloc[o] = r THEN None ELSE alloc[o]]
      /\ UNCHANGED <<order, exec, lane, hand, pi, late>>
  BY DEF Operate, MayFollow, Open
<1>3. /\ req' \in [Requests -> ReqRows] /\ req'[r].status = to
      /\ \A q \in Requests : req'[q].lines = req[q].lines /\ req'[q].recon = req[q].recon
      /\ \A q \in Requests \ {r} : req'[q] = req[q]
  BY <1>1, <1>2 DEF ReqRows, Open
<1>4. alloc' \in [Orders -> Requests \cup {None}]
  BY <1>1, <1>2
<1>5. \A q \in Requests : RightEvidence(q)'
  BY <1>2, <1>3 DEF IInv, RightEvidence
<1>6. NoLines'
  BY <1>3 DEF IInv, NoLines
<1>7. LinesAreReserved'
  <2> SUFFICES ASSUME NEW q \in Requests, NEW o \in Orders
               PROVE  /\ alloc'[o] = q <=> req'[q].status # "ended" /\ req'[q].lines[o] > 0
                      /\ alloc'[o] = q => /\ req'[q].lines[o] = Net - order[o].reduced
                                          /\ order[o].status # "refunded"
    BY <1>2 DEF LinesAreReserved
  <2>1. /\ alloc[o] = q <=> req[q].status # "ended" /\ req[q].lines[o] > 0
        /\ alloc[o] = q => /\ req[q].lines[o] = Net - order[o].reduced
                           /\ order[o].status # "refunded"
    BY DEF IInv, LinesAreReserved
  <2>2. alloc'[o] = IF to = "ended" /\ alloc[o] = r THEN None ELSE alloc[o]
    BY <1>2
  <2>3. req'[q].lines[o] = req[q].lines[o] /\ (q # r => req'[q].status = req[q].status)
    BY <1>3
  <2>4. req[r].status # "ended"
    BY <1>2 DEF Open
  <2> QED  BY <1>3, <2>1, <2>2, <2>3, <2>4
<1> QED  BY <1>1, <1>2, <1>3, <1>4, <1>5, <1>6, <1>7, BooksKeep

(***************************************************************************)
(* Request r gets its evidence, or is paid against it, and a handler moves *)
(* on; the lines and whether the request has ended stay.                   *)
(***************************************************************************)
LEMMA EvidenceKeeps ==
  ASSUME IInv, NEW r \in Requests, NEW x \in Handlers, NEW n \in ReqRows,
         req' = [req EXCEPT ![r] = n], n.lines = req[r].lines,
         req[r].status \notin {"none", "ended"}, n.status \notin {"none", "ended"},
         n.recon # None => /\ n.recon \in Payments /\ pi[n.recon].for = r
                           /\ pi[n.recon].sent > 0
                           /\ pi[n.recon].verified /\ pi[n.recon].completed,
         n.status = "paid" => n.recon # None,
         hand' \in [Handlers -> Hands], \A y \in Handlers \ {x} : hand'[y] = hand[y],
         RightHand(hand[x])', hand'[x].pc # "submit",
         UNCHANGED <<order, alloc, exec, lane, pi, late>>
  PROVE  IInv'
<1>1. /\ order \in [Orders -> OrderRows] /\ alloc \in [Orders -> Requests \cup {None}]
      /\ req \in [Requests -> ReqRows]
  BY Types DEF IInv
<1>2. \A q \in Requests : req'[q] = IF q = r THEN n ELSE req[q]
  BY <1>1
<1>3. req' \in [Requests -> ReqRows]
  BY <1>1
<1>4. \A q \in Requests : RightEvidence(q)'
  <2> SUFFICES ASSUME NEW q \in Requests PROVE RightEvidence(q)'
    OBVIOUS
  <2>1. RightEvidence(q)
    BY DEF IInv
  <2>2. CASE q = r
    BY <1>2, <2>2 DEF RightEvidence
  <2>3. CASE q # r
    <3>1. req'[q] = req[q] /\ pi' = pi
      BY <1>2, <2>3
    <3> QED  BY <2>1, <3>1 DEF RightEvidence
  <2> QED  BY <2>2, <2>3
<1>5. NoLines'
  BY <1>2 DEF IInv, NoLines
<1>6. LinesAreReserved'
  <2>1. \A q \in Requests : /\ req'[q].lines = req[q].lines
                           /\ req'[q].status # "ended" <=> req[q].status # "ended"
    BY <1>2
  <2> QED  BY <2>1 DEF IInv, LinesAreReserved
<1>7. \A y \in Handlers : \/ hand'[y] = hand[y]
                          \/ RightHand(hand[y])' /\ hand'[y].pc # "submit"
  OBVIOUS
<1> QED  BY <1>1, <1>3, <1>4, <1>5, <1>6, <1>7, BooksKeep

LEMMA ConfirmKeeps ==
  ASSUME IInv, NEW x \in Handlers, NEW answered \in BOOLEAN, Confirm(x, answered)
  PROVE  IInv'
<1> DEFINE r == hand[x].req
           p == hand[x].pay
           n == [status |-> req[r].status, lines |-> req[r].lines, recon |-> p]
<1>1. /\ hand[x].pc = "confirm" /\ req[r].status \in {"processing", "paid"}
      /\ req' = [req EXCEPT ![r].recon = p] /\ Answer(x, answered, "pay")
      /\ UNCHANGED <<order, alloc, exec, lane, pi, late>>
  BY DEF Confirm, At, CanConfirm
<1>2. req \in [Requests -> ReqRows] /\ RightHand(hand[x])
  BY Types DEF IInv
<1>3. /\ r \in Requests /\ p \in Payments /\ pi[p].for = r /\ pi[p].sent > 0
      /\ pi[p].verified /\ pi[p].completed
  BY <1>1, <1>2 DEF RightHand, Paying, Sent, Final
<1>4. n \in ReqRows /\ req' = [req EXCEPT ![r] = n]
  <2>1. req[r] \in ReqRows /\ p \in Payments
    BY <1>2, <1>3
  <2>2. n = [req[r] EXCEPT !.recon = p]
    BY <2>1 DEF ReqRows
  <2>3. n \in ReqRows
    BY <2>1 DEF ReqRows
  <2>4. req' = [req EXCEPT ![r] = [req[r] EXCEPT !.recon = p]]
    BY <1>1
  <2> QED  BY <2>2, <2>3, <2>4
<1>5. n.status = req[r].status /\ n.lines = req[r].lines /\ n.recon = p /\ p # None
  BY <1>3, NoneAssumption
<1>6. /\ hand' \in [Handlers -> Hands] /\ \A y \in Handlers \ {x} : hand'[y] = hand[y]
      /\ hand'[x] = Placed(x, "pay") \/ hand'[x] = Placed(x, "release")
  BY <1>1, AnswerIs DEF Places
<1>7. hand'[x].req = r /\ hand'[x].pc \in {"pay", "release"}
      /\ (hand'[x].pc # "release" => hand'[x].pay = p)
  BY <1>6 DEF Placed
<1> HIDE DEF r, p, n
<1>8. RightHand(hand[x])'
  BY <1>1, <1>3, <1>7 DEF RightHand, Paying, Recorded, Sent, Final
<1> QED  BY <1>1, <1>3, <1>4, <1>5, <1>6, <1>7, <1>8, EvidenceKeeps

LEMMA PayKeeps ==
  ASSUME IInv, NEW x \in Handlers, Pay(x) PROVE IInv'
<1> DEFINE r == hand[x].req
           p == hand[x].pay
           n == [status |-> "paid", lines |-> req[r].lines, recon |-> req[r].recon]
<1>1. /\ hand[x].pc = "pay" /\ Goto(x, "release")
      /\ req' = IF CanPay(x) THEN [req EXCEPT ![r].status = "paid"] ELSE req
      /\ UNCHANGED <<order, alloc, exec, lane, pi, late>>
  BY DEF Pay, At
<1>2. req \in [Requests -> ReqRows] /\ RightHand(hand[x])
  BY Types DEF IInv
<1>3. /\ r \in Requests /\ p \in Payments /\ pi[p].for = r /\ pi[p].sent > 0
      /\ pi[p].verified /\ pi[p].completed
  BY <1>1, <1>2 DEF RightHand, Paying, Sent, Final
<1>4. CASE ~ CanPay(x)
  <2>1. req' = req /\ hand[x].pc # "idle"
    BY <1>1, <1>4
  <2> QED  BY <1>1, <2>1, ToReleaseKeeps
<1>5. CASE CanPay(x)
  <2>1. req[r].status = "processing" /\ req[r].recon = p
    BY <1>5 DEF CanPay
  <2>2. n \in ReqRows /\ req' = [req EXCEPT ![r] = n]
    <3>1. req[r] \in ReqRows
      BY <1>2, <1>3
    <3>2. n = [req[r] EXCEPT !.status = "paid"]
      BY <3>1 DEF ReqRows
    <3>3. n \in ReqRows
      BY <3>1 DEF ReqRows
    <3>4. req' = [req EXCEPT ![r] = [req[r] EXCEPT !.status = "paid"]]
      BY <1>1, <1>5
    <3> QED  BY <3>2, <3>3, <3>4
  <2>3. n.status = "paid" /\ n.lines = req[r].lines /\ n.recon = p /\ p # None
    BY <1>3, <2>1, NoneAssumption
  <2>4. /\ hand' = [hand EXCEPT ![x] = Placed(x, "release")] /\ Placed(x, "release") \in Hands
        /\ hand \in [Handlers -> Hands]
    BY <1>1, GotoIs, Types DEF Places, IInv
  <2>5. /\ hand' \in [Handlers -> Hands] /\ \A y \in Handlers \ {x} : hand'[y] = hand[y]
        /\ hand'[x].req = r /\ hand'[x].pc = "release"
    BY <2>4 DEF Placed
  <2> HIDE DEF r, p, n
  <2>6. RightHand(hand[x])'
    BY <1>3, <2>5 DEF RightHand, Paying, Recorded, Sent, Final
  <2> QED  BY <1>1, <1>3, <2>1, <2>2, <2>3, <2>5, <2>6, EvidenceKeeps
<1> QED  BY <1>4, <1>5

--------------------------------------------------------------------------------
LEMMA HandlerStepsKeep ==
  ASSUME IInv, NEW x \in Handlers, Calls(x) \/ Step(x) \/ Fault(x) PROVE IInv'
<1>1. CASE Calls(x)
  BY <1>1, BeginKeeps, ReconcileKeeps DEF Calls
<1>2. CASE Step(x)
  BY <1>2, FindKeeps, CreateKeeps, ReadKeeps, SubmitKeeps, CompleteKeeps, ReturnsKeep,
     UpdateKeeps, ConfirmKeeps, PayKeeps, ToIdleKeeps DEF Step
<1>3. CASE Fault(x)
  BY <1>3, BeginKeeps, CreateKeeps, SubmitKeeps, CompleteKeeps, ConfirmKeeps, UpdateKeeps,
     ReturnsKeep, ToIdleKeeps DEF Fault
<1> QED  BY <1>1, <1>2, <1>3

LEMMA NextKeeps == IInv /\ [Next]_vars => IInv'
<1> SUFFICES ASSUME IInv, [Next]_vars PROVE IInv'
  OBVIOUS
<1>1. ASSUME NEW o \in Orders, OrderStep(o) PROVE IInv'
  BY <1>1, OrderStepsKeep
<1>2. ASSUME NEW r \in Requests, RequestPayout(r) \/ Operator(r) PROVE IInv'
  BY <1>2, RequestPayoutKeeps, OperateKeeps, PaymentStepsKeep DEF Operator
<1>3. ASSUME NEW x \in Handlers, Calls(x) \/ Step(x) \/ Fault(x) PROVE IInv'
  BY <1>3, HandlerStepsKeep
<1>4. CASE Lapse
  BY <1>4, LapseKeeps
<1>5. CASE Pi
  BY <1>5, PaymentStepsKeep, ForgetKeeps DEF Pi
<1>6. CASE UNCHANGED vars
  BY <1>6 DEF vars, IInv, TypeOK, RightPayment, RightRecord, RightEvidence, RightHand,
              TransfersAreOnRecord, LinesAreReserved, NoLines, SentOnce
<1> QED  BY <1>1, <1>2, <1>3, <1>4, <1>5, <1>6 DEF Next

LEMMA IInvHolds == Spec => []IInv
  BY InitIInv, NextKeeps, PTL DEF Spec

--------------------------------------------------------------------------------
(* Adjustments never take more off an order than the seller got for it,    *)
(* and every variable has its type.                                        *)
THEOREM SellerTypes == Spec => []TypeOK
<1>1. IInv => TypeOK
  BY DEF IInv
<1> QED  BY <1>1, IInvHolds, PTL

(* A request that has not ended has its orders allocated to it at what is  *)
(* left of their proceeds, a paid one has a transfer as its evidence, and  *)
(* every transfer is on record.                                            *)
THEOREM SellerBooksAgree == Spec => []BooksAgree
<1>1. IInv => PaidIsConfirmed
  <2> SUFFICES ASSUME IInv, NEW r \in Requests, req[r].status = "paid"
               PROVE  \E p \in Payments : /\ req[r].recon = p /\ pi[p].for = r
                                          /\ pi[p].sent > 0 /\ pi[p].verified /\ pi[p].completed
    BY DEF PaidIsConfirmed
  <2>1. req[r].recon \in Payments
    BY Types DEF IInv, RightEvidence, ReqRows
  <2> WITNESS req[r].recon \in Payments
  <2> QED  BY <2>1, NoneAssumption DEF IInv, RightEvidence
<1>2. IInv => BooksAgree
  BY <1>1 DEF IInv, BooksAgree
<1> QED  BY <1>2, IInvHolds, PTL

(* Two transfers of requests that were not ended never carry the same      *)
(* order, none carries more than adjustments left, and each is made once   *)
(* as long as no handler submitted without the lease.                      *)
THEOREM SellerIsPaidOnce == Spec => []SellerPaidOnce
<1>1. IInv => SellerPaidOnce
  <2> SUFFICES ASSUME IInv, NEW p \in Payments, NEW o \in Orders, Carries(p, o)
               PROVE  /\ ~ late => pi[p].sent = 1
                      /\ req[pi[p].for].lines[o] + order[o].reduced =< Net
                      /\ \A q \in Payments : Carries(q, o) => p = q
    BY DEF SellerPaidOnce
  <2>1. \A q \in Payments : Carries(q, o) => /\ pi[q].for \in Requests
                                            /\ alloc[o] = pi[q].for
                                            /\ exec[pi[q].for].pay = q
    BY DEF Carries, IInv, RightPayment, LinesAreReserved, TransfersAreOnRecord
  <2>2. ASSUME ~ late PROVE pi[p].sent = 1
    <3>1. pi[p].sent \in Nat /\ pi[p].sent > 0 /\ pi[p].sent =< 1
      BY <2>2, Types DEF IInv, SentOnce, Carries, PiRecords
    <3> QED  BY <3>1
  <2>3. req[pi[p].for].lines[o] + order[o].reduced =< Net
    <3>1. req[pi[p].for].lines[o] = Net - order[o].reduced
      BY <2>1 DEF IInv, LinesAreReserved
    <3>2. order[o].reduced \in Nat /\ Net \in Nat
      BY Types, NetAssumption DEF IInv, OrderRows
    <3> QED  BY <3>1, <3>2
  <2>4. \A q \in Payments : Carries(q, o) => p = q
    BY <2>1
  <2> QED  BY <2>2, <2>3, <2>4
<1> QED  BY <1>1, IInvHolds, PTL

--------------------------------------------------------------------------------
(***************************************************************************)
(* The promise.  What the machinery does is seen there only where it sends *)
(* the first money of a request, and where it pays or ends one.            *)
(***************************************************************************)
StandingOf(o) == Standing(order[o].status)
PhaseOf(r)    == Phase(req[r].status)
LeftOf(o)     == Net - order[o].reduced
SentFor       == {r \in Requests : \E p \in Payments : pi[p].for = r /\ pi[p].sent > 0}

(* What a step shows of orders, requests and payments when it is not seen. *)
SameOrders   == UNCHANGED <<order, alloc>>
SameRequests == \A r \in Requests : /\ req'[r].lines = req[r].lines
                                    /\ Phase(req'[r].status) = PhaseOf(r)
SamePayments == \A p \in Payments : /\ pi'[p].sent > 0 <=> pi[p].sent > 0
                                    /\ pi[p].sent > 0 => pi'[p].for = pi[p].for

LEMMA SentForSame ==
  ASSUME SamePayments PROVE SentFor' = SentFor
  BY DEF SamePayments, SentFor

LEMMA SeenNothing ==
  ASSUME SameOrders, SameRequests, SentFor' = SentFor PROVE UNCHANGED Promise!vars
<1>1. [r \in Requests |-> Phase(req'[r].status)] = [r \in Requests |-> PhaseOf(r)]
  BY DEF SameRequests
<1>2. [r \in Requests |-> req'[r].lines] = [r \in Requests |-> req[r].lines]
  BY DEF SameRequests
<1> QED  BY <1>1, <1>2 DEF SameOrders, PhaseOf, SentFor, Promise!vars

LEMMA BooksUnseen ==
  ASSUME UNCHANGED <<order, alloc, req>>, SamePayments PROVE UNCHANGED Promise!vars
<1>1. SameOrders /\ SameRequests
  BY DEF SameOrders, SameRequests, PhaseOf
<1> QED  BY <1>1, SentForSame, SeenNothing

(* A request whose phase stays, or payments that stay. *)
LEMMA PaymentsStay ==
  ASSUME UNCHANGED pi PROVE SamePayments
  BY DEF SamePayments

--------------------------------------------------------------------------------
(* The steps of an order. *)
LEMMA SeenStanding ==
  ASSUME IInv, NEW o \in Orders, NEW st \in {"completed", "disputed"},
         order' = [order EXCEPT ![o].status = st],
         UNCHANGED <<alloc, req, pi>>
  PROVE  /\ [q \in Orders |-> Standing(order'[q].status)]
              = [[q \in Orders |-> StandingOf(q)] EXCEPT ![o] = Standing(st)]
         /\ [q \in Orders |-> Net - order'[q].reduced] = [q \in Orders |-> LeftOf(q)]
<1>1. order \in [Orders -> OrderRows]
  BY Types DEF IInv
<1>2. \A q \in Orders : /\ order'[q].status = IF q = o THEN st ELSE order[q].status
                        /\ order'[q].reduced = order[q].reduced
  BY <1>1 DEF OrderRows
<1>3. \A q \in Orders : /\ Standing(order'[q].status) = IF q = o THEN Standing(st) ELSE StandingOf(q)
                        /\ Net - order'[q].reduced = LeftOf(q)
  BY <1>2 DEF StandingOf, LeftOf
<1> QED  BY <1>3

LEMMA SeenDeliver ==
  ASSUME IInv, NEW o \in Orders, Deliver(o) PROVE Promise!FallDue(o)
<1>1. /\ order' = [order EXCEPT ![o].status = "completed"] /\ order[o].status = "fulfilling"
      /\ UNCHANGED <<alloc, req, pi>>
  BY DEF Deliver, ElsewhereThanOrders
<1>2. Standing("completed") = "due" /\ Standing("fulfilling") = "coming"
  BY DEF Standing
<1> QED  BY <1>1, <1>2, SeenStanding DEF StandingOf, LeftOf, Promise!FallDue

LEMMA SeenDecide ==
  ASSUME IInv, NEW o \in Orders, Decide(o) PROVE Promise!Contest(o)
<1>1. /\ order' = [order EXCEPT ![o].status = "disputed"] /\ UNCHANGED <<alloc, req, pi>>
  BY DEF Decide, ElsewhereThanOrders
<1>2. Standing("disputed") = "contested"
  BY DEF Standing
<1> QED  BY <1>1, <1>2, SeenStanding DEF StandingOf, LeftOf, Promise!Contest

(* An award or a refund: order o gets row x, with n more taken off. *)
LEMMA SeenReduce ==
  ASSUME IInv, NEW o \in Orders, NEW n \in 0 .. Net, MayReduce(o, n), NEW x,
         order' = [order EXCEPT ![o] = x],
         x.status \in {"disputed", "refunded"}, x.reduced = order[o].reduced + n,
         UNCHANGED <<alloc, req, pi>>
  PROVE  Promise!Reduce(o, n)
<1>1. order \in [Orders -> OrderRows] /\ order[o].reduced \in 0 .. Net
  BY Types DEF IInv, OrderRows
<1>2. \A q \in Orders : order'[q] = IF q = o THEN x ELSE order[q]
  BY <1>1
<1>3. Standing(x.status) = "contested"
  BY DEF Standing
<1>4. Net - x.reduced = LeftOf(o) - n /\ n =< LeftOf(o)
  BY <1>1, NetAssumption DEF LeftOf, MayReduce
<1>5. \A q \in Orders :
        /\ Standing(order'[q].status) = IF q = o THEN "contested" ELSE StandingOf(q)
        /\ Net - order'[q].reduced = IF q = o THEN LeftOf(o) - n ELSE LeftOf(q)
  BY <1>2, <1>3, <1>4 DEF StandingOf, LeftOf
<1>6. /\ [q \in Orders |-> Standing(order'[q].status)]
           = [[q \in Orders |-> StandingOf(q)] EXCEPT ![o] = "contested"]
      /\ [q \in Orders |-> Net - order'[q].reduced]
           = [[q \in Orders |-> LeftOf(q)] EXCEPT ![o] = @ - n]
  BY <1>5
<1> QED  BY <1>4, <1>6 DEF MayReduce, StandingOf, LeftOf, Promise!Reduce

LEMMA SeenOrderStep ==
  ASSUME IInv, NEW o \in Orders, OrderStep(o) PROVE Promise!Next
<1>1. order \in [Orders -> OrderRows]
  BY Types DEF IInv
<1>2. CASE Deliver(o)
  BY <1>2, SeenDeliver DEF Promise!Next
<1>3. CASE Decide(o)
  BY <1>3, SeenDecide DEF Promise!Next
<1>4. ASSUME NEW n \in 1 .. Net, Award(o, n) PROVE Promise!Next
  <2> DEFINE x == [order[o] EXCEPT !.reduced = @ + n]
  <2>1. /\ x.status = order[o].status /\ x.reduced = order[o].reduced + n
        /\ order' = [order EXCEPT ![o] = x]
    BY <1>1, <1>4 DEF OrderRows, Award
  <2>2. /\ MayReduce(o, n) /\ order[o].status \in {"disputed", "refunded"}
        /\ UNCHANGED <<alloc, req, pi>>
    BY <1>4 DEF Award, ElsewhereThanOrders
  <2>3. n \in 0 .. Net
    OBVIOUS
  <2> HIDE DEF x
  <2>4. Promise!Reduce(o, n)
    BY <2>1, <2>2, <2>3, SeenReduce
  <2> QED  BY <2>3, <2>4 DEF Promise!Next
<1>5. ASSUME NEW n \in 0 .. Net, Refund(o, n) PROVE Promise!Next
  <2> DEFINE x == [status |-> "refunded", reduced |-> order[o].reduced + n]
  <2>1. /\ x.status = "refunded" /\ x.reduced = order[o].reduced + n
        /\ order' = [order EXCEPT ![o] = x]
    BY <1>5 DEF Refund
  <2>2. MayReduce(o, n) /\ UNCHANGED <<alloc, req, pi>>
    BY <1>5 DEF Refund, ElsewhereThanOrders
  <2> HIDE DEF x
  <2>3. Promise!Reduce(o, n)
    BY <2>1, <2>2, SeenReduce
  <2> QED  BY <2>3 DEF Promise!Next
<1> QED  BY <1>2, <1>3, <1>4, <1>5 DEF OrderStep

--------------------------------------------------------------------------------
(* The steps of a request: what it takes is what the promise finds due. *)
LEMMA PhaseIs ==
  /\ Phase("none") = "none" /\ Phase("paid") = "paid" /\ Phase("ended") = "ended"
  /\ \A st \in Open : Phase(st) = "open"
  BY DEF Phase, Open

LEMMA DueIsEligible ==
  ASSUME IInv PROVE Promise!Due = Eligible
<1>1. order \in [Orders -> OrderRows]
  BY Types DEF IInv
<1>2. \A o \in Orders : /\ Standing(order[o].status) = "due" <=> order[o].status = "completed"
                        /\ Net - order[o].reduced > 0 <=> order[o].reduced < Net
  BY <1>1, NetAssumption DEF OrderRows, Standing
<1> QED  BY <1>2 DEF Eligible, Promise!Due

LEMMA SeenRequestPayout ==
  ASSUME IInv, NEW r \in Requests, RequestPayout(r) PROVE Promise!Ask(r)
<1> DEFINE ls == [o \in Orders |-> IF o \in Eligible THEN Net - order[o].reduced ELSE 0]
<1>1. /\ req[r].status = "none" /\ Eligible # {}
      /\ req' = [req EXCEPT ![r].status = "requested", ![r].lines = ls]
      /\ alloc' = [o \in Orders |-> IF o \in Eligible THEN r ELSE alloc[o]]
      /\ UNCHANGED <<order, pi>>
  BY DEF RequestPayout
<1>2. req \in [Requests -> ReqRows]
  BY Types DEF IInv
<1>3. \A q \in Requests : /\ req'[q].status = IF q = r THEN "requested" ELSE req[q].status
                          /\ req'[q].lines = IF q = r THEN ls ELSE req[q].lines
  BY <1>1, <1>2 DEF ReqRows
<1>4. ls = [o \in Orders |-> IF o \in Eligible THEN [q \in Orders |-> LeftOf(q)][o] ELSE 0]
  BY DEF LeftOf
<1> HIDE DEF ls
<1>5. \A q \in Requests :
        Phase(req'[q].status) = IF q = r THEN "open" ELSE PhaseOf(q)
  BY <1>3, PhaseIs DEF PhaseOf, Open
<1>6. [q \in Requests |-> Phase(req'[q].status)]
        = [[q \in Requests |-> PhaseOf(q)] EXCEPT ![r] = "open"]
  BY <1>5
<1>7. [q \in Requests |-> req'[q].lines]
        = [[q \in Requests |-> req[q].lines] EXCEPT ![r] = ls]
  BY <1>3
<1>8. PhaseOf(r) = "none"
  BY <1>1, PhaseIs DEF PhaseOf
<1> QED
  BY <1>1, <1>4, <1>6, <1>7, <1>8, DueIsEligible DEF PhaseOf, LeftOf, Promise!Ask

LEMMA SeenOperate ==
  ASSUME IInv, NEW r \in Requests,
         NEW to \in {"under_review", "approved", "processing", "ended"}, Operate(r, to)
  PROVE  Promise!End(r) \/ UNCHANGED Promise!vars
<1>1. /\ req[r].status \in Open /\ req' = [req EXCEPT ![r].status = to]
      /\ alloc' = [o \in Orders |-> IF to = "ended" /\ alloc[o] = r THEN None ELSE alloc[o]]
      /\ UNCHANGED <<order, pi>>
  BY DEF Operate, MayFollow, Open
<1>2. req \in [Requests -> ReqRows] /\ alloc \in [Orders -> Requests \cup {None}]
  BY Types DEF IInv
<1>3. \A q \in Requests : /\ req'[q].status = IF q = r THEN to ELSE req[q].status
                          /\ req'[q].lines = req[q].lines
  BY <1>1, <1>2 DEF ReqRows
<1>4. PhaseOf(r) = "open"
  BY <1>1, PhaseIs DEF PhaseOf
<1>5. CASE to = "ended"
  <2>1. \A q \in Requests : Phase(req'[q].status) = IF q = r THEN "ended" ELSE PhaseOf(q)
    BY <1>3, <1>5, PhaseIs DEF PhaseOf
  <2>2. [q \in Requests |-> Phase(req'[q].status)]
          = [[q \in Requests |-> PhaseOf(q)] EXCEPT ![r] = "ended"]
    BY <2>1
  <2>3. [q \in Requests |-> req'[q].lines] = [q \in Requests |-> req[q].lines]
    BY <1>3
  <2>4. alloc' = [o \in Orders |-> IF alloc[o] = r THEN None ELSE alloc[o]]
    BY <1>1, <1>5
  <2> QED  BY <1>1, <1>4, <2>2, <2>3, <2>4 DEF PhaseOf, Promise!End
<1>6. CASE to # "ended"
  <2>1. Phase(to) = "open"
    BY <1>6, PhaseIs DEF Open
  <2>2. SameRequests
    BY <1>3, <1>4, <2>1 DEF SameRequests, PhaseOf
  <2>3. SameOrders
    BY <1>1, <1>2, <1>6 DEF SameOrders
  <2>4. SamePayments
    BY <1>1, PaymentsStay
  <2> QED  BY <2>2, <2>3, <2>4, SentForSame, SeenNothing
<1> QED  BY <1>5, <1>6

LEMMA ConfirmUnseen ==
  ASSUME IInv, NEW x \in Handlers, NEW answered \in BOOLEAN, Confirm(x, answered)
  PROVE  UNCHANGED Promise!vars
<1>1. /\ req' = [req EXCEPT ![hand[x].req].recon = hand[x].pay]
      /\ UNCHANGED <<order, alloc, pi>>
  BY DEF Confirm, At
<1>2. req \in [Requests -> ReqRows]
  BY Types DEF IInv
<1>3. SameRequests
  BY <1>1, <1>2 DEF SameRequests, PhaseOf, ReqRows
<1> QED  BY <1>1, <1>3, PaymentsStay, SentForSame, SeenNothing DEF SameOrders

(* A request is paid against a payment that was sent for it. *)
LEMMA SeenPay ==
  ASSUME IInv, NEW x \in Handlers, Pay(x) PROVE Promise!Next \/ UNCHANGED Promise!vars
<1> DEFINE r == hand[x].req
           p == hand[x].pay
<1>1. /\ hand[x].pc = "pay" /\ UNCHANGED <<order, alloc, pi>>
      /\ req' = IF CanPay(x) THEN [req EXCEPT ![r].status = "paid"] ELSE req
  BY DEF Pay, At
<1>2. CASE ~ CanPay(x)
  BY <1>1, <1>2, PaymentsStay, BooksUnseen
<1>3. CASE CanPay(x)
  <2>1. req \in [Requests -> ReqRows] /\ RightHand(hand[x])
    BY Types DEF IInv
  <2>2. r \in Requests /\ p \in Payments /\ pi[p].for = r /\ pi[p].sent > 0
    BY <1>1, <2>1 DEF RightHand, Paying, Sent, Final
  <2>3. req[r].status = "processing"
    BY <1>3 DEF CanPay
  <2>4. \A q \in Requests : /\ req'[q].status = IF q = r THEN "paid" ELSE req[q].status
                            /\ req'[q].lines = req[q].lines
    BY <1>1, <1>3, <2>1 DEF ReqRows
  <2> HIDE DEF r, p
  <2>5. \A q \in Requests : Phase(req'[q].status) = IF q = r THEN "paid" ELSE PhaseOf(q)
    BY <2>4, PhaseIs DEF PhaseOf
  <2>6. [q \in Requests |-> Phase(req'[q].status)]
          = [[q \in Requests |-> PhaseOf(q)] EXCEPT ![r] = "paid"]
    BY <2>5
  <2>7. [q \in Requests |-> req'[q].lines] = [q \in Requests |-> req[q].lines]
    BY <2>4
  <2>8. PhaseOf(r) = "open" /\ r \in SentFor
    BY <2>2, <2>3, PhaseIs DEF PhaseOf, Open, SentFor
  <2>9. SentFor' = SentFor
    BY <1>1, PaymentsStay, SentForSame
  <2>10. Promise!Pay(r)
    BY <1>1, <2>2, <2>6, <2>7, <2>8, <2>9 DEF PhaseOf, SentFor, Promise!Pay
  <2> QED  BY <2>2, <2>10 DEF Promise!Next
<1> QED  BY <1>2, <1>3

--------------------------------------------------------------------------------
(***************************************************************************)
(* Money goes only to a request that was made: an execution exists, and    *)
(* the lease is held for it, only of a request that is there.              *)
(***************************************************************************)
Asked ==
  \A r \in Requests :
    /\ exec[r].state = "none" => exec[r].pay = None /\ lane.req # r
    /\ req[r].status = "none" => exec[r].state = "none"

LEMMA AskedStays ==
  ASSUME Asked, UNCHANGED exec, lane' \in {lane, NoLease},
         \A r \in Requests : req[r].status # "none" => req'[r].status # "none"
  PROVE  Asked'
<1>1. \A r \in Requests : NoLease.req # r
  BY NoneAssumption DEF NoLease
<1> QED  BY <1>1 DEF Asked

LEMMA AskedAtBegin ==
  ASSUME IInv, Asked, NEW x \in Handlers, NEW r \in Requests, NEW answered \in BOOLEAN,
         Begin(x, r, answered)
  PROVE  Asked'
<1>1. /\ exec' = [exec EXCEPT ![r].state = IF @ = "none" THEN "initiating" ELSE @]
      /\ lane' = [holder |-> x, req |-> r] /\ req[r].status = "processing" /\ req' = req
  BY DEF Begin
<1>2. exec \in [Requests -> ExecRows]
  BY Types DEF IInv
<1>3. /\ \A q \in Requests : exec'[q].pay = exec[q].pay
      /\ \A q \in Requests \ {r} : exec'[q].state = exec[q].state
      /\ exec'[r].state # "none"
  BY <1>1, <1>2 DEF ExecRows
<1> QED  BY <1>1, <1>3 DEF Asked

LEMMA AskedAtUpdate ==
  ASSUME IInv, Asked, NEW x \in Handlers, NEW to \in Updates, NEW answered \in BOOLEAN,
         Update(x, to, answered)
  PROVE  Asked'
<1> DEFINE r == hand[x].req
<1>1. /\ lane = [holder |-> x, req |-> r] /\ lane' = lane /\ req' = req
      /\ exec' = [exec EXCEPT ![r] = [state |-> to, pay |-> hand[x].pay]]
      /\ hand[x].pc = to
  BY DEF Update, CanUpdate, At
<1>2. exec \in [Requests -> ExecRows] /\ RightHand(hand[x])
  BY Types DEF IInv
<1>3. r \in Requests
  BY <1>1, <1>2 DEF RightHand, Updates
<1>4. lane.req = r /\ to # "none"
  BY <1>1 DEF Updates
<1> HIDE DEF r
<1>5. \A q \in Requests \ {r} : exec'[q] = exec[q]
  BY <1>1, <1>2
<1>6. exec'[r].state = to
  BY <1>1, <1>2, <1>3
<1> QED  BY <1>1, <1>3, <1>4, <1>5, <1>6 DEF Asked

(* A request that was made stays one. *)
LEMMA RequestsStay ==
  ASSUME IInv,
         \/ UNCHANGED req
         \/ \E r \in Requests : RequestPayout(r)
         \/ \E r \in Requests, to \in {"under_review", "approved", "processing", "ended"} :
              Operate(r, to)
         \/ \E x \in Handlers : Pay(x) \/ Confirm(x, TRUE) \/ Confirm(x, FALSE)
  PROVE  \A r \in Requests : req[r].status # "none" => req'[r].status # "none"
<1>1. req \in [Requests -> ReqRows]
  BY Types DEF IInv
<1>2. ASSUME NEW r \in Requests, NEW to, to # "none", req' = [req EXCEPT ![r].status = to]
      PROVE  \A q \in Requests : req[q].status # "none" => req'[q].status # "none"
  BY <1>1, <1>2 DEF ReqRows
<1>3. ASSUME NEW r \in Requests, RequestPayout(r)
      PROVE  \A q \in Requests : req[q].status # "none" => req'[q].status # "none"
  BY <1>1, <1>3 DEF RequestPayout, ReqRows
<1>4. ASSUME NEW r \in Requests, NEW to \in {"under_review", "approved", "processing", "ended"},
             Operate(r, to)
      PROVE  \A q \in Requests : req[q].status # "none" => req'[q].status # "none"
  BY <1>2, <1>4 DEF Operate
<1>5. ASSUME NEW x \in Handlers, Pay(x)
      PROVE  \A q \in Requests : req[q].status # "none" => req'[q].status # "none"
  <2>1. hand[x].req \in Requests
    BY <1>5 DEF Pay, At, IInv, RightHand
  <2> QED  BY <1>2, <1>5, <2>1 DEF Pay
<1>6. ASSUME NEW x \in Handlers, NEW answered \in BOOLEAN, Confirm(x, answered)
      PROVE  \A q \in Requests : req[q].status # "none" => req'[q].status # "none"
  BY <1>1, <1>6 DEF Confirm, ReqRows
<1> QED  BY <1>3, <1>4, <1>5, <1>6

LEMMA AskedKeeps == IInv /\ Asked /\ [Next]_vars => Asked'
<1> SUFFICES ASSUME IInv, Asked, [Next]_vars PROVE Asked'
  OBVIOUS
<1>1. ASSUME NEW o \in Orders, OrderStep(o) PROVE Asked'
  <2>1. UNCHANGED <<exec, lane, req>>
    BY <1>1 DEF OrderStep, Deliver, Decide, Award, Refund, ElsewhereThanOrders
  <2> QED  BY <2>1, RequestsStay, AskedStays
<1>2. ASSUME NEW r \in Requests, RequestPayout(r) PROVE Asked'
  BY <1>2, RequestsStay, AskedStays DEF RequestPayout
<1>3. ASSUME NEW r \in Requests, Operator(r) PROVE Asked'
  <2>1. ASSUME NEW to \in {"under_review", "approved", "processing", "ended"}, Operate(r, to)
        PROVE  Asked'
    BY <2>1, RequestsStay, AskedStays DEF Operate
  <2>2. CASE CompleteOnly(r)
    BY <2>2, RequestsStay, AskedStays DEF CompleteOnly, books
  <2> QED  BY <1>3, <2>1, <2>2 DEF Operator
<1>4. ASSUME NEW x \in Handlers, Calls(x) \/ Step(x) \/ Fault(x) PROVE Asked'
  <2>1. ASSUME NEW r \in Requests, NEW answered \in BOOLEAN, Begin(x, r, answered) PROVE Asked'
    BY <2>1, AskedAtBegin
  <2>2. ASSUME NEW to \in Updates, NEW answered \in BOOLEAN, Update(x, to, answered)
        PROVE  Asked'
    BY <2>2, AskedAtUpdate
  <2>3. CASE Pay(x)
    BY <2>3, RequestsStay, AskedStays DEF Pay, At
  <2>4. ASSUME NEW answered \in BOOLEAN, Confirm(x, answered) PROVE Asked'
    <3>1. UNCHANGED <<exec, lane>>
      BY <2>4 DEF Confirm
    <3>2. \A r \in Requests : req[r].status # "none" => req'[r].status # "none"
      BY <2>4, RequestsStay
    <3> QED  BY <3>1, <3>2, AskedStays
  <2>5. CASE UNCHANGED <<exec, req>> /\ lane' \in {lane, NoLease}
    BY <2>5, RequestsStay, AskedStays
  <2>6. CASE Calls(x)
    <3>1. ASSUME NEW r \in Requests, NEW p \in Payments, Reconcile(x, r, p)
          PROVE  UNCHANGED <<exec, req, lane>>
      BY <3>1 DEF Reconcile
    <3> QED  BY <2>1, <2>5, <2>6, <3>1 DEF Calls
  <2>7. CASE Step(x)
    <3>1. ASSUME \/ Find(x) \/ Create(x, TRUE) \/ Read(x) \/ Submit(x, TRUE)
                 \/ Complete(x, TRUE) \/ PiRefuses(x) \/ ConfirmRefused(x) \/ Release(x)
                 \/ \E to \in Updates : UpdateRefused(x, to)
          PROVE  UNCHANGED <<exec, req>> /\ lane' \in {lane, NoLease}
      BY <3>1 DEF Find, Create, Read, Submit, Complete, PiRefuses, ConfirmRefused, Release,
                  UpdateRefused, books
    <3> QED  BY <2>2, <2>3, <2>4, <2>5, <2>7, <3>1 DEF Step
  <2>8. CASE Fault(x)
    <3>1. ASSUME Create(x, FALSE) \/ Submit(x, FALSE) \/ Complete(x, FALSE) \/ Fail(x) \/ Crash(x)
          PROVE  UNCHANGED <<exec, req, lane>>
      BY <3>1 DEF Create, Submit, Complete, Fail, Crash, books
    <3> QED  BY <2>1, <2>2, <2>4, <2>5, <2>8, <3>1 DEF Fault
  <2> QED  BY <1>4, <2>6, <2>7, <2>8
<1>5. CASE Lapse
  BY <1>5, RequestsStay, AskedStays DEF Lapse, books
<1>6. CASE Pi \/ UNCHANGED vars
  <2>1. UNCHANGED <<exec, lane, req>>
    BY <1>6 DEF Pi, PiVerify, PiCancel, PiForget, books, vars
  <2> QED  BY <2>1, RequestsStay, AskedStays
<1> QED  BY <1>1, <1>2, <1>3, <1>4, <1>5, <1>6 DEF Next

--------------------------------------------------------------------------------
(* A payment is submitted: the first money of its request, or nothing new. *)
LEMMA SeenSubmit ==
  ASSUME IInv, Asked, NEW x \in Handlers, NEW answered \in BOOLEAN, Submit(x, answered)
  PROVE  Promise!Next \/ UNCHANGED Promise!vars
<1> USE NoneAssumption
<1>1. /\ hand[x].pc = "submit" /\ pi' = [pi EXCEPT ![hand[x].pay].sent = @ + 1]
      /\ UNCHANGED <<order, alloc, req>>
  BY DEF Submit, books
<1>2. /\ req \in [Requests -> ReqRows] /\ pi \in [Payments -> PiRecords]
      /\ RightHand(hand[x])
  BY Types DEF IInv
<1>3. PICK r \in Requests, p \in Payments :
        p = hand[x].pay /\ pi[p].for = r /\ exec[r].pay = p
  BY <1>1, <1>2 DEF RightHand, Paying, Recorded
<1>4. /\ \A q \in Payments : pi'[q].for = pi[q].for
      /\ \A q \in Payments \ {p} : pi'[q].sent = pi[q].sent
      /\ pi'[p].sent > 0
  BY <1>1, <1>2, <1>3 DEF PiRecords
<1>5. SentFor' = SentFor \cup {r}
  <2>1. \A q \in Requests :
          (\E w \in Payments : pi'[w].for = q /\ pi'[w].sent > 0)
            <=> (\E w \in Payments : pi[w].for = q /\ pi[w].sent > 0) \/ q = r
    BY <1>3, <1>4
  <2> QED  BY <1>3, <2>1 DEF SentFor
<1>6. SameOrders /\ SameRequests
  BY <1>1 DEF SameOrders, SameRequests, PhaseOf
<1>7. CASE r \in SentFor
  BY <1>5, <1>6, <1>7, SeenNothing
<1>8. CASE r \notin SentFor
  <2>1. req[r].status # "none"
    BY <1>3 DEF Asked
  <2>2. req[r].status # "paid"
    <3>1. ASSUME req[r].status = "paid" PROVE r \in SentFor
      <4>1. req[r].recon \in Payments
        BY <1>2, <1>3, <3>1 DEF IInv, RightEvidence, ReqRows
      <4>2. pi[req[r].recon].for = r /\ pi[req[r].recon].sent > 0
        BY <1>3, <3>1 DEF IInv, RightEvidence
      <4> QED  BY <1>3, <4>1, <4>2 DEF SentFor
    <3> QED  BY <1>8, <3>1
  <2>3. PhaseOf(r) \in {"open", "ended"}
    BY <1>2, <1>3, <2>1, <2>2, PhaseIs DEF PhaseOf, ReqRows
  <2>4. /\ [q \in Requests |-> Phase(req'[q].status)] = [q \in Requests |-> PhaseOf(q)]
        /\ [q \in Requests |-> req'[q].lines] = [q \in Requests |-> req[q].lines]
    BY <1>6 DEF SameRequests
  <2>5. [q \in Requests |-> Phase(req[q].status)][r] \in {"open", "ended"}
    BY <1>3, <2>3 DEF PhaseOf
  <2>6. /\ order' = order /\ alloc' = alloc
        /\ [q \in Requests |-> Phase(req'[q].status)] = [q \in Requests |-> Phase(req[q].status)]
    BY <1>1, <2>4 DEF PhaseOf
  <2>7. Promise!Send(r)
    BY <1>5, <2>4, <2>5, <2>6 DEF SentFor, Promise!Send
  <2> QED  BY <1>3, <2>7 DEF Promise!Next
<1> QED  BY <1>7, <1>8

(* What else happens to payments sends nothing. *)
LEMMA PaymentsUnseen ==
  ASSUME IInv,
         \/ \E p \in Payments : PiVerify(p) \/ PiCancel(p) \/ PiForget(p)
         \/ \E r \in Requests : CompleteOnly(r)
         \/ \E x \in Handlers, answered \in BOOLEAN :
              Create(x, answered) \/ Complete(x, answered)
  PROVE  UNCHANGED Promise!vars
<1>1. pi \in [Payments -> PiRecords]
  BY Types DEF IInv
<1>2. UNCHANGED <<order, alloc, req>>
  BY DEF PiVerify, PiCancel, PiForget, CompleteOnly, Create, Complete, At, books
<1>3. ASSUME NEW p \in Payments, PiVerify(p) PROVE SamePayments
  BY <1>1, <1>3 DEF PiVerify, SamePayments, PiRecords
<1>4. ASSUME NEW p \in Payments, PiCancel(p) PROVE SamePayments
  BY <1>1, <1>4 DEF PiCancel, SamePayments, PiRecords
<1>5. ASSUME NEW p \in Payments, PiForget(p) PROVE SamePayments
  <2>1. pi[p].sent = 0
    BY <1>1, <1>5 DEF PiForget, IInv, RightPayment, PiRecords
  <2>2. Unused.sent = 0
    BY DEF Unused
  <2> QED  BY <1>1, <1>5, <2>1, <2>2 DEF PiForget, SamePayments
<1>6. ASSUME NEW p, pi' = [pi EXCEPT ![p].completed = TRUE] PROVE SamePayments
  BY <1>1, <1>6 DEF SamePayments, PiRecords
<1>7. ASSUME NEW r \in Requests, CompleteOnly(r) PROVE SamePayments
  BY <1>6, <1>7 DEF CompleteOnly
<1>8. ASSUME NEW x \in Handlers, NEW answered \in BOOLEAN, Complete(x, answered)
      PROVE  SamePayments
  BY <1>6, <1>8 DEF Complete
<1>9. ASSUME NEW x \in Handlers, NEW answered \in BOOLEAN, Create(x, answered)
      PROVE  SamePayments
  <2>1. PICK p \in Payments :
          /\ pi[p] = Unused
          /\ pi' = [pi EXCEPT ![p] = [Unused EXCEPT !.for = hand[x].req, !.state = "open"]]
    BY <1>9 DEF Create
  <2> DEFINE n == [Unused EXCEPT !.for = hand[x].req, !.state = "open"]
  <2>2. Unused.sent = 0 /\ n.sent = 0
    BY DEF Unused
  <2>3. pi' = [pi EXCEPT ![p] = n]
    BY <2>1
  <2> HIDE DEF n
  <2>4. \A q \in Payments : pi'[q] = IF q = p THEN n ELSE pi[q]
    BY <1>1, <2>3
  <2> QED  BY <2>1, <2>2, <2>4 DEF SamePayments
<1>10. SamePayments
  BY <1>3, <1>4, <1>5, <1>7, <1>8, <1>9
<1> QED  BY <1>2, <1>10, BooksUnseen

(***************************************************************************)
(* Every step of an order, a request, a route, the operator or Pi is one   *)
(* of SellerPromise or is not seen there: a request asks for what is due   *)
(* and nobody holds, and is paid only against money that was sent for it.  *)
(***************************************************************************)
LEMMA StepIsPromised ==
  IInv /\ Asked /\ [Next]_vars => [Promise!Next]_(Promise!vars)
<1> SUFFICES ASSUME IInv, Asked, [Next]_vars
             PROVE  Promise!Next \/ UNCHANGED Promise!vars
  OBVIOUS
<1>1. ASSUME NEW o \in Orders, OrderStep(o) PROVE Promise!Next
  BY <1>1, SeenOrderStep
<1>2. ASSUME NEW r \in Requests, RequestPayout(r) PROVE Promise!Next
  BY <1>2, SeenRequestPayout DEF Promise!Next
<1>3. ASSUME NEW r \in Requests, Operator(r) PROVE Promise!Next \/ UNCHANGED Promise!vars
  <2>1. ASSUME NEW to \in {"under_review", "approved", "processing", "ended"}, Operate(r, to)
        PROVE  Promise!Next \/ UNCHANGED Promise!vars
    BY <2>1, SeenOperate DEF Promise!Next
  <2> QED  BY <1>3, <2>1, PaymentsUnseen DEF Operator
<1>4. CASE UNCHANGED <<order, alloc, req, pi>>
  BY <1>4, PaymentsStay, BooksUnseen
<1>5. ASSUME NEW x \in Handlers, Calls(x)
      PROVE  UNCHANGED <<order, alloc, req, pi>>
  BY <1>5 DEF Calls, Begin, Reconcile, At
<1>6. ASSUME NEW x \in Handlers, Step(x) PROVE Promise!Next \/ UNCHANGED Promise!vars
  <2>1. ASSUME \/ Find(x) \/ Read(x) \/ PiRefuses(x) \/ ConfirmRefused(x) \/ Release(x)
               \/ \E to \in Updates : Update(x, to, TRUE) \/ UpdateRefused(x, to)
        PROVE  UNCHANGED <<order, alloc, req, pi>>
    BY <2>1 DEF Find, Read, PiRefuses, ConfirmRefused, Release, Update, UpdateRefused, At
  <2> QED
    BY <1>4, <1>6, <2>1, PaymentsUnseen, SeenSubmit, ConfirmUnseen, SeenPay DEF Step
<1>7. ASSUME NEW x \in Handlers, Fault(x) PROVE Promise!Next \/ UNCHANGED Promise!vars
  <2>1. ASSUME \/ \E r \in Requests : Begin(x, r, FALSE)
               \/ \E to \in Updates : Update(x, to, FALSE)
               \/ Fail(x) \/ Crash(x)
        PROVE  UNCHANGED <<order, alloc, req, pi>>
    BY <2>1 DEF Begin, Update, Fail, Crash, At
  <2> QED  BY <1>4, <1>7, <2>1, PaymentsUnseen, SeenSubmit, ConfirmUnseen DEF Fault
<1>8. CASE Lapse \/ UNCHANGED vars
  <2>1. UNCHANGED <<order, alloc, req, pi>>
    BY <1>8 DEF Lapse, books, vars
  <2> QED  BY <1>4, <2>1
<1>9. CASE Pi
  BY <1>9, PaymentsUnseen DEF Pi
<1> QED  BY <1>1, <1>2, <1>3, <1>4, <1>5, <1>6, <1>7, <1>8, <1>9 DEF Next

(***************************************************************************)
(* Whatever crashes, goes unanswered or is retried, whenever a lease runs  *)
(* out and the operator steps in, the functions and routes of the payout   *)
(* of a seller implement the promise, for any number of orders, requests,  *)
(* handlers and payments.                                                  *)
(***************************************************************************)
THEOREM SellersKeepPromise == Spec => PromiseKept
<1>1. Init => Promise!Init
  <2> SUFFICES ASSUME Init PROVE Promise!Init
    OBVIOUS
  <2>1. \A o \in Orders : order[o].status = "fulfilling" /\ order[o].reduced = 0
    BY DEF Init
  <2>2. \A o \in Orders : Standing(order[o].status) = "coming" /\ Net - order[o].reduced = Net
    BY <2>1, NetAssumption DEF Standing
  <2>3. \A r \in Requests : /\ Phase(req[r].status) = "none"
                            /\ req[r].lines = [o \in Orders |-> 0]
    BY PhaseIs DEF Init
  <2>4. alloc = [o \in Orders |-> None]
    BY DEF Init
  <2>5. {r \in Requests : \E p \in Payments : pi[p].for = r /\ pi[p].sent > 0} = {}
    BY DEF Init, Unused
  <2> QED  BY <2>2, <2>3, <2>4, <2>5 DEF Promise!Init
<1>2. Init => Asked
  BY NoneAssumption DEF Init, Asked, NoLease
<1>3. Spec => []Asked
  BY <1>2, IInvHolds, AskedKeeps, PTL DEF Spec
<1> QED  BY <1>1, <1>3, IInvHolds, StepIsPromised, PTL DEF Spec, PromiseKept, Promise!Spec
================================================================================
