------------------------- MODULE PaymentIntent_proofs --------------------------
(***************************************************************************)
(* The safety properties of PaymentIntent, for any number of intents,      *)
(* payments and handlers.                                                  *)
(*                                                                         *)
(* The inductive invariant says what a handler still knows to be true when *)
(* it takes its next step.  It may go by what it has read because the rest *)
(* of the system only moves forward (Forward): a binding, a paid status    *)
(* and what Pi has recorded of a payment are never undone.  So for every   *)
(* step it is enough to look at the handler that takes it.                 *)
(*                                                                         *)
(* The predicates take the rows I and the payments P as parameters, so     *)
(* that the same lemma serves before and after a step.                     *)
(***************************************************************************)
EXTENDS PaymentIntent, TLAPS

(* AmountsMatch, of the payments P. *)
AmountOf(t, P) == t.row \in P[t.pay].fits

(* What Pi has recorded of a payment, and which row the server will recognise it by. *)
PiOK(p, I, P) ==
  /\ P[p].asked => p \in P[p].fits
  /\ ~ P[p].asked => P[p] = Unused
  /\ P[p].approved => \E r \in Rows : /\ I[r].pay = p
                                      /\ r \in P[p].fits \/ I[r].status \in Late
  /\ P[p].tx => P[p].approved
  /\ P[p].completed => P[p].tx

(* What a row says of the payment bound to it. *)
RowOK(r, I, P) ==
  /\ I[r].status = "none" => I[r].pay = None
  /\ I[r].pay # None => /\ I[r].pay \in Payments
                        /\ \A s \in Rows \ {r} : I[s].pay # I[r].pay
  /\ I[r].status \in UnderWay \cup Paid => I[r].pay # None
  /\ I[r].status \in {"APPROVED", "USER_SUBMITTED"} \cup Paid => r \in P[I[r].pay].fits
  /\ I[r].status \in Paid => P[I[r].pay].completed

(* What a handler knows when it takes its next step. *)
Knows(t, I, P) ==
  /\ t.pc # "idle"
  /\ t.row # None \/ (t.pc = "lookup" /\ t.route = "incomplete")
  /\ IF t.route = "cancel" THEN t.pc = "toCancelled" ELSE t.pay \in Payments
  /\ \/ t.route = "approve" /\ t.pc = "lookup"
     \/ t.route = "complete" /\ t.pc \in {"lookup", "piComplete", "stayCompleting"}
     \/ t.pc = "piApprove"
     => I[t.row].pay = t.pay
  /\ t.route = "fulfill" /\ t.pc = "lookup" => I[t.row].status \in Paid
  /\ t.pc = "toPending" => t.route = "approve"
  /\ t.pc = "stayCompleting" => t.route = "complete"
  /\ t.pc = "piApprove" /\ t.route # "approve" =>
       AmountOf(t, P) \/ I[t.row].status \in Late \cup Paid
  /\ \/ t.pc \in {"toApproved", "piComplete", "toCompleted"}
     \/ t.pc = "piApprove" /\ t.route = "approve"
     \/ t.pc = "toCompleting" /\ t.route # "complete"
     => AmountOf(t, P)
  /\ t.pc = "toCompleted" => P[t.pay].completed
  /\ t.pc \in {"toFulfilled", "grant"} => I[t.row].status \in Paid
  /\ t.pc = "shell" => t.row = t.pay /\ P[t.pay].asked
  /\ t.pc \in {"shell", "bind"} =>
       /\ t.then \in {"toPending", "lookup", "toCompleting", "toCompleted", "toFailed",
                      "toIncomplete"}
       /\ t.then = "toPending" => t.route = "approve"
       /\ t.then = "lookup" => t.route \in {"recover", "recoverEarly"}
       /\ t.then = "toCompleting" => t.route = "complete" \/ AmountOf(t, P)
       /\ t.then = "toCompleted" => AmountOf(t, P) /\ P[t.pay].completed

Consistent(I, P) ==
  /\ \A p \in Payments : PiOK(p, I, P)
  /\ \A r \in Rows : RowOK(r, I, P)

IInv ==
  /\ TypeOK
  /\ Consistent(intent, pi)
  /\ \A h \in Handlers : hand[h] = Idle \/ Knows(hand[h], intent, pi)
  /\ \A i \in Intents : granted[i] => intent[i].status \in Paid

(* What is never undone. *)
Forward(I, P, J, Q) ==
  /\ \A r \in Rows : /\ I[r].pay # None => J[r].pay = I[r].pay
                     /\ I[r].status \in Paid => J[r].status \in Paid
                     /\ I[r].status \in Closed => J[r].status = I[r].status
                     /\ I[r].status \in Late => J[r].status \in Late \cup Paid
  /\ \A p \in Payments :
       /\ P[p].asked => Q[p].asked
       /\ P[p].fits \subseteq Q[p].fits
       /\ P[p].approved => Q[p].approved
       /\ P[p].tx => Q[p].tx
       /\ P[p].completed => Q[p].completed

States(I, P) == I \in [Rows -> Row] /\ P \in [Payments -> Payment]

--------------------------------------------------------------------------------
(* A handler's knowledge survives every step forward. *)
LEMMA KnowsForward ==
  ASSUME NEW I, NEW P, NEW J, NEW Q, States(I, P), States(J, Q), Forward(I, P, J, Q),
         NEW t \in Handler, Knows(t, I, P)
  PROVE  Knows(t, J, Q)
<1> USE SetsAssumption DEF Rows
<1>1. t.route # "cancel" => /\ P[t.pay].asked => Q[t.pay].asked
                            /\ P[t.pay].completed => Q[t.pay].completed
                            /\ AmountOf(t, P) => AmountOf(t, Q)
  BY DEF Knows, Forward, AmountOf
<1>2. t.route # "cancel" /\ t.row # None =>
        /\ I[t.row].pay = t.pay => J[t.row].pay = t.pay
        /\ I[t.row].status \in Paid => J[t.row].status \in Paid
        /\ I[t.row].status \in Late => J[t.row].status \in Late \cup Paid
  BY DEF Knows, Forward, Handler
<1>. QED BY <1>1, <1>2 DEF Knows

(* A handler that is not answered, or is refused, knows what it needs to go on. *)
LEMMA KnowsIfNot ==
  ASSUME NEW I, NEW P, NEW t \in Handler, Knows(t, I, P), IfNot(t) # "done"
  PROVE  /\ [t EXCEPT !.pc = IfNot(t)] \in Handler
         /\ Knows([t EXCEPT !.pc = IfNot(t)], I, P)
<1> DEFINE n == [t EXCEPT !.pc = IfNot(t)]
<1>1. IfNot(t) \in {"toIncomplete", "toFulfilled", "grant", "toFailed", "stayCompleting"}
  BY DEF IfNot
<1>2. n \in Handler
  BY <1>1 DEF Handler, Places, Transitions
<1>3. /\ n.row = t.row /\ n.pay = t.pay /\ n.route = t.route /\ n.then = t.then
      /\ n.pc = IfNot(t)
  BY DEF Handler
<1>4. t.row # None
  BY DEF IfNot, Knows
<1>5. t.route # "cancel"
  BY DEF IfNot, Knows
<1>6. IfNot(t) \in {"toFulfilled", "grant"} => I[t.row].status \in Paid
  BY DEF IfNot, Knows
<1>7. IfNot(t) = "stayCompleting" => t.route = "complete" /\ I[t.row].pay = t.pay
  BY DEF IfNot, Knows
<1>8. Knows(n, I, P)
  <2> HIDE DEF n
  <2>. QED BY <1>1, <1>3, <1>4, <1>5, <1>6, <1>7 DEF Knows
<1>. QED BY <1>2, <1>8

(* A step that changes only what one handler does next. *)
LEMMA HandOnly ==
  ASSUME IInv, NEW h \in Handlers, NEW n,
         n = Idle \/ (n \in Handler /\ Knows(n, intent, pi)),
         hand' = [hand EXCEPT ![h] = n], UNCHANGED <<intent, granted, pi>>
  PROVE  IInv'
<1>1. Idle \in Handler
  BY DEF Idle, Handler, Routes, Places
<1>2. TypeOK'
  BY <1>1 DEF IInv, TypeOK
<1>3. \A k \in Handlers : hand'[k] = Idle \/ Knows(hand'[k], intent', pi')
  BY DEF IInv, TypeOK
<1>. QED BY <1>2, <1>3 DEF IInv

(* A step of one handler, or of none, that also moves rows or payments forward. *)
LEMMA Effect ==
  ASSUME IInv, States(intent', pi'), granted' \in [Intents -> BOOLEAN],
         Forward(intent, pi, intent', pi'), Consistent(intent', pi'),
         \A i \in Intents : granted'[i] => granted[i] \/ intent'[i].status \in Paid,
         \/ hand' = hand
         \/ \E h \in Handlers, n \in Handler :
              /\ n = Idle \/ Knows(n, intent', pi')
              /\ hand' = [hand EXCEPT ![h] = n]
  PROVE  IInv'
<1>1. TypeOK'
  BY DEF IInv, TypeOK, States
<1>2. \A k \in Handlers : hand[k] = Idle \/ Knows(hand[k], intent', pi')
  BY KnowsForward DEF IInv, TypeOK, States
<1>3. \A k \in Handlers : hand'[k] = Idle \/ Knows(hand'[k], intent', pi')
  BY <1>2 DEF IInv, TypeOK
<1>4. \A i \in Intents : granted'[i] => intent'[i].status \in Paid
  BY DEF IInv, Forward, Rows
<1>. QED BY <1>1, <1>3, <1>4 DEF IInv

--------------------------------------------------------------------------------
(* Handlers start with what they have read. *)
LEMMA StartKeepsInv ==
  ASSUME IInv, NEW h \in Handlers, NEW route \in Routes, NEW r \in Rows \cup {None},
         NEW p \in Payments \cup {None}, NEW pc \in Places,
         NEW then \in Transitions \cup {"lookup", "piApprove", "done"},
         Start(h, route, r, p, pc, then),
         Knows([route |-> route, pc |-> pc, row |-> r, pay |-> p, then |-> then], intent, pi)
  PROVE  IInv'
<1> DEFINE n == [route |-> route, pc |-> pc, row |-> r, pay |-> p, then |-> then]
<1>1. n \in Handler
  BY DEF Handler
<1>2. hand' = [hand EXCEPT ![h] = n] /\ UNCHANGED <<intent, granted, pi>>
  BY DEF Start
<1>. QED BY <1>1, <1>2, HandOnly

(* The starts of approve, complete, incomplete and recover. *)
LEMMA StartsKeepInv ==
  ASSUME IInv, NEW h \in Handlers, NEW p \in Payments,
         \/ \E r \in Rows : \/ Approve(h, r, p) \/ Complete(h, r, p)
                           \/ Incomplete(h, r, p) \/ Recover(h, r, p)
         \/ IncompleteUnknown(h, p)
  PROVE  IInv'
<1> USE SetsAssumption DEF Rows, Routes, Places, Transitions
<1>1. CASE \E r \in Rows : Approve(h, r, p)
  <2>1. PICK r \in Rows : Approve(h, r, p)
    BY <1>1
  <2>2. intent[r].status \in UnderWay =>
          /\ intent[r].pay # None
          /\ r \in pi[intent[r].pay].fits \/ intent[r].status \in Late
    BY DEF IInv, Consistent, RowOK, UnderWay, Late
  <2>3. CASE intent[r].status \in UnderWay /\ intent[r].pay = p
                /\ Start(h, "reapprove", r, p, "piApprove", "done")
    <3>1. Knows([route |-> "reapprove", pc |-> "piApprove", row |-> r, pay |-> p, then |-> "done"],
                intent, pi)
      BY <2>2, <2>3 DEF Knows, AmountOf
    <3>. QED BY <2>3, <3>1, StartKeepsInv
  <2>4. CASE Start(h, "approve", r, p, "bind", "toPending")
    <3>1. Knows([route |-> "approve", pc |-> "bind", row |-> r, pay |-> p, then |-> "toPending"],
                intent, pi)
      BY DEF Knows
    <3>. QED BY <2>4, <3>1, StartKeepsInv
  <2>5. CASE Start(h, "approve", r, p, "toFailed", "done")
    <3>1. Knows([route |-> "approve", pc |-> "toFailed", row |-> r, pay |-> p, then |-> "done"],
                intent, pi)
      BY DEF Knows
    <3>. QED BY <2>5, <3>1, StartKeepsInv
  <2>. QED BY <2>1, <2>2, <2>3, <2>4, <2>5 DEF Approve
<1>2. CASE \E r \in Rows : Complete(h, r, p)
  <2>1. PICK r \in Rows : Complete(h, r, p)
    BY <1>2
  <2>2. CASE intent[r].status \in Paid /\ Start(h, "complete", r, p, "grant", "done")
    <3>1. Knows([route |-> "complete", pc |-> "grant", row |-> r, pay |-> p, then |-> "done"],
                intent, pi)
      BY <2>2 DEF Knows
    <3>. QED BY <2>2, <3>1, StartKeepsInv
  <2>3. CASE Start(h, "complete", r, p, "bind", "toCompleting")
    <3>1. Knows([route |-> "complete", pc |-> "bind", row |-> r, pay |-> p,
                 then |-> "toCompleting"], intent, pi)
      BY DEF Knows
    <3>. QED BY <2>3, <3>1, StartKeepsInv
  <2>. QED BY <2>1, <2>2, <2>3 DEF Complete
<1>3. CASE \E r \in Rows : Incomplete(h, r, p)
  <2>1. PICK r \in Rows : Incomplete(h, r, p)
    BY <1>3
  <2>2. Knows([route |-> "incomplete", pc |-> "lookup", row |-> r, pay |-> p, then |-> "done"],
              intent, pi)
    BY DEF Knows
  <2>. QED BY <2>1, <2>2, StartKeepsInv DEF Incomplete
<1>4. CASE \E r \in Rows : Recover(h, r, p)
  <2>1. PICK r \in Rows : Recover(h, r, p)
    BY <1>4
  <2>2. CASE intent[r].status \in Paid /\ Start(h, "recover", r, p, "grant", "done")
    <3>1. Knows([route |-> "recover", pc |-> "grant", row |-> r, pay |-> p, then |-> "done"],
                intent, pi)
      BY <2>2 DEF Knows
    <3>. QED BY <2>2, <3>1, StartKeepsInv
  <2>3. ASSUME NEW route \in {"recover", "recoverEarly"}, Start(h, route, r, p, "bind", "lookup")
        PROVE  IInv'
    <3>1. Knows([route |-> route, pc |-> "bind", row |-> r, pay |-> p, then |-> "lookup"],
                intent, pi)
      BY DEF Knows
    <3>. QED BY <2>3, <3>1, StartKeepsInv
  <2>. QED BY <2>1, <2>2, <2>3 DEF Recover
<1>5. CASE IncompleteUnknown(h, p)
  <2>1. Knows([route |-> "incomplete", pc |-> "lookup", row |-> None, pay |-> p, then |-> "done"],
              intent, pi)
    BY DEF Knows
  <2>. QED BY <1>5, <2>1, StartKeepsInv DEF IncompleteUnknown
<1>. QED BY <1>1, <1>2, <1>3, <1>4, <1>5

(* The starts of cancel and fulfill. *)
LEMMA CancelFulfillKeepInv ==
  ASSUME IInv, NEW h \in Handlers, NEW r \in Rows, Cancel(h, r) \/ Fulfill(h, r)
  PROVE  IInv'
<1> USE SetsAssumption DEF Rows, Routes, Places, Transitions
<1>1. CASE Cancel(h, r)
  <2>1. Knows([route |-> "cancel", pc |-> "toCancelled", row |-> r, pay |-> None, then |-> "done"],
              intent, pi)
    BY DEF Knows
  <2>. QED BY <1>1, <2>1, StartKeepsInv DEF Cancel
<1>2. CASE Fulfill(h, r)
  <2>1. intent[r].status \in Paid
    BY <1>2 DEF Fulfill, Fulfillable, Paid
  <2>2. intent[r].pay \in Payments
    BY <2>1 DEF IInv, Consistent, RowOK
  <2>3. \A pc \in {"lookup", "grant"} :
          Knows([route |-> "fulfill", pc |-> pc, row |-> r, pay |-> intent[r].pay,
                 then |-> "done"], intent, pi)
    BY <2>1, <2>2 DEF Knows
  <2>. QED BY <1>2, <2>2, <2>3, StartKeepsInv DEF Fulfill
<1>. QED BY <1>1, <1>2

--------------------------------------------------------------------------------
(* A handler that is under way knows what it knows. *)
LEMMA Active ==
  ASSUME IInv, NEW h \in Handlers, hand[h].pc # "idle"
  PROVE  hand[h] \in Handler /\ Knows(hand[h], intent, pi)
BY DEF IInv, TypeOK, Idle

(* A handler that only goes to another place. *)
LEMMA GotoKeepsInv ==
  ASSUME IInv, NEW h \in Handlers, NEW pc \in Places \cup {"done"}, Goto(h, pc),
         pc # "done" => Knows([hand[h] EXCEPT !.pc = pc], intent, pi),
         UNCHANGED <<intent, granted, pi>>
  PROVE  IInv'
<1> DEFINE n == IF pc = "done" THEN Idle ELSE [hand[h] EXCEPT !.pc = pc]
<1>1. hand' = [hand EXCEPT ![h] = n]
  BY DEF IInv, TypeOK, Goto
<1>2. n = Idle \/ (n \in Handler /\ Knows(n, intent, pi))
  BY DEF IInv, TypeOK, Handler
<1>. QED BY <1>1, <1>2, HandOnly

(* Where a handler goes when it is not answered is a place. *)
LEMMA PlacesOfIfNot ==
  ASSUME NEW t PROVE IfNot(t) \in Places \cup {"done"}
BY DEF IfNot, Places, Transitions

(* A call that is refused or fails, and a crash, move one handler only. *)
LEMMA FaultsKeepInv ==
  ASSUME IInv, NEW h \in Handlers, Refused(h) \/ Fail(h) \/ Crash(h)
  PROVE  IInv'
<1>1. CASE Refused(h) \/ Fail(h)
  <2>1. hand[h].pc # "idle"
    BY <1>1 DEF Refused, Fail, Transitions
  <2>2. Goto(h, IfNot(hand[h])) /\ UNCHANGED <<intent, granted, pi>>
    BY <1>1 DEF Refused, Fail
  <2>3. hand[h] \in Handler /\ Knows(hand[h], intent, pi)
    BY <2>1, Active
  <2>4. IfNot(hand[h]) # "done" =>
          Knows([hand[h] EXCEPT !.pc = IfNot(hand[h])], intent, pi)
    BY <2>3, KnowsIfNot
  <2>. QED BY <2>2, <2>4, PlacesOfIfNot, GotoKeepsInv
<1>2. CASE Crash(h)
  BY <1>2, GotoKeepsInv DEF Crash
<1>. QED BY <1>1, <1>2

(* What a handler learns from Pi is so when it learns it. *)
LEMMA LookupsKeepInv ==
  ASSUME IInv, NEW h \in Handlers,
         VerifyAmount(h) \/ Reconcile(h) \/ Resume(h) \/ ConfirmNotCancelled(h)
  PROVE  IInv'
<1> USE SetsAssumption DEF Rows
<1> DEFINE t == hand[h]
<1>1. t.pc = "lookup" /\ UNCHANGED <<intent, granted, pi>>
  BY DEF VerifyAmount, Reconcile, Resume, ConfirmNotCancelled, Looks
<1>2. t \in Handler /\ Knows(t, intent, pi)
  BY <1>1, Active
<1>3. t.route # "cancel" /\ t.pay \in Payments /\ pi[t.pay].asked
  BY <1>1, <1>2 DEF Knows, VerifyAmount, Reconcile, Resume, ConfirmNotCancelled, Looks
<1>4. \A pc \in STRING : /\ [t EXCEPT !.pc = pc].pc = pc
                         /\ [t EXCEPT !.pc = pc].row = t.row
                         /\ [t EXCEPT !.pc = pc].pay = t.pay
                         /\ [t EXCEPT !.pc = pc].route = t.route
  BY <1>2 DEF Handler
<1>5. t.pay \in pi[t.pay].fits
  BY <1>3 DEF IInv, Consistent, PiOK
<1>6. CASE VerifyAmount(h)
  <2>1. t.row # None /\ intent[t.row].pay = t.pay
    BY <1>1, <1>2, <1>6 DEF VerifyAmount, Looks, Knows
  <2>2. CASE Goto(h, "toFailed")
    <3>1. Knows([t EXCEPT !.pc = "toFailed"], intent, pi)
      BY <1>2, <1>3, <1>4, <2>1 DEF Knows
    <3>. QED BY <1>1, <2>2, <3>1, GotoKeepsInv DEF Places, Transitions
  <2>3. CASE AmountsMatch(t) /\ t.route = "approve" /\ Goto(h, "piApprove")
    <3>1. Knows([t EXCEPT !.pc = "piApprove"], intent, pi)
      BY <1>2, <1>3, <1>4, <2>1, <2>3 DEF Knows, AmountsMatch, AmountOf
    <3>. QED BY <1>1, <2>3, <3>1, GotoKeepsInv DEF Places
  <2>4. CASE AmountsMatch(t) /\ t.route = "complete" /\ Goto(h, "piComplete")
    <3>1. Knows([t EXCEPT !.pc = "piComplete"], intent, pi)
      BY <1>2, <1>3, <1>4, <2>1, <2>4 DEF Knows, AmountsMatch, AmountOf
    <3>. QED BY <1>1, <2>4, <3>1, GotoKeepsInv DEF Places
  <2>5. CASE Goto(h, "done")
    BY <1>1, <2>5, GotoKeepsInv
  <2>. QED BY <1>6, <2>2, <2>3, <2>4, <2>5 DEF VerifyAmount, Looks
<1>7. CASE Reconcile(h)
  <2>1. t.route \in {"recover", "recoverEarly"} /\ t.row # None
    BY <1>1, <1>2, <1>7 DEF Reconcile, Looks, Knows
  <2>2. \A pc \in {"toFailed", "toCancelled"} : Knows([t EXCEPT !.pc = pc], intent, pi)
    BY <1>2, <1>3, <1>4, <2>1 DEF Knows
  <2>3. AmountsMatch(t) /\ CompletedAtPi(t.pay) =>
          Knows([t EXCEPT !.pc = "toCompleted"], intent, pi)
    BY <1>2, <1>3, <1>4, <2>1 DEF Knows, CompletedAtPi, AmountsMatch, AmountOf
  <2>4. AmountsMatch(t) => Knows([t EXCEPT !.pc = "toApproved"], intent, pi)
    BY <1>2, <1>3, <1>4, <2>1 DEF Knows, AmountsMatch, AmountOf
  <2>5. \/ Goto(h, "toFailed") \/ Goto(h, "toCancelled") \/ Goto(h, "done")
        \/ AmountsMatch(t) /\ CompletedAtPi(t.pay) /\ Goto(h, "toCompleted")
        \/ AmountsMatch(t) /\ Goto(h, "toApproved")
    BY <1>7 DEF Reconcile
  <2>6. {"toFailed", "toCancelled", "toCompleted", "toApproved"} \subseteq Places
    BY DEF Places, Transitions
  <2>7. CASE \E pc \in {"toFailed", "toCancelled"} : Goto(h, pc)
    BY <1>1, <2>2, <2>6, <2>7, GotoKeepsInv
  <2>8. CASE AmountsMatch(t) /\ CompletedAtPi(t.pay) /\ Goto(h, "toCompleted")
    BY <1>1, <2>3, <2>6, <2>8, GotoKeepsInv
  <2>9. CASE AmountsMatch(t) /\ Goto(h, "toApproved")
    BY <1>1, <2>4, <2>6, <2>9, GotoKeepsInv
  <2>10. CASE Goto(h, "done")
    BY <1>1, <2>10, GotoKeepsInv
  <2>. QED BY <2>5, <2>7, <2>8, <2>9, <2>10
<1>8. CASE Resume(h)
  <2>1. t.route = "incomplete"
    BY <1>8 DEF Resume, Looks
  <2>2. CASE Goto(h, "done")
    BY <1>1, <2>2, GotoKeepsInv
  <2>3. CASE t.row # None /\ Goto(h, "toCancelled")
    <3>1. Knows([t EXCEPT !.pc = "toCancelled"], intent, pi)
      BY <1>2, <1>3, <1>4, <2>1, <2>3 DEF Knows
    <3>. QED BY <1>1, <2>3, <3>1, GotoKeepsInv DEF Places, Transitions
  <2>4. ASSUME NEW pc \in {"shell", "bind"}, NEW r \in Rows,
               NEW then \in {"toFailed", "toCompleted", "toCompleting", "toIncomplete"},
               pc = "shell" => r = t.pay,
               then \in {"toCompleted", "toCompleting"} => r \in pi[t.pay].fits,
               then = "toCompleted" => pi[t.pay].completed,
               hand' = [hand EXCEPT ![h] = [t EXCEPT !.pc = pc, !.row = r, !.then = then]]
        PROVE  IInv'
    <3> DEFINE n == [t EXCEPT !.pc = pc, !.row = r, !.then = then]
    <3>1. n \in Handler
      BY <1>2 DEF Handler, Places, Transitions
    <3>2. /\ n.pc = pc /\ n.row = r /\ n.pay = t.pay
          /\ n.route = "incomplete" /\ n.then = then
      BY <1>2, <2>1 DEF Handler
    <3>3. r # None
      OBVIOUS
    <3>4. Knows(n, intent, pi)
      <4> HIDE DEF n
      <4>. QED BY <1>3, <2>4, <3>2, <3>3 DEF Knows, AmountOf
    <3>. QED BY <1>1, <2>4, <3>1, <3>4, HandOnly
  <2>5. ASSUME NEW txid \in BOOLEAN, NEW then,
               then = IF t.row # None /\ ~ AmountsMatch(t) THEN "toFailed"
                      ELSE IF CompletedAtPi(t.pay) THEN "toCompleted"
                      ELSE IF txid THEN "toCompleting" ELSE "toIncomplete",
               hand' = [hand EXCEPT ![h] =
                         IF t.row = None
                           THEN [t EXCEPT !.pc = "shell", !.row = t.pay, !.then = then]
                           ELSE [t EXCEPT !.pc = "bind", !.then = then]]
        PROVE  IInv'
    <3>1. t.row # None => t.row \in Rows
      BY <1>2 DEF Handler
    <3>2. t.pay \in Rows
      BY <1>3
    <3>3. t.row # None => [t EXCEPT !.pc = "bind", !.then = then]
                           = [t EXCEPT !.pc = "bind", !.row = t.row, !.then = then]
      BY <1>2 DEF Handler
    <3>4. /\ then \in {"toFailed", "toCompleted", "toCompleting", "toIncomplete"}
          /\ then = "toCompleted" => pi[t.pay].completed
          /\ then \in {"toCompleted", "toCompleting"} /\ t.row # None => t.row \in pi[t.pay].fits
      BY <2>5 DEF CompletedAtPi, AmountsMatch
    <3>5. CASE t.row = None
      <4>1. hand' = [hand EXCEPT ![h] = [t EXCEPT !.pc = "shell", !.row = t.pay, !.then = then]]
        BY <2>5, <3>5
      <4>. QED BY <1>5, <3>2, <3>4, <4>1, <2>4
    <3>6. CASE t.row # None
      <4>1. hand' = [hand EXCEPT ![h] = [t EXCEPT !.pc = "bind", !.row = t.row, !.then = then]]
        BY <2>5, <3>3, <3>6
      <4>. QED BY <3>1, <3>4, <3>6, <4>1, <2>4
    <3>. QED BY <3>5, <3>6
  <2>6. \/ Goto(h, "done")
        \/ t.row # None /\ Goto(h, "toCancelled")
        \/ \E txid \in BOOLEAN :
             LET then == IF t.row # None /\ ~ AmountsMatch(t) THEN "toFailed"
                         ELSE IF CompletedAtPi(t.pay) THEN "toCompleted"
                         ELSE IF txid THEN "toCompleting" ELSE "toIncomplete"
             IN hand' = [hand EXCEPT ![h] =
                           IF t.row = None
                             THEN [t EXCEPT !.pc = "shell", !.row = t.pay, !.then = then]
                             ELSE [t EXCEPT !.pc = "bind", !.then = then]]
    <3>1. {pi[t.pay].tx, TRUE} \subseteq BOOLEAN
      BY <1>3 DEF IInv, TypeOK, Payment
    <3>. QED BY <1>8, <3>1 DEF Resume
  <2>. QED BY <2>2, <2>3, <2>5, <2>6
<1>9. CASE ConfirmNotCancelled(h)
  <2>1. t.row # None /\ intent[t.row].status \in Paid
    BY <1>1, <1>2, <1>9 DEF ConfirmNotCancelled, Looks, Knows
  <2>2. t.route = "fulfill"
    BY <1>9 DEF ConfirmNotCancelled, Looks
  <2>3. Knows([t EXCEPT !.pc = "toFulfilled"], intent, pi)
    BY <1>2, <1>3, <1>4, <2>1, <2>2 DEF Knows
  <2>4. Goto(h, "done") \/ Goto(h, "toFulfilled")
    BY <1>9 DEF ConfirmNotCancelled
  <2>. QED BY <1>1, <2>3, <2>4, GotoKeepsInv DEF Places, Transitions
<1>. QED BY <1>1, <1>6, <1>7, <1>8, <1>9

--------------------------------------------------------------------------------
(* A call with an effect: what is left to show when it is answered or not. *)
LEMMA CallKeepsInv ==
  ASSUME IInv, NEW h \in Handlers, NEW answered \in BOOLEAN, hand[h].pc # "idle",
         States(intent', pi'), Forward(intent, pi, intent', pi'), Consistent(intent', pi'),
         UNCHANGED granted, Goto(h, After(hand[h], answered)),
         IfOk(hand[h]) # "done" =>
           /\ IfOk(hand[h]) \in Places
           /\ Knows([hand[h] EXCEPT !.pc = IfOk(hand[h])], intent', pi')
  PROVE  IInv'
<1> DEFINE t == hand[h]
           pc == After(t, answered)
           n == IF pc = "done" THEN Idle ELSE [t EXCEPT !.pc = pc]
<1>1. t \in Handler /\ Knows(t, intent, pi)
  BY Active
<1>2. Idle \in Handler
  BY DEF Idle, Handler, Routes, Places
<1>3. n \in Handler /\ (n = Idle \/ Knows(n, intent', pi'))
  <2>1. CASE answered
    BY <1>1, <1>2, <2>1 DEF After, Handler
  <2>2. CASE ~ answered /\ IfNot(t) # "done"
    <3>1. [t EXCEPT !.pc = IfNot(t)] \in Handler /\ Knows([t EXCEPT !.pc = IfNot(t)], intent, pi)
      BY <1>1, <2>2, KnowsIfNot
    <3>2. States(intent, pi)
      BY DEF IInv, TypeOK, States
    <3>3. Knows([t EXCEPT !.pc = IfNot(t)], intent', pi')
      BY <3>1, <3>2, KnowsForward
    <3>. QED BY <2>2, <3>1, <3>3 DEF After
  <2>3. CASE ~ answered /\ IfNot(t) = "done"
    BY <1>2, <2>3 DEF After
  <2>. QED BY <2>1, <2>2, <2>3
<1>4. hand' = [hand EXCEPT ![h] = n]
  BY DEF IInv, TypeOK, Goto
<1>5. granted' \in [Intents -> BOOLEAN]
  BY DEF IInv, TypeOK
<1> HIDE DEF n
<1>. QED BY <1>3, <1>4, <1>5, Effect

(* A new shell row is bound to nothing. *)
LEMMA ShellKeepsInv ==
  ASSUME IInv, NEW h \in Handlers, NEW answered \in BOOLEAN, Shell(h, answered)
  PROVE  IInv' /\ Forward(intent, pi, intent', pi')
<1> USE SetsAssumption DEF Rows
<1> DEFINE t == hand[h]
<1>1. t.pc = "shell" /\ t \in Handler /\ Knows(t, intent, pi)
  BY Active DEF Shell
<1>2. t.row \in Rows
  BY <1>1 DEF Knows, Handler
<1>3. intent \in [Rows -> Row] /\ pi \in [Payments -> Payment] /\ Consistent(intent, pi)
  BY DEF IInv, TypeOK
<1>4. intent' \in [Rows -> Row] /\ pi' = pi /\ UNCHANGED granted
  BY <1>2, <1>3 DEF Shell, Row, Statuses, Unfinished
<1>5. \A r \in Rows :
        /\ intent'[r].pay = intent[r].pay
        /\ \/ intent'[r].status = intent[r].status
           \/ intent[r].status = "none" /\ intent'[r].status = "CREATED"
  BY <1>2, <1>3 DEF Shell, Row
<1>6. Forward(intent, pi, intent', pi')
  BY <1>4, <1>5 DEF Forward, Paid, Closed, Late
<1>7. Consistent(intent', pi')
  <2>1. \A p \in Payments : PiOK(p, intent', pi')
    BY <1>3, <1>4, <1>5 DEF Consistent, PiOK, Late
  <2>2. \A r \in Rows : RowOK(r, intent', pi')
    BY <1>3, <1>4, <1>5 DEF Consistent, RowOK, UnderWay, Paid
  <2>. QED BY <2>1, <2>2 DEF Consistent
<1>8. IfOk(t) = "bind"
  BY <1>1 DEF IfOk
<1>9. Knows([t EXCEPT !.pc = "bind"], intent, pi)
  <2> DEFINE n == [t EXCEPT !.pc = "bind"]
  <2>1. n.row = t.row /\ n.pay = t.pay /\ n.route = t.route /\ n.then = t.then /\ n.pc = "bind"
    BY <1>1 DEF Handler
  <2> HIDE DEF n
  <2>. QED BY <1>1, <2>1 DEF Knows, AmountOf
<1>10. Knows([t EXCEPT !.pc = "bind"], intent', pi')
  <2>1. [t EXCEPT !.pc = "bind"] \in Handler
    BY <1>1 DEF Handler, Places
  <2>. QED BY <1>3, <1>4, <1>6, <1>9, <2>1, KnowsForward DEF States
<1>11. Goto(h, After(t, answered)) /\ States(intent', pi')
  BY <1>3, <1>4 DEF Shell, States
<1>. QED BY <1>1, <1>4, <1>6, <1>7, <1>8, <1>10, <1>11, CallKeepsInv DEF Places

(* Bind gives a payment to a row that has none. *)
LEMMA BindKeepsInv ==
  ASSUME IInv, NEW h \in Handlers, NEW answered \in BOOLEAN, Bind(h, answered)
  PROVE  IInv' /\ Forward(intent, pi, intent', pi')
<1> USE SetsAssumption DEF Rows
<1> DEFINE t == hand[h]
<1>1. t.pc = "bind" /\ t \in Handler /\ Knows(t, intent, pi)
  BY Active DEF Bind
<1>2. t.row \in Rows /\ t.pay \in Payments /\ Bindable(t.row, t.pay)
  BY <1>1 DEF Knows, Handler, Bind
<1>3. intent \in [Rows -> Row] /\ pi \in [Payments -> Payment] /\ Consistent(intent, pi)
  BY DEF IInv, TypeOK
<1>4. intent' \in [Rows -> Row] /\ pi' = pi /\ UNCHANGED granted
  BY <1>2, <1>3 DEF Bind, Bound, Row, Statuses, Unfinished
<1>5. /\ intent'[t.row].pay = t.pay
      /\ \A r \in Rows :
           /\ r # t.row => intent'[r] = intent[r]
           /\ intent[r].pay # None => intent'[r].pay = intent[r].pay
           /\ \/ intent'[r].status = intent[r].status
              \/ /\ intent[r].status = "CREATED"
                 /\ intent'[r].status = "APPROVAL_PENDING"
  BY <1>2, <1>3 DEF Bind, Bound, Bindable, Row
<1>6. Forward(intent, pi, intent', pi')
  BY <1>4, <1>5 DEF Forward, Paid, Closed, Late
<1>7. Consistent(intent', pi')
  <2>1. ASSUME NEW p \in Payments PROVE PiOK(p, intent', pi')
    <3>1. ASSUME NEW r \in Rows, intent[r].pay = p,
                 r \in pi[p].fits \/ intent[r].status \in Late
          PROVE  intent'[r].pay = p /\ (r \in pi'[p].fits \/ intent'[r].status \in Late)
      BY <1>4, <1>5, <3>1 DEF Late
    <3>2. PiOK(p, intent, pi)
      BY <1>3 DEF Consistent
    <3>. QED BY <1>4, <3>1, <3>2 DEF PiOK
  <2>2. ASSUME NEW r \in Rows PROVE RowOK(r, intent', pi')
    <3>1. CASE r = t.row
      <4>1. t.pay # None /\ \A s \in Rows \ {r} : intent'[s].pay # t.pay
        BY <1>2, <1>5, <3>1 DEF Bindable
      <4>2. intent[r].pay = None => intent[r].status \in Unfinished
        BY <1>2, <3>1 DEF Bindable
      <4>3. intent'[r].status # "none"
        BY <1>3, <1>5, <4>2 DEF Consistent, RowOK, Unfinished
      <4>4. intent'[r].status \in UnderWay \cup Paid => intent[r].pay = t.pay
        BY <1>2, <1>3, <1>5, <3>1 DEF Consistent, RowOK, Bindable, UnderWay, Paid
      <4>. QED BY <1>2, <1>3, <1>4, <1>5, <3>1, <4>1, <4>3, <4>4
               DEF Consistent, RowOK, UnderWay, Paid
    <3>2. CASE r # t.row
      BY <1>2, <1>3, <1>4, <1>5, <3>2 DEF Consistent, RowOK, Bindable
    <3>. QED BY <3>1, <3>2
  <2>. QED BY <2>1, <2>2 DEF Consistent
<1>8. \E n \in Handler : /\ n = Idle \/ Knows(n, intent', pi')
                         /\ hand' = [hand EXCEPT ![h] = n]
  <2>1. CASE answered
    <3> DEFINE n == [t EXCEPT !.pc = t.then, !.then = "done"]
    <3>1. /\ n.row = t.row /\ n.pay = t.pay /\ n.route = t.route /\ n.pc = t.then
          /\ t.route # "cancel" /\ t.row # None /\ t.row \in Rows
      BY <1>1, <1>2 DEF Handler, Knows
    <3>2. t.then \in {"toPending", "lookup", "toCompleting", "toCompleted", "toFailed",
                      "toIncomplete"}
      BY <1>1 DEF Knows
    <3>3. n \in Handler
      BY <1>1, <3>2 DEF Handler, Places, Transitions
    <3>4. /\ t.then = "toPending" => t.route = "approve"
          /\ t.then = "lookup" => t.route \in {"recover", "recoverEarly"}
          /\ t.then = "toCompleting" => t.route = "complete" \/ AmountOf(t, pi)
          /\ t.then = "toCompleted" => AmountOf(t, pi) /\ pi[t.pay].completed
      BY <1>1 DEF Knows
    <3>5. Knows(n, intent', pi')
      <4> HIDE DEF n
      <4>. QED BY <1>2, <1>4, <3>1, <3>2, <3>4 DEF Knows, AmountOf
    <3>6. hand' = [hand EXCEPT ![h] = n]
      BY <2>1 DEF Bind
    <3>. QED BY <3>3, <3>5, <3>6
  <2>2. CASE ~ answered
    <3>1. hand' = [hand EXCEPT ![h] = Idle] /\ Idle \in Handler
      BY <2>2 DEF Bind, Idle, Handler, Routes, Places
    <3>. QED BY <3>1
  <2>. QED BY <2>1, <2>2
<1>9. /\ States(intent', pi') /\ granted' \in [Intents -> BOOLEAN]
      /\ \A i \in Intents : granted'[i] => granted[i] \/ intent'[i].status \in Paid
  BY <1>3, <1>4 DEF States, IInv, TypeOK
<1>. QED BY <1>6, <1>7, <1>8, <1>9, Effect

(* What the nine transitions ask for, and where they are asked from. *)
LEMMA Targets ==
  /\ \A pc \in Transitions :
       /\ Target(pc) \in Statuses \ {"REFUNDED"}
       /\ Target(pc) # "CREATED"
       /\ Target(pc) \in UnderWay => pc \in {"toApproved", "toCompleting", "stayCompleting"}
       /\ Target(pc) \in {"APPROVED", "USER_SUBMITTED"} => pc = "toApproved"
       /\ Target(pc) = "COMPLETED" => pc = "toCompleted"
       /\ Target(pc) = "FULFILLED" => pc = "toFulfilled"
       /\ pc = "toCompleted" => Target(pc) = "COMPLETED"
       /\ pc = "toFulfilled" => Target(pc) = "FULFILLED"
  /\ \A to \in Statuses :
       /\ AllowedFrom(to) \cap Closed = {}
       /\ "none" \notin AllowedFrom(to)
       /\ "COMPLETED" \in AllowedFrom(to) => to \in {"FULFILLED", "REFUNDED"}
       /\ to \in Late \cup {"CREATED", "COMPLETED"} \/ AllowedFrom(to) \cap Late = {}
<1>1. \A pc \in Transitions :
       /\ Target(pc) \in Statuses \ {"REFUNDED"}
       /\ Target(pc) # "CREATED"
       /\ Target(pc) \in UnderWay => pc \in {"toApproved", "toCompleting", "stayCompleting"}
       /\ Target(pc) \in {"APPROVED", "USER_SUBMITTED"} => pc = "toApproved"
       /\ Target(pc) = "COMPLETED" => pc = "toCompleted"
       /\ Target(pc) = "FULFILLED" => pc = "toFulfilled"
       /\ pc = "toCompleted" => Target(pc) = "COMPLETED"
       /\ pc = "toFulfilled" => Target(pc) = "FULFILLED"
  <2> TAKE pc \in Transitions
  <2>1. \/ pc = "toPending"      /\ Target(pc) = "APPROVAL_PENDING"
        \/ pc = "toApproved"     /\ Target(pc) = "APPROVED"
        \/ pc = "toCompleting"   /\ Target(pc) = "COMPLETION_PENDING"
        \/ pc = "stayCompleting" /\ Target(pc) = "COMPLETION_PENDING"
        \/ pc = "toCompleted"    /\ Target(pc) = "COMPLETED"
        \/ pc = "toFulfilled"    /\ Target(pc) = "FULFILLED"
        \/ pc = "toIncomplete"   /\ Target(pc) = "INCOMPLETE"
        \/ pc = "toCancelled"    /\ Target(pc) = "CANCELLED"
        \/ pc = "toFailed"       /\ Target(pc) = "FAILED"
    BY DEF Transitions, Target
  <2>. QED BY <2>1 DEF Statuses, Unfinished, Closed, UnderWay
<1>2. \A to \in Statuses :
       /\ AllowedFrom(to) \cap Closed = {}
       /\ "none" \notin AllowedFrom(to)
       /\ "COMPLETED" \in AllowedFrom(to) => to \in {"FULFILLED", "REFUNDED"}
       /\ to \in Late \cup {"CREATED", "COMPLETED"} \/ AllowedFrom(to) \cap Late = {}
  <2> SUFFICES ASSUME NEW to \in Statuses
               PROVE  /\ AllowedFrom(to) \cap Closed = {}
                      /\ "none" \notin AllowedFrom(to)
                      /\ "COMPLETED" \in AllowedFrom(to) => to \in {"FULFILLED", "REFUNDED"}
                      /\ \/ to \in Late \cup {"CREATED", "COMPLETED"}
                         \/ AllowedFrom(to) \cap Late = {}
    OBVIOUS
  <2>1. \/ AllowedFrom(to) = Unfinished /\ to \in Late \cup {"CREATED", "COMPLETED"}
        \/ AllowedFrom(to) \subseteq {"CREATED", "APPROVAL_PENDING", "APPROVED"}
        \/ AllowedFrom(to) = {"COMPLETED"} /\ to \in {"FULFILLED", "REFUNDED"}
    BY DEF AllowedFrom, Statuses, Unfinished, Closed, Late
  <2>. QED BY <2>1 DEF Unfinished, Closed, Late
<1>. QED BY <1>1, <1>2

(* A transition is accepted only for a handler that knows why. *)
LEMMA TransitionKeepsInv ==
  ASSUME IInv, NEW h \in Handlers, NEW answered \in BOOLEAN, Transition(h, answered)
  PROVE  IInv' /\ Forward(intent, pi, intent', pi')
<1> USE SetsAssumption DEF Rows
<1> DEFINE t == hand[h]
           to == Target(t.pc)
<1>1. t.pc \in Transitions /\ t \in Handler /\ Knows(t, intent, pi)
  <2>1. "idle" \notin Transitions
    BY DEF Transitions
  <2>. QED BY <2>1, Active DEF Transition
<1>2. t.row \in Rows
  BY <1>1 DEF Knows, Handler, Transitions
<1>3. intent \in [Rows -> Row] /\ pi \in [Payments -> Payment] /\ Consistent(intent, pi)
  BY DEF IInv, TypeOK
<1>4. /\ to \in Statuses
      /\ intent[t.row].status = to \/ intent[t.row].status \in AllowedFrom(to)
      /\ NamesPayment(t) => intent[t.row].pay = t.pay
  BY <1>1, Targets DEF Transition, Accepted
<1>5. intent' \in [Rows -> Row] /\ pi' = pi /\ UNCHANGED granted
  BY <1>2, <1>3, <1>4 DEF Transition, Row
<1>6. /\ \A r \in Rows : intent'[r].pay = intent[r].pay
      /\ \A r \in Rows : r # t.row => intent'[r] = intent[r]
      /\ intent'[t.row].status = to
  BY <1>2, <1>3 DEF Transition, Row
<1>7. /\ intent[t.row].status \in Paid => to \in Paid
      /\ intent[t.row].status \in Closed => to = intent[t.row].status
      /\ intent[t.row].status # "none"
  BY <1>1, <1>4, Targets DEF Paid, Closed, Statuses, Unfinished
<1>8. to \in UnderWay => intent[t.row].pay # None
  <2> SUFFICES ASSUME to \in UnderWay PROVE intent[t.row].pay # None
    OBVIOUS
  <2>1. t.pc \in {"toApproved", "toCompleting", "stayCompleting"}
    BY <1>1, Targets
  <2>2. t.pay \in Payments
    BY <1>1, <2>1 DEF Knows
  <2>3. intent[t.row].pay = t.pay
    BY <1>1, <1>4, <2>1 DEF NamesPayment, Knows
  <2>. QED BY <2>2, <2>3
<1>9. to \in {"APPROVED", "USER_SUBMITTED"} => t.row \in pi[intent[t.row].pay].fits
  BY <1>1, <1>4, Targets DEF NamesPayment, Knows, AmountOf
<1>10. to \in Paid => /\ intent[t.row].pay # None /\ pi[intent[t.row].pay].completed
                      /\ t.row \in pi[intent[t.row].pay].fits
  <2>1. CASE t.pc = "toCompleted"
    BY <1>1, <1>4, <2>1 DEF NamesPayment, Knows, AmountOf
  <2>2. CASE t.pc = "toFulfilled"
    BY <1>1, <1>2, <1>3, <2>2 DEF Knows, Consistent, RowOK
  <2>. QED BY <1>1, <2>1, <2>2, Targets DEF Paid
<1>11. Forward(intent, pi, intent', pi') /\ Consistent(intent', pi')
  <2>1. ASSUME NEW r \in Rows PROVE RowOK(r, intent', pi')
    <3>1. CASE r = t.row
      BY <1>3, <1>4, <1>5, <1>6, <1>8, <1>9, <1>10, <3>1
         DEF Consistent, RowOK, Statuses, Unfinished, Closed
    <3>2. CASE r # t.row
      BY <1>3, <1>5, <1>6, <3>2 DEF Consistent, RowOK
    <3>. QED BY <3>1, <3>2
  <2>2. intent[t.row].status \in Late => to \in Late \cup Paid
    BY <1>1, <1>4, Targets DEF Late, Paid
  <2>3. Forward(intent, pi, intent', pi')
    BY <1>2, <1>5, <1>6, <1>7, <2>2 DEF Forward
  <2>4. ASSUME NEW p \in Payments PROVE PiOK(p, intent', pi')
    <3>1. ASSUME NEW r \in Rows, intent[r].pay = p,
                 r \in pi[p].fits \/ intent[r].status \in Late
          PROVE  intent'[r].pay = p /\ (r \in pi'[p].fits \/ intent'[r].status \in Late)
      BY <1>5, <1>6, <2>1, <2>3, <3>1 DEF RowOK, Forward
    <3>2. PiOK(p, intent, pi)
      BY <1>3 DEF Consistent
    <3>. QED BY <1>5, <3>1, <3>2 DEF PiOK
  <2>. QED BY <2>1, <2>3, <2>4 DEF Consistent
<1>12. IfOk(t) \in {"lookup", "piComplete", "grant", "done"}
  BY <1>1 DEF IfOk, Transitions
<1>13. IfOk(t) # "done" => Knows([t EXCEPT !.pc = IfOk(t)], intent', pi')
  <2> SUFFICES ASSUME IfOk(t) # "done"
               PROVE  Knows([t EXCEPT !.pc = IfOk(t)], intent', pi')
    OBVIOUS
  <2> DEFINE n == [t EXCEPT !.pc = IfOk(t)]
  <2>1. n.row = t.row /\ n.pay = t.pay /\ n.route = t.route /\ n.then = t.then /\ n.pc = IfOk(t)
    BY <1>1 DEF Handler
  <2>2. t.pc \in {"toPending", "toCompleting", "toCompleted", "toFulfilled"}
    BY <1>1 DEF IfOk, Transitions
  <2>3. t.route # "cancel" /\ t.row # None
    BY <1>1, <2>2 DEF Knows
  <2>4. CASE t.pc = "toPending"
    <3>1. IfOk(t) = "lookup" /\ t.route = "approve" /\ intent'[t.row].pay = t.pay
      BY <1>1, <1>2, <1>4, <1>6, <2>4 DEF IfOk, Knows, NamesPayment
    <3> HIDE DEF n
    <3>. QED BY <1>1, <1>5, <2>1, <2>3, <3>1 DEF Knows
  <2>5. CASE t.pc = "toCompleting"
    <3>1. /\ intent'[t.row].pay = t.pay
          /\ IfOk(t) = IF t.route = "complete" THEN "lookup" ELSE "piComplete"
      BY <1>2, <1>4, <1>6, <2>5 DEF IfOk, NamesPayment
    <3> HIDE DEF n
    <3>. QED BY <1>1, <1>5, <2>1, <2>3, <2>5, <3>1 DEF Knows, AmountOf
  <2>6. CASE t.pc \in {"toCompleted", "toFulfilled"}
    <3>1. IfOk(t) = "grant" /\ intent'[t.row].status \in Paid
      BY <1>1, <1>6, <2>6, Targets DEF IfOk, Paid
    <3> HIDE DEF n
    <3>. QED BY <1>1, <1>5, <2>1, <2>3, <3>1 DEF Knows
  <2>. QED BY <2>2, <2>4, <2>5, <2>6
<1>14. Goto(h, After(t, answered)) /\ States(intent', pi')
  BY <1>3, <1>5 DEF Transition, States
<1>15. t.pc # "idle" /\ {"lookup", "piComplete", "grant"} \subseteq Places
  BY <1>1 DEF Transitions, Places
<1>. QED BY <1>5, <1>11, <1>12, <1>13, <1>14, <1>15, CallKeepsInv

(* A payment of which Pi records more than before. *)
LEMMA PaymentForward ==
  ASSUME NEW I, NEW P, NEW p \in Payments, NEW q \in Payment, States(I, P), Consistent(I, P),
         P[p].asked => q.asked, P[p].fits \subseteq q.fits,
         P[p].approved => q.approved, P[p].tx => q.tx, P[p].completed => q.completed,
         PiOK(p, I, [P EXCEPT ![p] = q])
  PROVE  /\ States(I, [P EXCEPT ![p] = q])
         /\ Forward(I, P, I, [P EXCEPT ![p] = q])
         /\ Consistent(I, [P EXCEPT ![p] = q])
<1> DEFINE Q == [P EXCEPT ![p] = q]
<1>1. States(I, Q)
  BY DEF States
<1>2. \A s \in Payments : s # p => Q[s] = P[s]
  BY DEF States
<1>3. Q[p] = q
  BY DEF States
<1>4. Forward(I, P, I, Q)
  BY <1>2, <1>3 DEF Forward
<1>5. \A s \in Payments : PiOK(s, I, Q)
  BY <1>2 DEF Consistent, PiOK
<1>6. ASSUME NEW r \in Rows PROVE RowOK(r, I, Q)
  <2>1. RowOK(r, I, P)
    BY DEF Consistent
  <2>2. I[r].pay # None => /\ P[I[r].pay].fits \subseteq Q[I[r].pay].fits
                           /\ P[I[r].pay].completed => Q[I[r].pay].completed
    BY <1>2, <1>3, <2>1 DEF RowOK
  <2>3. I[r].status \in UnderWay \cup Paid \cup {"APPROVED", "USER_SUBMITTED"} => I[r].pay # None
    BY <2>1 DEF RowOK, UnderWay
  <2> HIDE DEF Q
  <2>4. I[r].status \in {"APPROVED", "USER_SUBMITTED"} \cup Paid => r \in Q[I[r].pay].fits
    BY <2>1, <2>2, <2>3 DEF RowOK
  <2>5. I[r].status \in Paid => Q[I[r].pay].completed
    BY <2>1, <2>2, <2>3 DEF RowOK
  <2>. QED BY <2>1, <2>4, <2>5 DEF RowOK
<1>. QED BY <1>1, <1>4, <1>5, <1>6 DEF Consistent

(* Approve and complete at Pi. *)
LEMMA PiCallsKeepInv ==
  ASSUME IInv, NEW h \in Handlers, NEW answered \in BOOLEAN,
         PiApprove(h, answered) \/ PiComplete(h, answered)
  PROVE  IInv' /\ Forward(intent, pi, intent', pi')
<1> USE SetsAssumption
<1> DEFINE t == hand[h]
<1>1. t.pc \in {"piApprove", "piComplete"} /\ t \in Handler /\ Knows(t, intent, pi)
  BY Active DEF PiApprove, PiComplete
<1>2. t.route # "cancel" /\ t.row \in Rows /\ t.row # None /\ t.pay \in Payments
  BY <1>1 DEF Knows, Handler
<1>3. States(intent, pi) /\ Consistent(intent, pi) /\ PiOK(t.pay, intent, pi)
  BY <1>2 DEF IInv, TypeOK, States, Consistent
<1>4. pi[t.pay] \in Payment /\ intent' = intent /\ UNCHANGED granted
  BY <1>2, <1>3 DEF States, PiApprove, PiComplete
<1>5. CASE PiApprove(h, answered)
  <2> DEFINE q == [pi[t.pay] EXCEPT !.approved = TRUE]
  <2>1. /\ q \in Payment /\ q.approved /\ q.asked = pi[t.pay].asked /\ q.fits = pi[t.pay].fits
        /\ q.tx = pi[t.pay].tx /\ q.completed = pi[t.pay].completed
    BY <1>4 DEF Payment
  <2>2. pi' = [pi EXCEPT ![t.pay] = q]
    BY <1>2, <1>3, <1>5 DEF PiApprove, States
  <2>3. t.pc = "piApprove" /\ pi[t.pay].asked
    BY <1>5 DEF PiApprove
  <2>4. intent[t.row].pay = t.pay /\ (AmountOf(t, pi) \/ intent[t.row].status \in Late)
    <3>1. /\ intent[t.row].pay = t.pay
          /\ AmountOf(t, pi) \/ intent[t.row].status \in Late \cup Paid
      BY <1>1, <2>3 DEF Knows
    <3>2. intent[t.row].status \in Paid => t.row \in pi[intent[t.row].pay].fits
      BY <1>2, <1>3 DEF Consistent, RowOK
    <3>. QED BY <3>1, <3>2 DEF AmountOf
  <2>5. PiOK(t.pay, intent, [pi EXCEPT ![t.pay] = q])
    <3>1. [pi EXCEPT ![t.pay] = q][t.pay] = q
      BY <1>2, <1>3 DEF States
    <3> HIDE DEF q
    <3>. QED BY <1>2, <1>3, <2>1, <2>3, <2>4, <3>1 DEF PiOK, AmountOf
  <2>6. /\ States(intent', pi') /\ Forward(intent, pi, intent', pi')
        /\ Consistent(intent', pi')
    <3> HIDE DEF q
    <3>. QED BY <1>2, <1>3, <1>4, <2>1, <2>2, <2>5, PaymentForward
  <2>7. IfOk(t) = "done" \/ (IfOk(t) = "toApproved" /\ t.route = "approve")
    BY <2>3 DEF IfOk
  <2>8. t.route = "approve" => Knows([t EXCEPT !.pc = "toApproved"], intent', pi')
    <3>1. t.route = "approve" => t.row \in pi'[t.pay].fits
      BY <1>1, <1>2, <2>3, <2>6 DEF Knows, AmountOf, Forward
    <3>2. \A pc \in STRING : /\ [t EXCEPT !.pc = pc].pc = pc
                             /\ [t EXCEPT !.pc = pc].row = t.row
                             /\ [t EXCEPT !.pc = pc].pay = t.pay
                             /\ [t EXCEPT !.pc = pc].route = t.route
      BY <1>1 DEF Handler
    <3>. QED BY <1>1, <1>2, <3>1, <3>2 DEF Knows, AmountOf
  <2>9. Goto(h, After(t, answered))
    BY <1>5 DEF PiApprove
  <2>. QED BY <1>1, <1>4, <2>6, <2>7, <2>8, <2>9, CallKeepsInv DEF Places, Transitions
<1>6. CASE PiComplete(h, answered)
  <2> DEFINE q == [pi[t.pay] EXCEPT !.completed = TRUE]
  <2>1. /\ q \in Payment /\ q.completed /\ q.asked = pi[t.pay].asked /\ q.fits = pi[t.pay].fits
        /\ q.tx = pi[t.pay].tx /\ q.approved = pi[t.pay].approved
    BY <1>4 DEF Payment
  <2>2. pi' = [pi EXCEPT ![t.pay] = q]
    BY <1>2, <1>3, <1>6 DEF PiComplete, States
  <2>3. t.pc = "piComplete" /\ pi[t.pay].tx
    BY <1>6 DEF PiComplete
  <2>4. PiOK(t.pay, intent, [pi EXCEPT ![t.pay] = q])
    <3>1. [pi EXCEPT ![t.pay] = q][t.pay] = q
      BY <1>2, <1>3 DEF States
    <3>2. pi[t.pay].asked
      BY <1>3, <2>3 DEF PiOK, Unused
    <3> HIDE DEF q
    <3>. QED BY <1>3, <2>1, <2>3, <3>1, <3>2 DEF PiOK
  <2>5. /\ States(intent', pi') /\ Forward(intent, pi, intent', pi')
        /\ Consistent(intent', pi')
    <3> HIDE DEF q
    <3>. QED BY <1>2, <1>3, <1>4, <2>1, <2>2, <2>4, PaymentForward
  <2>6. IfOk(t) = "toCompleted"
    BY <2>3 DEF IfOk
  <2>7. Knows([t EXCEPT !.pc = "toCompleted"], intent', pi')
    <3>1. pi'[t.pay].completed
      BY <1>2, <1>3, <2>1, <2>2 DEF States
    <3>2. t.row \in pi'[t.pay].fits
      BY <1>1, <1>2, <2>3, <2>5 DEF Knows, AmountOf, Forward
    <3>3. \A pc \in STRING : /\ [t EXCEPT !.pc = pc].pc = pc
                             /\ [t EXCEPT !.pc = pc].row = t.row
                             /\ [t EXCEPT !.pc = pc].pay = t.pay
                             /\ [t EXCEPT !.pc = pc].route = t.route
      BY <1>1 DEF Handler
    <3>. QED BY <1>1, <1>2, <3>1, <3>2, <3>3 DEF Knows, AmountOf
  <2>8. Goto(h, After(t, answered))
    BY <1>6 DEF PiComplete
  <2>. QED BY <1>1, <1>4, <2>5, <2>6, <2>7, <2>8, CallKeepsInv DEF Places, Transitions
<1>. QED BY <1>5, <1>6

--------------------------------------------------------------------------------
(* A benefit goes to an intent that is paid. *)
LEMMA GrantKeepsInv ==
  ASSUME IInv, NEW h \in Handlers, Grant(h)
  PROVE  IInv' /\ Forward(intent, pi, intent', pi')
<1> USE SetsAssumption DEF Rows
<1> DEFINE t == hand[h]
<1>1. t.pc = "grant" /\ t \in Handler /\ Knows(t, intent, pi)
  BY Active DEF Grant
<1>2. t.row \in Rows /\ intent[t.row].status \in Paid
  BY <1>1 DEF Knows, Handler
<1>3. /\ UNCHANGED <<intent, pi>> /\ Goto(h, "done")
      /\ granted' = [i \in Intents |-> granted[i] \/ i = t.row]
  BY DEF Grant
<1>4. States(intent, pi) /\ Consistent(intent, pi) /\ Forward(intent, pi, intent, pi)
  BY DEF IInv, TypeOK, States, Forward
<1>5. granted' \in [Intents -> BOOLEAN]
  BY <1>3
<1>6. \A i \in Intents : granted'[i] => granted[i] \/ intent'[i].status \in Paid
  BY <1>2, <1>3
<1>7. Idle \in Handler /\ hand' = [hand EXCEPT ![h] = Idle]
  BY <1>3 DEF Goto, Idle, Handler, Routes, Places
<1>. QED BY <1>3, <1>4, <1>5, <1>6, <1>7, Effect

(* A new intent is bound to nothing. *)
LEMMA CreateKeepsInv ==
  ASSUME IInv, NEW i \in Intents, CreateIntent(i)
  PROVE  IInv' /\ Forward(intent, pi, intent', pi')
<1> USE SetsAssumption DEF Rows
<1>1. intent \in [Rows -> Row] /\ pi \in [Payments -> Payment] /\ Consistent(intent, pi)
  BY DEF IInv, TypeOK
<1>2. intent' \in [Rows -> Row] /\ UNCHANGED <<granted, hand, pi>>
  BY <1>1 DEF CreateIntent, Row, Statuses, Unfinished
<1>3. \A r \in Rows :
        /\ intent'[r].pay = intent[r].pay
        /\ \/ intent'[r].status = intent[r].status
           \/ intent[r].status = "none" /\ intent'[r].status = "CREATED"
  BY <1>1 DEF CreateIntent, Row
<1>4. Forward(intent, pi, intent', pi')
  BY <1>2, <1>3 DEF Forward, Paid, Closed, Late
<1>5. Consistent(intent', pi')
  <2>1. \A p \in Payments : PiOK(p, intent', pi')
    BY <1>1, <1>2, <1>3 DEF Consistent, PiOK, Late
  <2>2. \A r \in Rows : RowOK(r, intent', pi')
    BY <1>1, <1>2, <1>3 DEF Consistent, RowOK, UnderWay, Paid
  <2>. QED BY <2>1, <2>2 DEF Consistent
<1>6. States(intent', pi') /\ granted' \in [Intents -> BOOLEAN]
  BY <1>1, <1>2 DEF States, IInv, TypeOK
<1>. QED BY <1>2, <1>4, <1>5, <1>6, Effect

(* What the user does with a payment at Pi. *)
LEMMA PaymentsKeepInv ==
  ASSUME IInv, NEW p \in Payments,
         (\E fits \in SUBSET Rows : PiCreate(p, fits)) \/ PiPay(p) \/ PiCancel(p)
  PROVE  IInv' /\ Forward(intent, pi, intent', pi')
<1> USE SetsAssumption
<1>1. /\ States(intent, pi) /\ Consistent(intent, pi) /\ PiOK(p, intent, pi)
      /\ pi[p] \in Payment /\ granted \in [Intents -> BOOLEAN]
  BY DEF IInv, TypeOK, States, Consistent
<1>2. UNCHANGED <<intent, granted, hand>>
  BY DEF PiCreate, PiPay, PiCancel
<1>3. ASSUME NEW q \in Payment, pi' = [pi EXCEPT ![p] = q], q.completed = pi[p].completed,
             q.approved = pi[p].approved,
             q.tx = pi[p].tx \/ (pi[p].approved /\ q.tx = TRUE),
             q.asked, p \in q.fits, pi[p].fits \subseteq q.fits
      PROVE  IInv' /\ Forward(intent, pi, intent', pi')
  <2>1. [pi EXCEPT ![p] = q][p] = q
    BY <1>1 DEF States
  <2>2. PiOK(p, intent, [pi EXCEPT ![p] = q])
    BY <1>1, <1>3, <2>1 DEF PiOK
  <2>3. /\ States(intent, [pi EXCEPT ![p] = q])
        /\ Forward(intent, pi, intent, [pi EXCEPT ![p] = q])
        /\ Consistent(intent, [pi EXCEPT ![p] = q])
    BY <1>1, <1>3, <2>2, PaymentForward
  <2>4. States(intent', pi') /\ Forward(intent, pi, intent', pi') /\ Consistent(intent', pi')
    BY <1>2, <1>3, <2>3
  <2>. QED BY <1>1, <1>2, <2>4, Effect
<1>4. CASE \E fits \in SUBSET Rows : PiCreate(p, fits)
  <2>1. PICK fits \in SUBSET Rows : PiCreate(p, fits)
    BY <1>4
  <2> DEFINE q == [pi[p] EXCEPT !.asked = TRUE, !.fits = fits]
  <2>2. q \in Payment /\ pi' = [pi EXCEPT ![p] = q]
    BY <1>1, <2>1 DEF PiCreate, Payment, States
  <2>3. /\ q.completed = pi[p].completed /\ q.approved = pi[p].approved /\ q.tx = pi[p].tx
        /\ q.asked /\ q.fits = fits /\ p \in fits
    BY <1>1, <2>1 DEF PiCreate, Payment
  <2>4. pi[p].fits = {}
    BY <2>1 DEF PiCreate, Fresh, Unused
  <2> HIDE DEF q
  <2>. QED BY <1>3, <2>2, <2>3, <2>4
<1>5. CASE PiPay(p)
  <2> DEFINE q == [pi[p] EXCEPT !.tx = TRUE]
  <2>1. q \in Payment /\ pi' = [pi EXCEPT ![p] = q] /\ pi[p].approved
    BY <1>1, <1>5 DEF PiPay, Payment, States
  <2>2. /\ q.completed = pi[p].completed /\ q.approved = pi[p].approved /\ q.tx = TRUE
        /\ q.asked = pi[p].asked /\ q.fits = pi[p].fits
    BY <1>1 DEF Payment
  <2>3. pi[p].asked /\ p \in pi[p].fits
    BY <1>1, <2>1 DEF PiOK, Unused
  <2> HIDE DEF q
  <2>. QED BY <1>3, <2>1, <2>2, <2>3
<1>6. CASE PiCancel(p)
  <2> DEFINE q == [pi[p] EXCEPT !.cancelled = TRUE]
  <2>1. q \in Payment /\ pi' = [pi EXCEPT ![p] = q] /\ pi[p].asked /\ p \in pi[p].fits
    BY <1>1, <1>6 DEF PiCancel, Payment, States, PiOK
  <2>2. /\ q.completed = pi[p].completed /\ q.approved = pi[p].approved /\ q.tx = pi[p].tx
        /\ q.asked = pi[p].asked /\ q.fits = pi[p].fits
    BY <1>1 DEF Payment
  <2> HIDE DEF q
  <2>. QED BY <1>3, <2>1, <2>2
<1>. QED BY <1>4, <1>5, <1>6

--------------------------------------------------------------------------------
(* Nothing is bound, approved or granted at first. *)
LEMMA InitEstablishesInv ==
  Init => IInv
<1> USE SetsAssumption
<1> SUFFICES ASSUME Init PROVE IInv
  OBVIOUS
<1>1. Idle \in Handler /\ Unused \in Payment /\ [status |-> "none", pay |-> None] \in Row
  BY DEF Idle, Handler, Routes, Places, Unused, Payment, Row
<1>2. TypeOK
  BY <1>1 DEF Init, TypeOK
<1>3. \A p \in Payments : PiOK(p, intent, pi)
  BY DEF Init, PiOK, Unused
<1>4. \A r \in Rows : RowOK(r, intent, pi)
  BY DEF Init, RowOK, UnderWay, Paid
<1>. QED BY <1>2, <1>3, <1>4 DEF Init, IInv, Consistent

(* Every step keeps the invariant and moves the system forward. *)
LEMMA NextKeepsInv ==
  ASSUME IInv, [Next]_vars
  PROVE  IInv' /\ Forward(intent, pi, intent', pi')
<1>1. UNCHANGED <<intent, pi>> => Forward(intent, pi, intent', pi')
  BY DEF Forward
<1>2. CASE UNCHANGED vars
  <2>1. UNCHANGED <<intent, granted, hand, pi>>
    BY <1>2 DEF vars
  <2>2. IInv'
    BY <2>1 DEF IInv, TypeOK, Consistent, PiOK, RowOK, Knows, AmountOf
  <2>. QED BY <1>1, <2>1, <2>2
<1>3. CASE User
  BY <1>3, CreateKeepsInv, PaymentsKeepInv DEF User
<1>4. ASSUME NEW h \in Handlers, NEW answered \in BOOLEAN, Call(h, answered)
      PROVE  IInv' /\ Forward(intent, pi, intent', pi')
  BY <1>4, ShellKeepsInv, BindKeepsInv, TransitionKeepsInv, PiCallsKeepInv DEF Call
<1>5. ASSUME NEW h \in Handlers, Step(h)
      PROVE  IInv' /\ Forward(intent, pi, intent', pi')
  <2>1. CASE VerifyAmount(h) \/ Reconcile(h) \/ Resume(h) \/ ConfirmNotCancelled(h)
    <3>1. UNCHANGED <<intent, pi>>
      BY <2>1 DEF VerifyAmount, Reconcile, Resume, ConfirmNotCancelled
    <3>. QED BY <1>1, <2>1, <3>1, LookupsKeepInv
  <2>2. CASE Refused(h)
    BY <1>1, <2>2, FaultsKeepInv DEF Refused
  <2>. QED BY <1>4, <1>5, <2>1, <2>2, GrantKeepsInv DEF Step
<1>6. ASSUME NEW h \in Handlers, Fault(h)
      PROVE  IInv' /\ Forward(intent, pi, intent', pi')
  <2>1. CASE Fail(h) \/ Crash(h)
    BY <1>1, <2>1, FaultsKeepInv DEF Fail, Crash
  <2>. QED BY <1>4, <1>6, <2>1 DEF Fault
<1>7. ASSUME NEW h \in Handlers, NEW p \in Payments,
             \/ \E r \in Rows : \/ Approve(h, r, p) \/ Complete(h, r, p)
                               \/ Incomplete(h, r, p) \/ Recover(h, r, p)
             \/ IncompleteUnknown(h, p)
      PROVE  IInv' /\ Forward(intent, pi, intent', pi')
  <2>1. UNCHANGED <<intent, pi>>
    BY <1>7 DEF Approve, Complete, Incomplete, Recover, IncompleteUnknown, Start
  <2>. QED BY <1>1, <1>7, <2>1, StartsKeepInv
<1>8. ASSUME NEW h \in Handlers, NEW r \in Rows, Cancel(h, r) \/ Fulfill(h, r)
      PROVE  IInv' /\ Forward(intent, pi, intent', pi')
  <2>1. UNCHANGED <<intent, pi>>
    BY <1>8 DEF Cancel, Fulfill, Start
  <2>. QED BY <1>1, <1>8, <2>1, CancelFulfillKeepInv
<1>. QED BY <1>2, <1>3, <1>5, <1>6, <1>7, <1>8 DEF Next

--------------------------------------------------------------------------------
(***************************************************************************)
(* The theorems: for every number of intents, payments and handlers, and   *)
(* with or without a server of the other network and a client that asks    *)
(* for other amounts.                                                      *)
(***************************************************************************)
LEMMA InvHolds == Spec => []IInv
<1>1. IInv /\ [Next]_vars => IInv'
  BY NextKeepsInv
<1>. QED BY InitEstablishesInv, <1>1, PTL DEF Spec

(* Rows, handlers and payments keep their types. *)
THEOREM PaymentTypes == Spec => []TypeOK
<1>1. IInv => TypeOK
  BY DEF IInv
<1>. QED BY InvHolds, <1>1, PTL

(* A completed or fulfilled row has its own payment, of its amount, completed at Pi. *)
THEOREM CompletedIsPaid == Spec => []CompletedMeansPaid
<1>1. IInv => CompletedMeansPaid
  <2> SUFFICES ASSUME IInv, NEW r \in Rows, intent[r].status \in Paid
               PROVE  \E p \in Payments :
                        /\ intent[r].pay = p
                        /\ \A s \in Rows \ {r} : intent[s].pay # p
                        /\ pi[p].tx /\ pi[p].completed /\ r \in pi[p].fits
    BY DEF CompletedMeansPaid
  <2> DEFINE p == intent[r].pay
  <2>1. /\ p \in Payments /\ pi[p].completed /\ r \in pi[p].fits
        /\ \A s \in Rows \ {r} : intent[s].pay # p
    BY DEF IInv, Consistent, RowOK
  <2>2. pi[p].tx
    BY <2>1 DEF IInv, Consistent, PiOK
  <2>. QED BY <2>1, <2>2
<1>. QED BY InvHolds, <1>1, PTL

(* A payment Pi was told to approve is bound to one row, of its amount or moved on before. *)
THEOREM ApprovedIsBound == Spec => []ApprovedIsRecognised
<1>1. IInv => ApprovedIsRecognised
  <2> SUFFICES ASSUME IInv, NEW p \in Payments, pi[p].approved
               PROVE  \E r \in Rows : /\ intent[r].pay = p
                                      /\ \A s \in Rows \ {r} : intent[s].pay # p
                                      /\ r \in pi[p].fits \/ intent[r].status \in Late
    BY DEF ApprovedIsRecognised
  <2>1. PICK r \in Rows : intent[r].pay = p /\ (r \in pi[p].fits \/ intent[r].status \in Late)
    BY DEF IInv, Consistent, PiOK
  <2>2. \A s \in Rows \ {r} : intent[s].pay # p
    BY <2>1, SetsAssumption DEF IInv, Consistent, RowOK
  <2>. QED BY <2>1, <2>2
<1>. QED BY InvHolds, <1>1, PTL

(* A benefit was paid by the payment its own intent is bound to, of its amount. *)
THEOREM GrantedIsPaid == Spec => []BenefitsArePaid
<1>1. IInv => BenefitsArePaid
  <2> SUFFICES ASSUME IInv, NEW i \in Intents, granted[i]
               PROVE  \E p \in Payments :
                        intent[i].pay = p /\ i \in pi[p].fits /\ pi[p].completed
    BY DEF BenefitsArePaid
  <2>1. intent[i].status \in Paid /\ RowOK(i, intent, pi)
    BY DEF IInv, Consistent, Rows
  <2>. QED BY <2>1 DEF RowOK
<1>. QED BY InvHolds, <1>1, PTL

(* No step reopens an outcome, or takes a payment from the row that is bound to it. *)
THEOREM FinalOutcomes == Spec => OutcomesAreFinal
<1>1. IInv /\ [Next]_vars =>
        [\A r \in Rows :
           /\ intent[r].status \in Closed => intent'[r].status = intent[r].status
           /\ intent[r].status = "COMPLETED" => intent'[r].status \in Paid
           /\ intent[r].pay # None => intent'[r].pay = intent[r].pay]_vars
  <2> SUFFICES ASSUME IInv, [Next]_vars, NEW r \in Rows
               PROVE  /\ intent[r].status \in Closed => intent'[r].status = intent[r].status
                      /\ intent[r].status = "COMPLETED" => intent'[r].status \in Paid
                      /\ intent[r].pay # None => intent'[r].pay = intent[r].pay
    OBVIOUS
  <2>1. Forward(intent, pi, intent', pi')
    BY NextKeepsInv
  <2>. QED BY <2>1 DEF Forward, Paid
<1>. QED BY InvHolds, <1>1, PTL DEF Spec, OutcomesAreFinal

--------------------------------------------------------------------------------
(***************************************************************************)
(* The promise.  What a handler knows is not needed again for it: that a   *)
(* row may become paid, or a payment approved, is read off the invariant   *)
(* in the state that the step leads to.                                    *)
(***************************************************************************)
SameRows == \A r \in Rows : /\ intent'[r].pay = intent[r].pay
                            /\ Phase(intent'[r].status) = Phase(intent[r].status)

SamePayments == \A p \in Payments : /\ pi'[p].fits = pi[p].fits
                                    /\ Money(pi'[p]) = Money(pi[p])

LEMMA SeenNothing ==
  ASSUME SameRows, SamePayments, UNCHANGED granted PROVE UNCHANGED Promise!vars
  BY DEF SameRows, SamePayments, Promise!vars

(* One row changes its phase, one payment its. *)
LEMMA SeenRow ==
  ASSUME NEW r \in Rows, NEW from, NEW to, SamePayments, UNCHANGED granted,
         Phase(intent[r].status) = from,
         \A s \in Rows : intent'[s].pay = intent[s].pay,
         \A s \in Rows :
           Phase(intent'[s].status) = IF s = r THEN to ELSE Phase(intent[s].status)
  PROVE  Promise!RowMoves(r, from, to)
<1>1. [s \in Rows |-> Phase(intent'[s].status)]
        = [[s \in Rows |-> Phase(intent[s].status)] EXCEPT ![r] = to]
  OBVIOUS
<1>. QED BY <1>1 DEF SamePayments, Promise!RowMoves

LEMMA SeenMoney ==
  ASSUME NEW p \in Payments, NEW from, NEW to, SameRows, UNCHANGED granted,
         Money(pi[p]) = from,
         \A q \in Payments : pi'[q].fits = pi[q].fits,
         \A q \in Payments : Money(pi'[q]) = IF q = p THEN to ELSE Money(pi[q])
  PROVE  Promise!MoneyMoves(p, from, to)
<1>1. [q \in Payments |-> Money(pi'[q])]
        = [[q \in Payments |-> Money(pi[q])] EXCEPT ![p] = to]
  OBVIOUS
<1>. QED BY <1>1 DEF SameRows, Promise!MoneyMoves

LEMMA StillUnseen == ASSUME UNCHANGED <<intent, granted, pi>> PROVE UNCHANGED Promise!vars
<1>1. SameRows /\ SamePayments
  BY DEF SameRows, SamePayments
<1>. QED BY <1>1, SeenNothing

--------------------------------------------------------------------------------
(* The row of a transition is paid, closed, or is as open as it was. *)
LEMMA SeenTransition ==
  ASSUME IInv, NEW h \in Handlers, NEW answered \in BOOLEAN, Transition(h, answered)
  PROVE  Promise!Next \/ UNCHANGED Promise!vars
<1> USE SetsAssumption DEF Rows
<1>1. IInv' /\ Forward(intent, pi, intent', pi')
  BY TransitionKeepsInv
<1>2. hand[h].pc \in Transitions /\ hand[h] \in Handler /\ Knows(hand[h], intent, pi)
  <2>1. "idle" \notin Transitions
    BY DEF Transitions
  <2>. QED BY <2>1, Active DEF Transition
<1>3. PICK r \in Rows : r = hand[h].row
  BY <1>2 DEF Knows, Handler, Transitions
<1>4. PICK to \in Statuses \ {"REFUNDED"} : to = Target(hand[h].pc)
  BY <1>2, Targets
<1>5. intent[r].status = to \/ intent[r].status \in AllowedFrom(to)
  BY <1>3, <1>4 DEF Transition, Accepted
<1>6. /\ \A s \in Rows : intent'[s].pay = intent[s].pay
      /\ \A s \in Rows : s # r => intent'[s] = intent[s]
      /\ intent'[r].status = to /\ UNCHANGED <<granted, pi>>
  BY <1>3, <1>4 DEF Transition, IInv, TypeOK, Row
<1>7. SamePayments
  BY <1>6 DEF SamePayments
<1>8. intent[r].status \in Statuses
  BY <1>4, <1>5, Targets DEF IInv, TypeOK, Row, Statuses
<1>9. "none" \notin Statuses
  BY DEF Statuses, Unfinished, Closed
<1>10. CASE Phase(to) = Phase(intent[r].status)
  <2>1. SameRows
    BY <1>6, <1>10 DEF SameRows
  <2>. QED BY <1>6, <1>7, <2>1, SeenNothing
<1>11. CASE Phase(to) # Phase(intent[r].status)
  <2>1. intent[r].status \notin Paid \cup Closed
    <3>1. intent[r].status \in Paid => to \in Paid
      BY <1>1, <1>6 DEF Forward
    <3>2. intent[r].status \in Closed => to = intent[r].status
      BY <1>1, <1>6 DEF Forward
    <3>. QED BY <1>4, <1>8, <1>9, <1>11, <3>1, <3>2 DEF Phase
  <2>2. Phase(intent[r].status) = "open"
    BY <1>8, <1>9, <2>1 DEF Phase
  <2>3. \A s \in Rows :
          Phase(intent'[s].status) = IF s = r THEN Phase(to) ELSE Phase(intent[s].status)
    BY <1>6
  <2>4. Promise!RowMoves(r, "open", Phase(to))
    BY <1>6, <1>7, <2>2, <2>3, SeenRow
  <2>5. CASE to \in Paid
    <3>1. PICK p \in Payments : p = intent[r].pay /\ r \in pi[p].fits /\ pi[p].completed
      BY <1>1, <1>6, <2>5 DEF IInv, Consistent, RowOK
    <3>2. Money(pi[p]) = "kept"
      BY <3>1 DEF IInv, Consistent, PiOK, Unused, Money
    <3>3. Phase(to) = "paid"
      BY <1>9, <2>5 DEF Phase
    <3>4. Promise!Pay(r)
      BY <2>4, <3>1, <3>2, <3>3 DEF Promise!Pay
    <3>. QED BY <3>4 DEF Promise!Next, Promise!Rows
  <2>6. CASE to \notin Paid
    <3>1. Phase(to) = "closed"
      BY <1>4, <1>9, <1>11, <2>2, <2>6 DEF Phase
    <3>2. Promise!Close(r)
      BY <2>4, <3>1 DEF Promise!Close
    <3>. QED BY <3>2 DEF Promise!Next, Promise!Rows
  <2>. QED BY <2>5, <2>6
<1>. QED BY <1>10, <1>11

(* A row that appears: an intent, or the shell of a payment that was made. *)
LEMMA SeenOpen ==
  ASSUME IInv, NEW r \in Rows, intent[r].status = "none",
         intent' = [intent EXCEPT ![r].status = "CREATED"], UNCHANGED <<granted, pi>>,
         r \in Payments => pi[r].asked
  PROVE  Promise!Next
<1> USE SetsAssumption DEF Rows
<1>1. /\ \A s \in Rows : intent'[s].pay = intent[s].pay
      /\ \A s \in Rows : s # r => intent'[s] = intent[s]
      /\ intent'[r].status = "CREATED"
  BY DEF IInv, TypeOK, Row
<1>2. Phase("none") = "none" /\ Phase("CREATED") = "open"
  BY DEF Phase, Paid, Closed
<1>3. SamePayments
  BY DEF SamePayments
<1>4. \A s \in Rows :
        Phase(intent'[s].status) = IF s = r THEN "open" ELSE Phase(intent[s].status)
  BY <1>1, <1>2
<1>5. Promise!RowMoves(r, "none", "open")
  BY <1>1, <1>2, <1>3, <1>4, SeenRow
<1>6. r \in Payments => Money(pi[r]) # "none"
  BY DEF Money
<1>7. Promise!Open(r)
  BY <1>5, <1>6 DEF Promise!Open
<1>. QED BY <1>7 DEF Promise!Next, Promise!Rows

LEMMA SeenShell ==
  ASSUME IInv, NEW h \in Handlers, NEW answered \in BOOLEAN, Shell(h, answered)
  PROVE  Promise!Next \/ UNCHANGED Promise!vars
<1>1. hand[h].pc = "shell" /\ hand[h] \in Handler /\ Knows(hand[h], intent, pi)
  BY Active DEF Shell
<1>2. PICK r \in Rows : r = hand[h].row
  BY <1>1 DEF Knows, Handler
<1>3. UNCHANGED <<granted, pi>>
  BY DEF Shell
<1>4. r \in Payments => pi[r].asked
  BY <1>1, <1>2 DEF Knows
<1>5. CASE intent[r].status = "none"
  BY <1>2, <1>3, <1>4, <1>5, SeenOpen DEF Shell
<1>6. CASE intent[r].status # "none"
  BY <1>2, <1>3, <1>6, StillUnseen DEF Shell
<1>. QED BY <1>5, <1>6

LEMMA SeenBind ==
  ASSUME IInv, NEW h \in Handlers, NEW answered \in BOOLEAN, Bind(h, answered)
  PROVE  Promise!Next \/ UNCHANGED Promise!vars
<1> USE SetsAssumption DEF Rows
<1>1. hand[h].pc = "bind" /\ hand[h] \in Handler /\ Knows(hand[h], intent, pi)
  BY Active DEF Bind
<1>2. PICK r \in Rows, p \in Payments : r = hand[h].row /\ p = hand[h].pay
  BY <1>1 DEF Knows, Handler
<1>3. Bindable(r, p) /\ UNCHANGED <<granted, pi>>
  BY <1>2 DEF Bind
<1>4. /\ intent'[r].pay = p
      /\ \A s \in Rows : s # r => intent'[s] = intent[s]
      /\ \/ intent'[r].status = intent[r].status
         \/ intent[r].status = "CREATED" /\ intent'[r].status = "APPROVAL_PENDING"
  BY <1>2 DEF Bind, Bound, IInv, TypeOK, Row
<1>5. Phase("CREATED") = Phase("APPROVAL_PENDING")
  BY DEF Phase, Paid, Closed
<1>6. \A s \in Rows : Phase(intent'[s].status) = Phase(intent[s].status)
  BY <1>4, <1>5
<1>7. SamePayments
  BY <1>3 DEF SamePayments
<1>8. CASE intent[r].pay = p
  <2>1. SameRows
    BY <1>4, <1>6, <1>8 DEF SameRows
  <2>. QED BY <1>3, <1>7, <2>1, SeenNothing
<1>9. CASE intent[r].pay = None
  <2>1. Phase(intent[r].status) = "open"
    BY <1>3, <1>9 DEF Bindable, Phase, Unfinished, Paid, Closed
  <2>2. \A s \in Rows : intent[s].pay # p
    BY <1>3, <1>9 DEF Bindable
  <2>3. [s \in Rows |-> intent'[s].pay] = [[s \in Rows |-> intent[s].pay] EXCEPT ![r] = p]
    BY <1>4
  <2>4. Promise!Bind(r, p)
    BY <1>3, <1>6, <1>7, <1>9, <2>1, <2>2, <2>3
    DEF SamePayments, Promise!Bind, Promise!Rows
  <2>. QED BY <2>4 DEF Promise!Next, Promise!Rows
<1>. QED BY <1>3, <1>8, <1>9 DEF Bindable

(***************************************************************************)
(* Pi learns more of a payment: that it is to be approved, is signed, is   *)
(* completed; one thing at a time, or nothing new.                         *)
(***************************************************************************)
LEMMA SeenLearned ==
  ASSUME IInv, IInv', NEW p \in Payments, NEW q \in Payment,
         pi' = [pi EXCEPT ![p] = q], UNCHANGED <<intent, granted>>,
         pi[p].asked, q.asked, q.fits = pi[p].fits,
         \/ q.approved /\ q.tx = pi[p].tx /\ q.completed = pi[p].completed
         \/ pi[p].approved /\ q.approved /\ q.tx /\ q.completed = pi[p].completed
         \/ pi[p].tx /\ q.approved /\ q.tx /\ q.completed
         \/ q.approved = pi[p].approved /\ q.tx = pi[p].tx /\ q.completed = pi[p].completed
  PROVE  Promise!Next \/ UNCHANGED Promise!vars
<1> USE SetsAssumption DEF Rows
<1>1. /\ \A s \in Payments : pi'[s] = IF s = p THEN q ELSE pi[s]
      /\ SameRows
  BY DEF IInv, TypeOK, SameRows
<1>2. /\ pi[p].tx => pi[p].approved
      /\ pi[p].completed => pi[p].tx
      /\ q.approved => \E r \in Rows : intent[r].pay = p
  BY <1>1 DEF IInv, Consistent, PiOK, SameRows
<1>3. /\ Money(pi[p]) = IF pi[p].completed THEN "kept" ELSE IF pi[p].tx THEN "signed"
                        ELSE IF pi[p].approved THEN "approved" ELSE "asked"
      /\ Money(q) = IF q.completed THEN "kept" ELSE IF q.tx THEN "signed"
                    ELSE IF q.approved THEN "approved" ELSE "asked"
  BY DEF Money
<1>4. \A s \in Payments : /\ pi'[s].fits = pi[s].fits
                          /\ Money(pi'[s]) = IF s = p THEN Money(q) ELSE Money(pi[s])
  BY <1>1
<1>5. CASE Money(q) = Money(pi[p])
  <2>1. SamePayments
    BY <1>4, <1>5 DEF SamePayments
  <2>. QED BY <1>1, <2>1, SeenNothing
<1>6. CASE Money(q) # Money(pi[p])
  <2>1. \/ Money(pi[p]) = "asked" /\ Money(q) = "approved" /\ q.approved
        \/ Money(pi[p]) = "approved" /\ Money(q) = "signed"
        \/ Money(pi[p]) = "signed" /\ Money(q) = "kept"
    BY <1>2, <1>3, <1>6 DEF Payment
  <2>2. Promise!MoneyMoves(p, Money(pi[p]), Money(q))
    BY <1>1, <1>4, SeenMoney
  <2>3. CASE Money(pi[p]) = "asked" /\ Money(q) = "approved" /\ q.approved
    <3>1. \E r \in Rows : intent[r].pay = p
      BY <1>2, <2>3
    <3>2. Promise!Approve(p)
      BY <2>2, <2>3, <3>1 DEF Promise!Approve, Promise!Rows
    <3>. QED BY <3>2 DEF Promise!Next
  <2>4. CASE Money(pi[p]) = "approved" /\ Money(q) = "signed"
    BY <2>2, <2>4 DEF Promise!Next, Promise!Sign
  <2>5. CASE Money(pi[p]) = "signed" /\ Money(q) = "kept"
    BY <2>2, <2>5 DEF Promise!Next, Promise!Keep
  <2>. QED BY <2>1, <2>3, <2>4, <2>5
<1>. QED BY <1>5, <1>6

LEMMA SeenPiCalls ==
  ASSUME IInv, IInv', NEW h \in Handlers, NEW answered \in BOOLEAN,
         PiApprove(h, answered) \/ PiComplete(h, answered)
  PROVE  Promise!Next \/ UNCHANGED Promise!vars
<1>1. /\ hand[h].pc \in {"piApprove", "piComplete"} /\ hand[h] \in Handler
      /\ Knows(hand[h], intent, pi)
  BY Active DEF PiApprove, PiComplete
<1>2. PICK p \in Payments : p = hand[h].pay
  BY <1>1 DEF Knows
<1>3. pi[p] \in Payment /\ PiOK(p, intent, pi) /\ pi[p].asked
  BY <1>2 DEF PiApprove, PiComplete, IInv, TypeOK, Consistent, PiOK, Unused
<1>4. UNCHANGED <<intent, granted>>
  BY DEF PiApprove, PiComplete
<1>5. CASE PiApprove(h, answered)
  <2> DEFINE q == [pi[p] EXCEPT !.approved = TRUE]
  <2>1. /\ q \in Payment /\ q.approved /\ q.asked /\ q.fits = pi[p].fits
        /\ q.tx = pi[p].tx /\ q.completed = pi[p].completed
    BY <1>3 DEF Payment
  <2>2. pi' = [pi EXCEPT ![p] = q]
    BY <1>2, <1>5 DEF PiApprove, IInv, TypeOK
  <2> HIDE DEF q
  <2>. QED BY <1>3, <1>4, <2>1, <2>2, SeenLearned
<1>6. CASE PiComplete(h, answered)
  <2> DEFINE q == [pi[p] EXCEPT !.completed = TRUE]
  <2>1. /\ q \in Payment /\ q.completed /\ q.asked /\ q.fits = pi[p].fits
        /\ q.tx = pi[p].tx /\ q.approved = pi[p].approved
    BY <1>3 DEF Payment
  <2>2. pi' = [pi EXCEPT ![p] = q] /\ pi[p].tx
    BY <1>2, <1>6 DEF PiComplete, IInv, TypeOK
  <2>3. q.tx /\ q.approved
    BY <1>3, <2>1, <2>2 DEF PiOK
  <2> HIDE DEF q
  <2>. QED BY <1>3, <1>4, <2>1, <2>2, <2>3, SeenLearned
<1>. QED BY <1>5, <1>6

LEMMA SeenUser ==
  ASSUME IInv, IInv', NEW p \in Payments,
         (\E fits \in SUBSET Rows : PiCreate(p, fits)) \/ PiPay(p) \/ PiCancel(p)
  PROVE  Promise!Next \/ UNCHANGED Promise!vars
<1> USE SetsAssumption
<1>1. UNCHANGED <<intent, granted, hand>> /\ pi[p] \in Payment /\ PiOK(p, intent, pi)
  BY DEF PiCreate, PiPay, PiCancel, IInv, TypeOK, Consistent
<1>2. CASE \E fits \in SUBSET Rows : PiCreate(p, fits)
  <2>1. PICK F \in SUBSET Rows : PiCreate(p, F)
    BY <1>2
  <2>2. pi[p] = Unused /\ p \in F
    BY <2>1 DEF PiCreate, Fresh
  <2>3. /\ \A s \in Payments : s # p => pi'[s] = pi[s]
        /\ pi'[p].asked /\ pi'[p].fits = F
        /\ ~ pi'[p].completed /\ ~ pi'[p].tx /\ ~ pi'[p].approved
    <3> DEFINE q == [pi[p] EXCEPT !.asked = TRUE, !.fits = F]
    <3>1. pi' = [pi EXCEPT ![p] = q]
      BY <1>1, <2>1 DEF PiCreate, IInv, TypeOK
    <3>2. /\ q.asked /\ q.fits = F /\ q.completed = pi[p].completed
          /\ q.tx = pi[p].tx /\ q.approved = pi[p].approved
      BY <1>1 DEF Payment
    <3>3. ~ pi[p].completed /\ ~ pi[p].tx /\ ~ pi[p].approved
      BY <2>2 DEF Unused
    <3> HIDE DEF q
    <3>4. pi'[p] = q /\ \A s \in Payments : s # p => pi'[s] = pi[s]
      BY <3>1 DEF IInv, TypeOK
    <3>. QED BY <3>2, <3>3, <3>4
  <2>4. Money(pi[p]) = "none" /\ Money(pi'[p]) = "asked"
    BY <2>2, <2>3 DEF Money, Unused
  <2>5. [s \in Payments |-> Money(pi'[s])] = [[s \in Payments |-> Money(pi[s])] EXCEPT ![p] = "asked"]
    BY <2>3, <2>4
  <2>6. [s \in Payments |-> pi'[s].fits] = [[s \in Payments |-> pi[s].fits] EXCEPT ![p] = F]
    BY <2>3
  <2>7. Promise!Ask(p, F)
    BY <1>1, <2>2, <2>4, <2>5, <2>6 DEF Promise!Ask
  <2>. QED BY <2>7 DEF Promise!Next, Promise!Rows, Rows
<1>3. CASE PiPay(p)
  <2> DEFINE q == [pi[p] EXCEPT !.tx = TRUE]
  <2>1. /\ q \in Payment /\ q.tx /\ q.asked = pi[p].asked /\ q.fits = pi[p].fits
        /\ q.approved = pi[p].approved /\ q.completed = pi[p].completed
    BY <1>1 DEF Payment
  <2>2. pi' = [pi EXCEPT ![p] = q] /\ pi[p].approved /\ pi[p].asked
    BY <1>1, <1>3 DEF PiPay, PiOK, IInv, TypeOK, Unused
  <2> HIDE DEF q
  <2>. QED BY <1>1, <2>1, <2>2, SeenLearned
<1>4. CASE PiCancel(p)
  <2> DEFINE q == [pi[p] EXCEPT !.cancelled = TRUE]
  <2>1. /\ q \in Payment /\ q.tx = pi[p].tx /\ q.asked = pi[p].asked /\ q.fits = pi[p].fits
        /\ q.approved = pi[p].approved /\ q.completed = pi[p].completed
    BY <1>1 DEF Payment
  <2>2. pi' = [pi EXCEPT ![p] = q] /\ pi[p].asked
    BY <1>1, <1>4 DEF PiCancel, IInv, TypeOK
  <2> HIDE DEF q
  <2>. QED BY <1>1, <2>1, <2>2, SeenLearned
<1>. QED BY <1>2, <1>3, <1>4

LEMMA SeenGrant ==
  ASSUME IInv, NEW h \in Handlers, Grant(h)
  PROVE  Promise!Next \/ UNCHANGED Promise!vars
<1>1. hand[h].pc = "grant" /\ hand[h] \in Handler /\ Knows(hand[h], intent, pi)
  BY Active DEF Grant
<1>2. PICK r \in Rows : r = hand[h].row
  BY <1>1 DEF Knows, Handler
<1>3. /\ intent[r].status \in Paid /\ UNCHANGED <<intent, pi>>
      /\ granted' = [i \in Intents |-> granted[i] \/ i = r]
  BY <1>1, <1>2 DEF Knows, Grant
<1>4. CASE r \in Intents
  <2>1. Phase(intent[r].status) = "paid"
    BY <1>3 DEF Phase, Paid
  <2>2. \A i \in Intents : granted'[i] = IF i = r THEN TRUE ELSE granted[i]
    BY <1>3 DEF IInv, TypeOK
  <2>3. granted' = [granted EXCEPT ![r] = TRUE]
    BY <1>3, <1>4, <2>2 DEF IInv, TypeOK
  <2>4. Promise!Serve(r)
    BY <1>2, <1>3, <2>1, <2>3 DEF Promise!Serve
  <2>. QED BY <1>4, <2>4 DEF Promise!Next
<1>5. CASE r \notin Intents
  <2>1. granted' = granted
    BY <1>3, <1>5 DEF IInv, TypeOK
  <2>. QED BY <1>3, <2>1, StillUnseen
<1>. QED BY <1>4, <1>5

(***************************************************************************)
(* Every call of a handler, and every step of the user, is a step of       *)
(* PurchasePromise or is not seen there.                                   *)
(***************************************************************************)
LEMMA StepIsPromised == IInv /\ [Next]_vars => [Promise!Next]_(Promise!vars)
<1> SUFFICES ASSUME IInv, [Next]_vars PROVE Promise!Next \/ UNCHANGED Promise!vars
  OBVIOUS
<1>1. IInv'
  BY NextKeepsInv
<1>2. CASE UNCHANGED <<intent, granted, pi>>
  BY <1>2, StillUnseen
<1>3. ASSUME NEW i \in Intents, CreateIntent(i) PROVE Promise!Next
  BY <1>3, SeenOpen, SetsAssumption DEF CreateIntent, Rows
<1>4. CASE User
  BY <1>1, <1>3, <1>4, SeenUser DEF User
<1>5. ASSUME NEW h \in Handlers, NEW answered \in BOOLEAN, Call(h, answered)
      PROVE  Promise!Next \/ UNCHANGED Promise!vars
  BY <1>1, <1>5, SeenShell, SeenBind, SeenTransition, SeenPiCalls DEF Call
<1>6. ASSUME NEW h \in Handlers, Step(h) PROVE Promise!Next \/ UNCHANGED Promise!vars
  <2>1. CASE VerifyAmount(h) \/ Reconcile(h) \/ Resume(h) \/ ConfirmNotCancelled(h) \/ Refused(h)
    BY <1>2, <2>1 DEF VerifyAmount, Reconcile, Resume, ConfirmNotCancelled, Refused
  <2>. QED BY <1>5, <1>6, <2>1, SeenGrant DEF Step
<1>7. ASSUME NEW h \in Handlers, Fault(h) PROVE Promise!Next \/ UNCHANGED Promise!vars
  <2>1. CASE Fail(h) \/ Crash(h)
    BY <1>2, <2>1 DEF Fail, Crash
  <2>. QED BY <1>5, <1>7, <2>1 DEF Fault
<1>8. ASSUME NEW h \in Handlers, NEW p \in Payments,
             \/ \E r \in Rows : \/ Approve(h, r, p) \/ Complete(h, r, p)
                               \/ Incomplete(h, r, p) \/ Recover(h, r, p)
             \/ IncompleteUnknown(h, p)
      PROVE  UNCHANGED <<intent, granted, pi>>
  BY <1>8 DEF Approve, Complete, Incomplete, Recover, IncompleteUnknown, Start
<1>9. ASSUME NEW h \in Handlers, NEW r \in Rows, Cancel(h, r) \/ Fulfill(h, r)
      PROVE  UNCHANGED <<intent, granted, pi>>
  BY <1>9 DEF Cancel, Fulfill, Start
<1>10. CASE UNCHANGED vars
  BY <1>2, <1>10 DEF vars
<1>. QED BY <1>2, <1>4, <1>6, <1>7, <1>8, <1>9, <1>10 DEF Next

(***************************************************************************)
(* For any number of intents, payments and handlers, the routes implement  *)
(* the promise: what a user can be made to sign is bound to one purchase,  *)
(* a purchase is paid only by the payment bound to it and of its amount,   *)
(* and what is granted was paid.                                           *)
(***************************************************************************)
THEOREM PurchasesKeepPromise == Spec => PromiseKept
<1>1. Init => Promise!Init
  <2> SUFFICES ASSUME Init PROVE Promise!Init
    OBVIOUS
  <2>1. /\ \A r \in Rows : intent[r].status = "none" /\ intent[r].pay = None
        /\ \A p \in Payments : pi[p] = Unused
        /\ granted = [i \in Intents |-> FALSE]
    BY DEF Init
  <2>2. Phase("none") = "none" /\ Money(Unused) = "none" /\ Unused.fits = {}
    BY DEF Phase, Money, Unused
  <2>. QED BY <2>1, <2>2 DEF Promise!Init, Promise!Rows, Rows
<1>. QED BY <1>1, InvHolds, StepIsPromised, PTL DEF Spec, PromiseKept, Promise!Spec
================================================================================
