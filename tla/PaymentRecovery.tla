---------------------------- MODULE PaymentRecovery ----------------------------
(***************************************************************************)
(* What becomes of a payment the user made, after all that may go wrong in *)
(* PaymentIntent has gone wrong as often as it likes, and then no more.    *)
(* Handlers are still refused by the database and by Pi then.              *)
(***************************************************************************)
EXTENDS PaymentIntent

(***************************************************************************)
(* Everything but calls that go wrong, and reads that do not find a bound  *)
(* row: what users and Pi do, handlers that start, and their other steps.  *)
(***************************************************************************)
Undisturbed ==
  \/ UNCHANGED hand
  \/ \E h \in Handlers :
       /\ hand[h] = Idle /\ hand'[h] # Idle
       /\ hand'[h].row = None => \A r \in Rows : intent[r].pay # hand'[h].pay
  \/ \E h \in Handlers : hand[h] # Idle /\ Step(h)

(***************************************************************************)
(* Fairness.  Every call ends, by its answer or after 15 seconds.  Pi      *)
(* reports an unfinished payment to the client each time the user comes    *)
(* back, and the client passes it to the incomplete route: a handler for a *)
(* payment that is still open is started again and again, and finds the    *)
(* row that is bound to it.                                                *)
(***************************************************************************)
Fairness ==
  /\ \A h \in Handlers : WF_vars(hand[h] # Idle /\ Step(h))
  /\ \A p \in Payments :
       SF_vars(\E h \in Handlers, r \in Rows : intent[r].pay = p /\ Incomplete(h, r, p))

RecoverySpec == Spec /\ Fairness

RowIn(p, statuses) == \E r \in Rows : intent[r].pay = p /\ intent[r].status \in statuses

(***************************************************************************)
(* A payment the user made does not stay in the middle: if disturbances    *)
(* cease its row gets completed and stays so, unless it was closed (by an  *)
(* approval that timed out, for another amount, or by the user cancelling  *)
(* too late).                                                              *)
(***************************************************************************)
PaidIsRecorded ==
  <>[][Undisturbed]_vars =>
    \A p \in Payments : <>[](pi[p].tx => RowIn(p, Paid \cup {"FAILED", "CANCELLED"}))
================================================================================
