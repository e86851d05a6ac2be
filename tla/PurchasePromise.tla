---------------------------- MODULE PurchasePromise ----------------------------
(***************************************************************************)
(* What payments by users promise.  A purchase is paid by one payment, of  *)
(* its own amount, and served only when it is paid.  A payment is bound to *)
(* one purchase for good before Pi is asked to approve it: what the user   *)
(* can be made to sign is what the server will recognise.  It may then     *)
(* turn out to have another amount, and pays for nothing.  A purchase that *)
(* is paid or closed stays so.                                             *)
(*                                                                         *)
(* A payment nobody knows the purchase of gets a row of its own name.      *)
(***************************************************************************)
CONSTANTS Intents, Payments, None

VARIABLES
  phase,     \* phase[r] of a row: "none", "open", "paid" or "closed"
  bound,     \* bound[r]: the payment it is bound to
  fits,      \* fits[p]: the purchases whose amount the payment has
  money,     \* money[p]: "none", "asked", "approved", "signed" or "kept"
  served     \* served[i]: whether the user got what was bought

vars == <<phase, bound, fits, money, served>>

Rows == Intents \cup Payments

Init ==
  /\ phase  = [r \in Rows |-> "none"]
  /\ bound  = [r \in Rows |-> None]
  /\ fits   = [p \in Payments |-> {}]
  /\ money  = [p \in Payments |-> "none"]
  /\ served = [i \in Intents |-> FALSE]

(* A row alone, or a payment alone, goes from one phase to the next. *)
RowMoves(r, from, to) ==
  /\ phase[r] = from /\ phase' = [phase EXCEPT ![r] = to]
  /\ UNCHANGED <<bound, fits, money, served>>

MoneyMoves(p, from, to) ==
  /\ money[p] = from /\ money' = [money EXCEPT ![p] = to]
  /\ UNCHANGED <<phase, bound, fits, served>>

Open(r) ==
  /\ r \in Payments => money[r] # "none"
  /\ RowMoves(r, "none", "open")

Ask(p, F) ==
  /\ money[p] = "none" /\ p \in F
  /\ money' = [money EXCEPT ![p] = "asked"]
  /\ fits'  = [fits EXCEPT ![p] = F]
  /\ UNCHANGED <<phase, bound, served>>

Bind(r, p) ==
  /\ phase[r] = "open" /\ bound[r] = None
  /\ \A s \in Rows : bound[s] # p
  /\ bound' = [bound EXCEPT ![r] = p]
  /\ UNCHANGED <<phase, fits, money, served>>

Approve(p) ==
  /\ \E r \in Rows : bound[r] = p
  /\ MoneyMoves(p, "asked", "approved")

Sign(p)  == MoneyMoves(p, "approved", "signed")
Keep(p)  == MoneyMoves(p, "signed", "kept")
Close(r) == RowMoves(r, "open", "closed")

Pay(r) ==
  /\ \E p \in Payments : bound[r] = p /\ money[p] = "kept" /\ r \in fits[p]
  /\ RowMoves(r, "open", "paid")

Serve(i) ==
  /\ phase[i] = "paid"
  /\ served' = [served EXCEPT ![i] = TRUE]
  /\ UNCHANGED <<phase, bound, fits, money>>

Next ==
  \/ \E r \in Rows :
       Open(r) \/ Pay(r) \/ Close(r) \/ \E p \in Payments : Bind(r, p)
  \/ \E p \in Payments :
       \/ Approve(p) \/ Sign(p) \/ Keep(p)
       \/ \E F \in SUBSET Rows : Ask(p, F)
  \/ \E i \in Intents : Serve(i)

Spec == Init /\ [][Next]_vars
================================================================================
