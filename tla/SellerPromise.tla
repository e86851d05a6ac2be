----------------------------- MODULE SellerPromise -----------------------------
(***************************************************************************)
(* What the payout of a seller promises.  The proceeds of an order fall    *)
(* due once, until somebody contests them.  A payout asks for all that is  *)
(* due and that no other payout holds; what it holds is not reduced.  It   *)
(* is paid only when its money has been sent, or ends and lets go of what  *)
(* it holds; either is for good.  Money may be sent for a payout that has  *)
(* ended, since whoever ends it does not look.                             *)
(***************************************************************************)
EXTENDS Integers

CONSTANTS Orders, Requests, Net, None

VARIABLES
  standing,  \* standing[o]: its proceeds are "coming", "due" or "contested"
  left,      \* left[o]: what refunds and awards left of them
  held,      \* held[o]: the payout that holds them
  phase,     \* phase[r]: "none", "open", "paid" or "ended"
  amount,    \* amount[r][o]: what payout r carries of order o
  sent       \* the payouts whose money was sent

vars == <<standing, left, held, phase, amount, sent>>

Init ==
  /\ standing = [o \in Orders |-> "coming"]
  /\ left     = [o \in Orders |-> Net]
  /\ held     = [o \in Orders |-> None]
  /\ phase    = [r \in Requests |-> "none"]
  /\ amount   = [r \in Requests |-> [o \in Orders |-> 0]]
  /\ sent     = {}

FallDue(o) ==
  /\ standing[o] = "coming"
  /\ standing' = [standing EXCEPT ![o] = "due"]
  /\ UNCHANGED <<left, held, phase, amount, sent>>

Contest(o) ==
  /\ standing' = [standing EXCEPT ![o] = "contested"]
  /\ UNCHANGED <<left, held, phase, amount, sent>>

Reduce(o, n) ==
  /\ held[o] = None /\ n =< left[o]
  /\ standing' = [standing EXCEPT ![o] = "contested"]
  /\ left' = [left EXCEPT ![o] = @ - n]
  /\ UNCHANGED <<held, phase, amount, sent>>

Due == {o \in Orders : standing[o] = "due" /\ held[o] = None /\ left[o] > 0}

Ask(r) ==
  /\ phase[r] = "none" /\ Due # {}
  /\ phase'  = [phase EXCEPT ![r] = "open"]
  /\ amount' = [amount EXCEPT ![r] = [o \in Orders |-> IF o \in Due THEN left[o] ELSE 0]]
  /\ held'   = [o \in Orders |-> IF o \in Due THEN r ELSE held[o]]
  /\ UNCHANGED <<standing, left, sent>>

End(r) ==
  /\ phase[r] = "open"
  /\ phase' = [phase EXCEPT ![r] = "ended"]
  /\ held'  = [o \in Orders |-> IF held[o] = r THEN None ELSE held[o]]
  /\ UNCHANGED <<standing, left, amount, sent>>

Send(r) ==
  /\ phase[r] \in {"open", "ended"}
  /\ sent' = sent \cup {r}
  /\ UNCHANGED <<standing, left, held, phase, amount>>

Pay(r) ==
  /\ phase[r] = "open" /\ r \in sent
  /\ phase' = [phase EXCEPT ![r] = "paid"]
  /\ UNCHANGED <<standing, left, held, amount, sent>>

Next ==
  \/ \E o \in Orders : FallDue(o) \/ Contest(o) \/ \E n \in 0 .. Net : Reduce(o, n)
  \/ \E r \in Requests : Ask(r) \/ End(r) \/ Send(r) \/ Pay(r)

Spec == Init /\ [][Next]_vars
================================================================================
