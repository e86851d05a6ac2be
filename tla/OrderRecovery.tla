----------------------------- MODULE OrderRecovery -----------------------------
(***************************************************************************)
(* What becomes of an order whose payment went through, after all that may *)
(* go wrong in MarketplaceOrder has gone wrong as often as it likes, and   *)
(* then no more (calm).                                                    *)
(***************************************************************************)
EXTENDS MarketplaceOrder

VARIABLE calm

RecoveryInit == Init /\ calm = FALSE

RecoveryNext ==
  \/ ~ calm /\ Next /\ calm' = FALSE
  \/ calm /\ Undisturbed /\ calm' = TRUE
  \/ ~ calm /\ calm' = TRUE /\ UNCHANGED vars

(***************************************************************************)
(* Fairness.  Every call ends, by its answer or after ten seconds, and the *)
(* buyer, who is shown an order that is not confirmed, tries to pay it     *)
(* again and again.                                                        *)
(***************************************************************************)
Fairness ==
  /\ \A h \in Handlers : WF_vars(\E o \in Orders : Step(h, o))
  /\ \A o \in Orders : SF_vars(\E h \in Handlers : Start(h, o, "pay"))

RecoverySpec == RecoveryInit /\ [][RecoveryNext]_<<vars, calm>> /\ Fairness

(***************************************************************************)
(* The pay route keeps the claim of a GHC order whose spend may have been  *)
(* posted, "for idempotent recovery": an order whose spend was posted gets *)
(* its payment verified by a later attempt, unless it is disputed or the   *)
(* operator releases the claim.                                            *)
(***************************************************************************)
SpendIsRecovered ==
  \A o \in Orders :
    [](calm /\ order[o].currency = "GHC" /\ paid[o] =>
         <>(\/ order[o].pay \in {"verified", "refunded"} \/ order[o].status = "disputed"
           \/ released[o]))
================================================================================
