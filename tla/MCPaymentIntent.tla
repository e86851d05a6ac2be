---------------------------- MODULE MCPaymentIntent ----------------------------
(* Payments with few intents, payments and handlers: what TLC checks. *)
EXTENDS PaymentIntent, TLC

Symmetry == Permutations(Intents) \cup Permutations(Payments) \cup Permutations(Handlers)
================================================================================
