-------------------------- MODULE MCMarketplaceOrder --------------------------
(* A listing with few orders and handlers: what TLC checks. *)
EXTENDS MarketplaceOrder, TLC

Symmetry == Permutations(Orders) \cup Permutations(Handlers)
================================================================================
