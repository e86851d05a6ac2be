---------------------------- MODULE MCSellerPayout -----------------------------
EXTENDS SellerPayout, TLC

Symmetry == Permutations(Handlers) \cup Permutations(Payments) \cup Permutations(Requests)
================================================================================
