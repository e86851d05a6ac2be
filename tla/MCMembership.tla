----------------------------- MODULE MCMembership ------------------------------
EXTENDS Membership, TLC

CONSTANTS i1, i2, k1

(* An intent of either tier, of a month each; the GHC purchase is of the tier of i1. *)
Tiers == i1 :> "vip" @@ i2 :> "vvip" @@ k1 :> "vip"
Terms == i1 :> 1 @@ i2 :> 1 @@ k1 :> 1
================================================================================
