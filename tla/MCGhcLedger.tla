------------------------------ MODULE MCGhcLedger ------------------------------
EXTENDS GhcLedger, TLC

CONSTANTS s1, s2, k1, k2, w1, w2

Three == {1, 2, 3}

Call(o, u, v, k, a) == [op |-> o, user |-> u, to |-> v, ref |-> k, amount |-> a]

(***************************************************************************)
(* User 1 has two open withdrawals to pay for while spending and sending;  *)
(* 1 and 3 send to 2 at once, 2 sends back, and 3 gives to an author.  What*)
(* 1 sends to 2 bears the reference of a request that 1 may accept as well.*)
(***************************************************************************)
SomeCalls ==
  {Call("spend", 1, None, k1, 2), Call("spend", 1, None, k1, 1),
   Call("send", 1, 2, k2, 2), Call("send", 3, 2, k1, 2), Call("send", 2, 1, k2, 1),
   Call("accept", 1, 2, k2, 2), Call("give", 3, 1, None, Share)}
  \cup {Call(o, 1, None, w, Reserve) : o \in {"withdraw", "settle"}, w \in {w1, w2}}

(***************************************************************************)
(* GHC an open withdrawal reserves is not spent another way: what the      *)
(* ledger's balance lock and its spendable balance are for.                *)
(***************************************************************************)
ReservedIsThere == \A u \in Users : posted[u] >= Reserved(u)

(* User 1 asks for a withdrawal while an upvote of theirs pays an author. *)
CurationCalls ==
  {Call("withdraw", 1, None, w1, Reserve), Call("spend", 1, None, k1, 1),
   Call("give", 1, 2, None, Share)}

Symmetry == Permutations({s1, s2}) \cup Permutations({w1, w2})
================================================================================
