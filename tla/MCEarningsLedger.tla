---------------------------- MODULE MCEarningsLedger ----------------------------
(* A small ledger: the instance TLC checks. *)
EXTENDS EarningsLedger, TLC

Symmetry == Permutations(Sessions) \cup Permutations(Refs)
            \cup Permutations(Payouts)
================================================================================
