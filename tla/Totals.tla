--------------------------------- MODULE Totals ---------------------------------
(***************************************************************************)
(* Sums over the rows of a table.  Amounts are integers of the smallest    *)
(* unit, so a sum is a count of units: of those the rows add, less those   *)
(* the rows take away.  Said this way it needs no recursion.               *)
(***************************************************************************)
EXTENDS Integers, FiniteSets

(* One element for every unit of every row. *)
Units(f) == UNION {{x} \X (1..f[x]) : x \in DOMAIN f}

(* The sum of f over its domain. *)
Total(f) == Cardinality(Units(f)) - Cardinality(Units([x \in DOMAIN f |-> -f[x]]))
================================================================================
