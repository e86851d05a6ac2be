------------------------------- MODULE GhcPromise -------------------------------
(***************************************************************************)
(* What the GHC ledger promises: every call takes effect in one step, at   *)
(* most once, and is judged by the balance it then meets.  funds is what a *)
(* user's posted rows add up to and pledged what open withdrawals reserve. *)
(* Curation is the exception: it looks at neither the reservations nor, at *)
(* the moment it takes effect, at the balance, so the promise ends for a   *)
(* user who has given to an author.                                        *)
(***************************************************************************)
EXTENDS Integers

CONSTANTS
  Users,
  Keys,         \* what can take effect, a key each
  Sums          \* the amounts

VARIABLES funds, pledged, given, done

vars == <<funds, pledged, given, done>>

Init ==
  /\ funds   = [u \in Users |-> 0]
  /\ pledged = [u \in Users |-> 0]
  /\ given   = {}
  /\ done    = {}

--------------------------------------------------------------------------------
Covers(u, a) == u \in given \/ funds[u] - pledged[u] >= a

Earn(u, a) ==
  /\ funds' = [funds EXCEPT ![u] = @ + a]
  /\ UNCHANGED <<pledged, given>>

Spend(u, a) ==
  /\ Covers(u, a)
  /\ funds' = [funds EXCEPT ![u] = @ - a]
  /\ UNCHANGED <<pledged, given>>

Move(u, v, a) ==
  /\ Covers(u, a)
  /\ funds' = [funds EXCEPT ![u] = @ - a, ![v] = @ + a]
  /\ UNCHANGED <<pledged, given>>

Give(u, v, a) ==
  /\ given' = given \cup {u}
  /\ funds' = [funds EXCEPT ![u] = @ - a, ![v] = @ + a]
  /\ UNCHANGED pledged

Pledge(u, a) ==
  /\ Covers(u, a)
  /\ pledged' = [pledged EXCEPT ![u] = @ + a]
  /\ UNCHANGED <<funds, given>>

(* A pledge ends unpaid, or paid from the funds that were there for it. *)
Withdraw(u, a) ==
  /\ pledged' = [pledged EXCEPT ![u] = @ - a]
  /\ UNCHANGED <<funds, given>>

Redeem(u, a) ==
  /\ Covers(u, 0)
  /\ pledged' = [pledged EXCEPT ![u] = @ - a]
  /\ funds' = [funds EXCEPT ![u] = @ - a]
  /\ UNCHANGED given

(* One key more, which names the operation and its user. *)
Next ==
  \E key \in done' \ done :
    /\ key \in Keys /\ done' = done \cup {key}
    /\ LET u == key[2]
       IN  \E a \in Sums :
             \/ key[1] = "earn"   /\ Earn(u, a)
             \/ key[1] = "spend"  /\ Spend(u, a)
             \/ key[1] = "pledge" /\ Pledge(u, a)
             \/ key[1] = "close"  /\ (Withdraw(u, a) \/ Redeem(u, a))
             \/ key[1] = "move"   /\ \E v \in Users \ {u} : Move(u, v, a)
             \/ key[1] = "give"   /\ \E v \in Users \ {u} : Give(u, v, a)

Spec == Init /\ [][Next]_vars
================================================================================
