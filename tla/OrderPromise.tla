------------------------------ MODULE OrderPromise ------------------------------
(***************************************************************************)
(* What orders promise about stock and money.  An order holds one unit of  *)
(* the listing's stock.  It is claimed before it is paid for in GHC, and   *)
(* sold only when it was paid; a claimed order that was paid can only be   *)
(* sold, unless an operator releases the claim; a unit that is held, and   *)
(* neither claimed nor sold, may go back to the listing, once, and the     *)
(* order is over then.                                                     *)
(***************************************************************************)
EXTENDS Naturals, FiniteSets

CONSTANT Orders

VARIABLES
  stock,      \* the units the listing has left
  phase,      \* phase[o]: "none", "held", "claimed", "sold" or "free"
  currency,   \* in which o is to be paid
  paid,       \* paid[o]: whether it was
  released    \* released[o]: an operator released its claim when it was paid; not sold since

vars == <<stock, phase, currency, paid, released>>

Init ==
  /\ stock \in Nat
  /\ phase    = [o \in Orders |-> "none"]
  /\ currency = [o \in Orders |-> "none"]
  /\ paid     = [o \in Orders |-> FALSE]
  /\ released = [o \in Orders |-> FALSE]

--------------------------------------------------------------------------------
(* Any number of reservations may end along with another step. *)
Held == {o \in Orders : phase[o] = "held"}

Freed(S) == [o \in Orders |-> IF o \in S THEN "free" ELSE phase[o]]

GiveBack(S) ==
  /\ phase' = Freed(S) /\ stock' = stock + Cardinality(S)
  /\ UNCHANGED <<currency, paid, released>>

Reserve(o, c, S) ==
  /\ phase[o] = "none" /\ stock + Cardinality(S) > 0
  /\ phase' = [Freed(S) EXCEPT ![o] = "held"] /\ stock' = stock + Cardinality(S) - 1
  /\ currency' = [currency EXCEPT ![o] = c]
  /\ UNCHANGED <<paid, released>>

Claim(o, S) ==
  /\ o \in Held \ S
  /\ phase' = [Freed(S) EXCEPT ![o] = "claimed"] /\ stock' = stock + Cardinality(S)
  /\ UNCHANGED <<currency, paid, released>>

(* In Pi an order may be paid for at any time, and in vain. *)
Pay(o) ==
  /\ ~ paid[o]
  /\ currency[o] = "PI" \/ phase[o] = "claimed"
  /\ paid' = [paid EXCEPT ![o] = TRUE]
  /\ UNCHANGED <<stock, phase, currency, released>>

Unclaim(o) ==
  /\ phase[o] = "claimed" /\ ~ paid[o]
  /\ phase' = [phase EXCEPT ![o] = "held"]
  /\ UNCHANGED <<stock, currency, paid, released>>

Sell(o) ==
  /\ phase[o] = "claimed" /\ paid[o]
  /\ phase' = [phase EXCEPT ![o] = "sold"]
  /\ released' = [released EXCEPT ![o] = FALSE]
  /\ UNCHANGED <<stock, currency, paid>>

(* An operator ends the claim of an order that was paid. *)
Release(o) ==
  /\ phase[o] = "claimed" /\ paid[o]
  /\ phase' = [phase EXCEPT ![o] = "held"]
  /\ released' = [released EXCEPT ![o] = TRUE]
  /\ UNCHANGED <<stock, currency, paid>>

(* The seller puts up another number of units. *)
Restock == stock' \in Nat /\ UNCHANGED <<phase, currency, paid, released>>

Next ==
  \/ Restock
  \/ \E S \in SUBSET Held :
       \/ GiveBack(S)
       \/ \E o \in Orders : Claim(o, S) \/ \E c \in {"GHC", "PI"} : Reserve(o, c, S)
  \/ \E o \in Orders : Pay(o) \/ Unclaim(o) \/ Sell(o) \/ Release(o)

Spec == Init /\ [][Next]_vars
================================================================================
