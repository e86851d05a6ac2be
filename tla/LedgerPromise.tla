----------------------------- MODULE LedgerPromise -----------------------------
(***************************************************************************)
(* What the PI earnings ledger promises: it behaves as if one call were    *)
(* carried out at a time.  An entry is recorded once under its reference,  *)
(* in one step, and is judged by the funds and holds it then meets; and no *)
(* caller hears ok of an entry that is not recorded as the caller asked.   *)
(***************************************************************************)
EXTENDS Integers

CONSTANTS
  Users, Refs, Payouts,
  Calls,                \* the entries callers ask for
  MinPayout, MaxPayout,
  None

VARIABLES
  entry,        \* entry[u][ref]: what is recorded, or None
  funds,        \* funds[u]: what u may still reserve
  held,         \* held[u][p]: what is reserved for payout p
  heard         \* who was told ok, of which reference and entry

vars == <<entry, funds, held, heard>>

Init ==
  /\ entry = [u \in Users |-> [ref \in Refs |-> None]]
  /\ funds = [u \in Users |-> 0]
  /\ held  = [u \in Users |-> [p \in Payouts |-> 0]]
  /\ heard = {}

--------------------------------------------------------------------------------
Earn(u, e) ==
  /\ e.type = "credit"
  /\ funds' = IF e.status = "available" THEN [funds EXCEPT ![u] = @ + e.amt] ELSE funds
  /\ UNCHANGED held

Hold(u, e) ==
  /\ e.type = "reserve"
  /\ e.amt \in MinPayout..MaxPayout
  /\ e.amt <= funds[u]
  /\ funds' = [funds EXCEPT ![u] = @ - e.amt]
  /\ held' = [held EXCEPT ![u][e.pay] = @ + e.amt]

PayOut(u, e) ==
  /\ e.type = "settle"
  /\ e.amt <= held[u][e.pay]
  /\ held' = [held EXCEPT ![u][e.pay] = @ - e.amt]
  /\ UNCHANGED funds

GiveBack(u, e) ==
  /\ e.type = "release_reserve"
  /\ e.amt <= held[u][e.pay]
  /\ held' = [held EXCEPT ![u][e.pay] = @ - e.amt]
  /\ funds' = [funds EXCEPT ![u] = @ + e.amt]

Record(u, ref, e) ==
  /\ entry[u][ref] = None
  /\ entry' = [entry EXCEPT ![u][ref] = e]
  /\ Earn(u, e) \/ Hold(u, e) \/ PayOut(u, e) \/ GiveBack(u, e)

Next ==
  /\ \/ \E u \in Users, ref \in Refs, e \in Calls : Record(u, ref, e)
     \/ UNCHANGED <<entry, funds, held>>
  /\ \A ok \in heard' : entry'[ok.user][ok.ref] = ok.call

Spec == Init /\ [][Next]_vars
================================================================================
