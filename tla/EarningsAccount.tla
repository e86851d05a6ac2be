---------------------------- MODULE EarningsAccount ----------------------------
(***************************************************************************)
(* One user's rows of gh_earnings_ledger_entries and the decision each of  *)
(* the four ledger functions takes about them:                             *)
(*                                                                         *)
(*    gh_earnings_post_credit, gh_earnings_reserve,                        *)
(*    gh_earnings_settle, gh_earnings_release_reserve                      *)
(*                                                                         *)
(* (supabase/migrations/20261105170001, which replaces the earlier         *)
(* definitions).  An account is a value, not a state: EarningsLedger runs  *)
(* the functions as concurrent transactions and PayoutExecution calls them *)
(* from inside the payout functions.                                       *)
(*                                                                         *)
(* A row is kept under its unique_ref: uq_gh_earnings_user_ref allows one. *)
(* The sums that gh_earnings_balances computes over the rows are carried   *)
(* beside them, each insert adding what the row contributes (the proofs of *)
(* EarningsLedger show that they are those sums).                          *)
(***************************************************************************)
EXTENDS Integers

CONSTANTS
  Payouts,      \* payout_request_id values
  Refs,         \* unique_ref values
  Sources,      \* a credit's source_kind, source_table and source_id
  MinPayout,    \* gh_earnings_payout_policy.min_payout_atomic
  MaxPayout,    \* gh_earnings_payout_policy.max_single_payout_atomic
  None          \* SQL NULL: no payout, no source, no row

ASSUME PolicyAssumption == MinPayout \in Nat /\ MaxPayout \in Nat \ {0}

Positive == Nat \ {0}

(***************************************************************************)
(* The call a transaction makes is the row it wants to insert: entry_type, *)
(* amount_atomic, status, payout_request_id and, for a credit, its source. *)
(***************************************************************************)
Credit(amt, status, src) ==
  [type |-> "credit", amt |-> amt, status |-> status, pay |-> None, src |-> src]

Reserve(amt, pay) ==
  [type |-> "reserve", amt |-> amt, status |-> "reserved", pay |-> pay, src |-> None]

Settle(amt, pay) ==
  [type |-> "settle", amt |-> amt, status |-> "paid", pay |-> pay, src |-> None]

Release(amt, pay) ==
  [type |-> "release_reserve", amt |-> amt, status |-> "available", pay |-> pay,
   src |-> None]

Row ==
  [type   : {"credit", "reserve", "settle", "release_reserve"},
   amt    : Positive,
   status : {"pending", "available", "reserved", "paid"},
   pay    : Payouts \cup {None},
   src    : Sources \cup {None}]

ASSUME NoneAssumption == None \notin Payouts \cup Sources \cup Row

Account ==
  [row       : [Refs -> Row \cup {None}],
   available : Int,
   held      : [Payouts -> Int],
   paid      : Int]

EmptyAccount ==
  [row       |-> [ref \in Refs |-> None],
   available |-> 0,
   held      |-> [p \in Payouts |-> 0],
   paid      |-> 0]

(***************************************************************************)
(* What one row adds to the sums of gh_earnings_balances and to the sum,   *)
(* per payout, that settle and release_reserve compute themselves.         *)
(***************************************************************************)
AvailablePart(e) ==
  CASE e.type = "credit" /\ e.status = "available" -> e.amt
    [] e.type = "release_reserve" /\ e.status = "available" -> e.amt
    [] e.type = "reserve" /\ e.status = "reserved" -> -e.amt
    [] OTHER -> 0

HeldPart(e, p) ==
  CASE e.pay = p /\ e.type = "reserve" /\ e.status = "reserved" -> e.amt
    [] e.pay = p /\ e.type = "settle" /\ e.status = "paid" -> -e.amt
    [] e.pay = p /\ e.type = "release_reserve" /\ e.status = "available" -> -e.amt
    [] OTHER -> 0

PaidPart(e) ==
  IF e.type = "settle" /\ e.status = "paid" THEN e.amt ELSE 0

(***************************************************************************)
(* The decision, in the order of the code: a row under the same reference  *)
(* is a duplicate when the payload is the same and a conflict otherwise;   *)
(* then the policy and the balance are checked; else the row is inserted.  *)
(***************************************************************************)
Known(acct, ref) == acct.row[ref] # None

Covered(acct, e) ==
  CASE e.type = "credit" -> TRUE
    [] e.type = "reserve" ->
         /\ MinPayout =< e.amt
         /\ e.amt =< MaxPayout
         /\ e.amt =< acct.available
    [] OTHER -> e.amt =< acct.held[e.pay]

(* Variant: a known reference is a duplicate whatever its payload. *)
AnswerByReference(acct, ref, e) ==
  CASE acct.row[ref] # None -> "duplicate"
    [] acct.row[ref] = None /\ Covered(acct, e) -> "insert"
    [] OTHER -> "refused"

Answer(acct, ref, e) ==
  CASE Known(acct, ref) /\ acct.row[ref] = e -> "duplicate"
    [] Known(acct, ref) /\ acct.row[ref] # e -> "conflict"
    [] ~ Known(acct, ref) /\ Covered(acct, e) -> "insert"
    [] OTHER -> "refused"

Inserted(acct, ref, e) ==
  [row       |-> [acct.row EXCEPT ![ref] = e],
   available |-> acct.available + AvailablePart(e),
   held      |-> [p \in Payouts |-> acct.held[p] + HeldPart(e, p)],
   paid      |-> acct.paid + PaidPart(e)]
================================================================================
