----------------------------- MODULE EarningsLedger -----------------------------
(***************************************************************************)
(* The PI earnings ledger as the database runs it: every call of           *)
(* gh_earnings_post_credit, _reserve, _settle or _release_reserve is a     *)
(* transaction that takes the advisory lock 'gh_earnings:' || user, reads  *)
(* the rows, decides, and inserts at most one row.  The read and the       *)
(* insert are separate steps here, since only the lock keeps another       *)
(* transaction of the same user from coming between them.                  *)
(***************************************************************************)
EXTENDS EarningsAccount, Totals

CONSTANTS
  Users,
  Sessions,     \* database sessions running one transaction at a time
  Amounts       \* amounts callers pass, in atomic units

ASSUME AmountsAssumption == Amounts \subseteq Positive

ASSUME SessionsAssumption == None \notin Sessions

VARIABLES
  acct,         \* acct[u]: the rows of u and their sums
  lock,         \* lock[u]: the session holding pg_advisory_xact_lock, or None
  sess          \* sess[s]: what session s is doing

vars == <<acct, lock, sess>>

(***************************************************************************)
(* The payloads callers can ask for.  The functions refuse every other     *)
(* status, and amounts that are not positive integers, before any read.    *)
(***************************************************************************)
Calls ==
     {Credit(a, st, src) : a \in Amounts, st \in {"pending", "available"}, src \in Sources}
  \cup {Reserve(a, p) : a \in Amounts, p \in Payouts}
  \cup {Settle(a, p)  : a \in Amounts, p \in Payouts}
  \cup {Release(a, p) : a \in Amounts, p \in Payouts}

Idle == [pc |-> "idle"]

SessionState ==
       {Idle}
  \cup [pc : {"insert", "ok"}, user : Users, ref : Refs, call : Calls]

Init ==
  /\ acct = [u \in Users |-> EmptyAccount]
  /\ lock = [u \in Users |-> None]
  /\ sess = [s \in Sessions |-> Idle]

(* Variant: no advisory lock. *)
LockIgnored(u) == u \in Users

LockFree(u) == lock[u] = None

(***************************************************************************)
(* The first half of a function, up to the insert.  A duplicate answers ok *)
(* and a refusal answers an error; both end the transaction, which frees   *)
(* the lock.                                                               *)
(***************************************************************************)
Ask(s, u, ref, e) ==
  LET at(pc) == [pc |-> pc, user |-> u, ref |-> ref, call |-> e]
      answer == Answer(acct[u], ref, e)
  IN  /\ sess[s].pc # "insert"
      /\ LockFree(u)
      /\ \/ /\ answer = "insert"
            /\ lock' = [lock EXCEPT ![u] = s]
            /\ sess' = [sess EXCEPT ![s] = at("insert")]
         \/ /\ answer = "duplicate"
            /\ sess' = [sess EXCEPT ![s] = at("ok")]
            /\ UNCHANGED lock
         \/ /\ answer \in {"conflict", "refused"}
            /\ sess' = [sess EXCEPT ![s] = Idle]
            /\ UNCHANGED lock
      /\ UNCHANGED acct

(***************************************************************************)
(* The insert and the commit.  A row already under the reference is a      *)
(* unique violation, which aborts the transaction.                         *)
(***************************************************************************)
Insert(s) ==
  LET t == sess[s]
  IN  /\ t.pc = "insert"
      /\ IF Known(acct[t.user], t.ref)
           THEN /\ sess' = [sess EXCEPT ![s] = Idle]
                /\ UNCHANGED acct
           ELSE /\ sess' = [sess EXCEPT ![s].pc = "ok"]
                /\ acct' = [acct EXCEPT ![t.user] = Inserted(@, t.ref, t.call)]
      /\ lock' = [lock EXCEPT ![t.user] = None]

(***************************************************************************)
(* The connection is lost or the caller's transaction raises: the insert   *)
(* never happens and the lock goes with the transaction.                   *)
(***************************************************************************)
Abort(s) ==
  /\ sess[s].pc = "insert"
  /\ lock' = [lock EXCEPT ![sess[s].user] = None]
  /\ sess' = [sess EXCEPT ![s] = Idle]
  /\ UNCHANGED acct

Next ==
  \E s \in Sessions :
    \/ \E u \in Users, ref \in Refs, e \in Calls : Ask(s, u, ref, e)
    \/ Insert(s)
    \/ Abort(s)

Spec == Init /\ [][Next]_vars

--------------------------------------------------------------------------------
(* The types of the three variables. *)
TypeOK ==
  /\ acct \in [Users -> Account]
  /\ lock \in [Users -> Sessions \cup {None}]
  /\ sess \in [Sessions -> SessionState]

(* The sums of gh_earnings_balances, and of settle and release_reserve, over the rows. *)
Rows(a) == {ref \in Refs : Known(a, ref)}

Balance(a) == Total([ref \in Rows(a) |-> AvailablePart(a.row[ref])])

HeldFor(a, p) == Total([ref \in Rows(a) |-> HeldPart(a.row[ref], p)])

(***************************************************************************)
(* The same earnings are never spent twice: however calls interleave, the  *)
(* rows of a user never sum to a negative balance, before the clamp at     *)
(* zero that gh_earnings_balances applies for reporting; and no payout is  *)
(* settled and released for more than was reserved for it, in whatever     *)
(* mixture of partial settlements and releases.                            *)
(***************************************************************************)
NothingOverdrawn ==
  \A u \in Users :
    /\ Balance(acct[u]) >= 0
    /\ \A p \in Payouts : HeldFor(acct[u], p) >= 0

(***************************************************************************)
(* A call is told ok only when the row under its reference carries exactly *)
(* its payload: two callers that reuse a reference with different amounts, *)
(* payouts or sources are never both told ok.                              *)
(***************************************************************************)
OkMeansRecorded ==
  \A s \in Sessions :
    sess[s].pc = "ok" => acct[sess[s].user].row[sess[s].ref] = sess[s].call

(***************************************************************************)
(* The ledger is append-only, and only a new row moves a balance: no       *)
(* retry, conflict or refusal changes what a user has.                     *)
(***************************************************************************)
OnlyNewRowsMoveBalances ==
  [][\A u \in Users :
       /\ \A ref \in Refs : Known(acct[u], ref) => acct'[u].row[ref] = acct[u].row[ref]
       /\ acct'[u] # acct[u] => \E ref \in Refs : acct'[u].row[ref] # acct[u].row[ref]]_vars

(***************************************************************************)
(* The ledger keeps the promise of LedgerPromise: sessions that read first *)
(* and insert later cannot be told from calls carried out one at a time.   *)
(***************************************************************************)
Heard ==
  {[user |-> sess[s].user, ref |-> sess[s].ref, call |-> sess[s].call] :
     s \in {t \in Sessions : sess[t].pc = "ok"}}

Promise == INSTANCE LedgerPromise WITH entry <- [u \in Users |-> acct[u].row],
                                       funds <- [u \in Users |-> acct[u].available],
                                       held  <- [u \in Users |-> acct[u].held],
                                       heard <- Heard

PromiseKept == Promise!Spec
================================================================================
