-------------------------------- MODULE GhcLedger --------------------------------
(***************************************************************************)
(* The GHC wallet ledger (ghc_transactions) as the database runs it: daily *)
(* claims, spends, transfers, transfer requests, withdrawal requests and   *)
(* curation, each a transaction of its own.  A transaction takes its locks *)
(* one after the other, reads and decides, then inserts its rows and       *)
(* commits, which frees the locks; it may be rolled back before that.      *)
(*                                                                         *)
(* All but curation take the advisory lock 'ghc_balance:' of every user    *)
(* whose balance or daily limit they decide by.  One UTC day is modelled.  *)
(***************************************************************************)
EXTENDS Integers, FiniteSets, Sequences, Totals

CONSTANTS
  Users,        \* user ids, compared as the lexical order of ids compares them
  Sessions,     \* database sessions running one transaction at a time
  Refs,         \* reference ids callers pass
  Withdrawals,  \* idempotency keys of a user's withdrawal requests
  Amounts,      \* amounts callers pass
  Claim,        \* what a daily claim yields
  Reserve,      \* ghc_amount of a withdrawal request
  Share,        \* what a curation moves to the author
  DailySend, DailyReceive,
  None,
  Calls         \* the calls callers make, of those AllCalls lists

(* Among any users one comes last, as in every finite set of ids. *)
ASSUME UsersAssumption ==
  /\ Users \subseteq Int
  /\ \A U \in (SUBSET Users) \ {{}} : \E m \in U : \A u \in U : u =< m

ASSUME AmountAssumption ==
  /\ Amounts \subseteq Nat \ {0}
  /\ {Claim, Reserve, Share} \subseteq Nat \ {0}
  /\ DailySend \in Nat /\ DailyReceive \in Nat

(* Tables hold finitely many rows. *)
ASSUME SetsAssumption ==
  /\ IsFiniteSet(Users) /\ IsFiniteSet(Refs) /\ IsFiniteSet(Withdrawals)
  /\ None \notin Users

VARIABLES
  claim,        \* claim[u]: the daily claim of u
  posted,       \* posted[u]: the sum of u's posted rows
  spent,        \* spent[u][k]: the amount of u's 'spent' row under k, or 0
  sent,         \* sent[u][k]: u's 'transfer_out' row under k
  given,        \* given[u]: the authors u has given to by curation
  today,        \* today[u]: what u sent and received today
  ask,          \* ask[k]: the transfer request under reference k
  wd,           \* wd[u][w]: where u's withdrawal request w stands
  sess          \* sess[s]: the transaction of session s

vars == <<claim, posted, spent, sent, given, today, ask, wd, sess>>

--------------------------------------------------------------------------------
NoCall == [op |-> "none", user |-> None, to |-> None, ref |-> None, amount |-> 0]

Idle == [call |-> NoCall, got |-> 0, due |-> "nothing"]

NoRow == [to |-> None, amount |-> 0]

NoAsk == [status |-> "none", payer |-> None, requester |-> None, amount |-> 0]

Init ==
  /\ claim  = [u \in Users |-> "none"]
  /\ posted = [u \in Users |-> 0]
  /\ spent  = [u \in Users |-> [k \in Refs |-> 0]]
  /\ sent   = [u \in Users |-> [k \in Refs |-> NoRow]]
  /\ given  = [u \in Users |-> {}]
  /\ today  = [u \in Users |-> [out |-> 0, in |-> 0]]
  /\ ask    = [k \in Refs |-> NoAsk]
  /\ wd     = [u \in Users |-> [w \in Withdrawals |-> "none"]]
  /\ sess   = [s \in Sessions |-> Idle]

(***************************************************************************)
(* The calls.  Accepting a request acts on what its row says, which is set *)
(* when the request is made; a GHC tip settles the way a request is        *)
(* accepted, under the lock of its own row.                                *)
(***************************************************************************)
Pairs == {p \in Users \X Users : p[1] # p[2]}

AllCalls ==
     [op : {"spend"}, user : Users, to : {None}, ref : Refs, amount : Amounts]
  \cup {[op |-> "send", user |-> p[1], to |-> p[2], ref |-> k, amount |-> a] :
          p \in Pairs, k \in Refs, a \in Amounts}
  \cup {[op |-> "accept", user |-> p[1], to |-> p[2], ref |-> k, amount |-> a] :
          p \in Pairs, k \in Refs, a \in Amounts}
  \cup {[op |-> "give", user |-> p[1], to |-> p[2], ref |-> None, amount |-> Share] :
          p \in Pairs}
  \cup [op : {"withdraw", "settle"}, user : Users, to : {None}, ref : Withdrawals,
        amount : {Reserve}]

ASSUME CallsAssumption == Calls \subseteq AllCalls

Possible(c) ==
  CASE c.op = "accept" -> /\ ask[c.ref].status # "none"
                          /\ ask[c.ref].payer = c.user /\ ask[c.ref].requester = c.to
                          /\ ask[c.ref].amount = c.amount
    [] c.op = "settle" -> wd[c.user][c.ref] # "none"
    [] OTHER -> TRUE

(***************************************************************************)
(* The locks of a call, in the order it takes them: the row it acts on,    *)
(* then balances, the two of a transfer in the order of the user ids.      *)
(***************************************************************************)
Balance(u) == <<"balance", u>>

(* Variant: the sender's balance first. *)
SenderFirst(u, v) == <<Balance(u), Balance(v)>>

(* Variant: the sender's balance alone. *)
SenderOnly(u, v) == <<Balance(u)>>

BothBalances(u, v) == IF u < v THEN <<Balance(u), Balance(v)>> ELSE <<Balance(v), Balance(u)>>

Plan(c) ==
  CASE c.op \in {"spend", "withdraw"} -> <<Balance(c.user)>>
    [] c.op = "send"   -> BothBalances(c.user, c.to)
    [] c.op = "accept" -> <<<<"ask", c.ref>>>> \o BothBalances(c.user, c.to)
    [] c.op = "settle" -> <<<<"withdrawal", c.user, c.ref>>, Balance(c.user)>>
    [] c.op = "give"   -> <<<<"social", c.user, c.to>>>>
    [] OTHER -> << >>

Held(s) == {Plan(sess[s].call)[i] : i \in 1..sess[s].got}

Free(l) == \A s \in Sessions : l \notin Held(s)

--------------------------------------------------------------------------------
(* ghc_withdrawal_locked_ghc and ghc_spendable_balance. *)
Open(u) == {w \in Withdrawals : wd[u][w] = "open"}

Reserved(u) == Reserve * Cardinality(Open(u))

(* Variant: reservations are not taken off. *)
SpendablePosted(u) == posted[u]

Spendable(u) == posted[u] - Reserved(u)

(***************************************************************************)
(* What a call decides once it has its locks: to insert, to do nothing     *)
(* more because it was done before, or to refuse.                          *)
(***************************************************************************)
(* Variant: a row under the reference with another amount is no conflict. *)
SpendUnlessSame(c) ==
  IF spent[c.user][c.ref] = c.amount THEN "same"
  ELSE IF Spendable(c.user) >= c.amount THEN "insert" ELSE "refuse"

SpendAnswer(c) ==
  CASE spent[c.user][c.ref] = c.amount -> "same"
    [] spent[c.user][c.ref] # 0 /\ spent[c.user][c.ref] # c.amount -> "refuse"
    [] spent[c.user][c.ref] = 0 ->
         IF Spendable(c.user) >= c.amount THEN "insert" ELSE "refuse"

WithinLimits(c) ==
  /\ today[c.user].out + c.amount =< DailySend
  /\ today[c.to].in + c.amount =< DailyReceive

(* A credit under this reference exists: the unique index raises. *)
CreditTaken(c) == \E v \in Users : sent[v][c.ref].to = c.to

TransferAnswer(c) ==
  LET row == sent[c.user][c.ref]
  IN  CASE row = [to |-> c.to, amount |-> c.amount] -> "same"
        [] row # NoRow /\ row # [to |-> c.to, amount |-> c.amount] -> "refuse"
        [] row = NoRow ->
             IF Spendable(c.user) >= c.amount /\ WithinLimits(c) /\ ~ CreditTaken(c)
               THEN "insert" ELSE "refuse"

(* Variant: the request is marked whatever became of the transfer. *)
AcceptRegardless(c) ==
  CASE ask[c.ref].status = "ACCEPTED" -> "same"
    [] ask[c.ref].status = "PENDING"  -> IF TransferAnswer(c) = "insert" THEN "insert" ELSE "mark"
    [] OTHER -> "refuse"

AcceptAnswer(c) ==
  CASE ask[c.ref].status = "ACCEPTED" -> IF TransferAnswer(c) = "same" THEN "same" ELSE "refuse"
    [] ask[c.ref].status = "PENDING"  -> IF TransferAnswer(c) = "same" THEN "mark"
                                         ELSE TransferAnswer(c)
    [] OTHER -> "refuse"

WithdrawAnswer(c) ==
  CASE wd[c.user][c.ref] # "none" -> "same"
    [] wd[c.user][c.ref] = "none" ->
         IF Spendable(c.user) >= Reserve THEN "insert" ELSE "refuse"

(* Settling leaves out its own reservation, and no other. *)
SettleAnswer(c) ==
  CASE wd[c.user][c.ref] = "completed" -> "same"
    [] wd[c.user][c.ref] = "open" ->
         IF posted[c.user] - Reserve * Cardinality(Open(c.user) \ {c.ref}) >= Reserve
           THEN "insert" ELSE "refuse"
    [] OTHER -> "refuse"

(* Curation compares with the posted balance, and no lock keeps it as it is. *)
GiveAnswer(c) ==
  CASE c.to \in given[c.user] -> "same"
    [] c.to \notin given[c.user] ->
         IF posted[c.user] >= Share THEN "insert" ELSE "refuse"

Answer(c) ==
  CASE c.op = "spend"    -> SpendAnswer(c)
    [] c.op = "send"     -> TransferAnswer(c)
    [] c.op = "accept"   -> AcceptAnswer(c)
    [] c.op = "withdraw" -> WithdrawAnswer(c)
    [] c.op = "settle"   -> SettleAnswer(c)
    [] c.op = "give"     -> GiveAnswer(c)

--------------------------------------------------------------------------------
(* A session's transaction: lock after lock, decide, insert and commit. *)
Unlocked == UNCHANGED <<claim, posted, spent, sent, given, today, ask, wd>>

Begin(s, c) ==
  /\ sess[s] = Idle
  /\ Possible(c)
  /\ Free(Plan(c)[1])
  /\ sess' = [sess EXCEPT ![s] = [call |-> c, got |-> 1, due |-> "nothing"]]
  /\ Unlocked

Acquire(s) ==
  /\ sess[s].got < Len(Plan(sess[s].call))
  /\ Free(Plan(sess[s].call)[sess[s].got + 1])
  /\ sess' = [sess EXCEPT ![s].got = @ + 1]
  /\ Unlocked

(* A closed request is refused under its row lock, before any balance lock. *)
Closed(s) ==
  /\ sess[s].call.op = "accept" /\ sess[s].got = 1
  /\ ask[sess[s].call.ref].status = "CLOSED"
  /\ sess' = [sess EXCEPT ![s] = Idle]
  /\ Unlocked

Ready(s) == sess[s].call # NoCall /\ sess[s].got = Len(Plan(sess[s].call)) /\ sess[s].due = "nothing"

Decide(s) ==
  /\ Ready(s)
  /\ LET answer == Answer(sess[s].call)
     IN  sess' = [sess EXCEPT ![s] =
                    IF answer \in {"insert", "mark"} THEN [@ EXCEPT !.due = answer] ELSE Idle]
  /\ Unlocked

(* Rolled back: an exception, a restricted or blocked party, a lost connection. *)
Abort(s) ==
  /\ sess[s] # Idle
  /\ sess' = [sess EXCEPT ![s] = Idle]
  /\ Unlocked

--------------------------------------------------------------------------------
(* The inserts of each operation, and the commit. *)
Commit(s, op) ==
  /\ sess[s].due = "insert" /\ sess[s].call.op = op
  /\ sess' = [sess EXCEPT ![s] = Idle]

Moved(c) == [posted EXCEPT ![c.user] = @ - c.amount, ![c.to] = @ + c.amount]

Counted(c) == [today EXCEPT ![c.user].out = @ + c.amount, ![c.to].in = @ + c.amount]

Spend(s) ==
  LET c == sess[s].call
  IN  /\ Commit(s, "spend")
      /\ spent' = [spent EXCEPT ![c.user][c.ref] = c.amount]
      /\ posted' = [posted EXCEPT ![c.user] = @ - c.amount]
      /\ UNCHANGED <<claim, sent, given, today, ask, wd>>

Transfer(c) ==
  /\ sent' = [sent EXCEPT ![c.user][c.ref] = [to |-> c.to, amount |-> c.amount]]
  /\ posted' = Moved(c)
  /\ today' = Counted(c)
  /\ UNCHANGED <<claim, spent, given, wd>>

Send(s) ==
  /\ Commit(s, "send")
  /\ Transfer(sess[s].call)
  /\ UNCHANGED ask

Accept(s) ==
  /\ Commit(s, "accept")
  /\ Transfer(sess[s].call)
  /\ ask' = [ask EXCEPT ![sess[s].call.ref].status = "ACCEPTED"]

(* The transfer under the reference was already made: only the mark is missing. *)
MarkAccepted(s) ==
  /\ sess[s].due = "mark"
  /\ ask' = [ask EXCEPT ![sess[s].call.ref].status = "ACCEPTED"]
  /\ sess' = [sess EXCEPT ![s] = Idle]
  /\ UNCHANGED <<claim, posted, spent, sent, given, today, wd>>

Withdraw(s) ==
  LET c == sess[s].call
  IN  /\ Commit(s, "withdraw")
      /\ wd' = [wd EXCEPT ![c.user][c.ref] = "open"]
      /\ UNCHANGED <<claim, posted, spent, sent, given, today, ask>>

Settle(s) ==
  LET c == sess[s].call
  IN  /\ Commit(s, "settle")
      /\ posted' = [posted EXCEPT ![c.user] = @ - Reserve]
      /\ wd' = [wd EXCEPT ![c.user][c.ref] = "completed"]
      /\ UNCHANGED <<claim, spent, sent, given, today, ask>>

Give(s) ==
  LET c == sess[s].call
  IN  /\ Commit(s, "give")
      /\ given' = [given EXCEPT ![c.user] = @ \cup {c.to}]
      /\ posted' = Moved(c)
      /\ today' = Counted(c)
      /\ UNCHANGED <<claim, spent, sent, ask, wd>>

--------------------------------------------------------------------------------
(* One locked row or one insert each, and no balance lock. *)
DailyClaim(u) ==
  /\ claim[u] = "none"
  /\ claim' = [claim EXCEPT ![u] = "pending"]
  /\ UNCHANGED <<posted, spent, sent, given, today, ask, wd, sess>>

(* Variant: the pending row stays pending. *)
RedeemAgain(u) ==
  /\ claim[u] = "pending"
  /\ posted' = [posted EXCEPT ![u] = @ + Claim]
  /\ UNCHANGED <<claim, spent, sent, given, today, ask, wd, sess>>

(* ghc_claim_pending, 48 hours later. *)
Redeem(u) ==
  /\ claim[u] = "pending"
  /\ claim' = [claim EXCEPT ![u] = "posted"]
  /\ posted' = [posted EXCEPT ![u] = @ + Claim]
  /\ UNCHANGED <<spent, sent, given, today, ask, wd, sess>>

(* What the payer of c may accept, asked for by its receiver. *)
CreateAsk(c) ==
  /\ c.op = "accept" /\ ask[c.ref] = NoAsk
  /\ ask' = [ask EXCEPT ![c.ref] = [status |-> "PENDING", payer |-> c.user,
                                   requester |-> c.to, amount |-> c.amount]]
  /\ UNCHANGED <<claim, posted, spent, sent, given, today, wd, sess>>

(* Declined, cancelled or expired. *)
CloseAsk(k) ==
  /\ ask[k].status = "PENDING"
  /\ Free(<<"ask", k>>)
  /\ ask' = [ask EXCEPT ![k].status = "CLOSED"]
  /\ UNCHANGED <<claim, posted, spent, sent, given, today, wd, sess>>

(* Variant: the row is not locked. *)
RejectUnlocked(u, w) ==
  /\ wd[u][w] = "open"
  /\ wd' = [wd EXCEPT ![u][w] = "rejected"]
  /\ UNCHANGED <<claim, posted, spent, sent, given, today, ask, sess>>

(* ghc_withdrawal_set_status to rejected or failed. *)
Reject(u, w) ==
  /\ wd[u][w] = "open"
  /\ Free(<<"withdrawal", u, w>>)
  /\ wd' = [wd EXCEPT ![u][w] = "rejected"]
  /\ UNCHANGED <<claim, posted, spent, sent, given, today, ask, sess>>

Insert(s) ==
  \/ Spend(s) \/ Send(s) \/ Accept(s) \/ MarkAccepted(s)
  \/ Withdraw(s) \/ Settle(s) \/ Give(s)

Next ==
  \/ \E s \in Sessions :
       \/ \E c \in Calls : Begin(s, c)
       \/ Acquire(s) \/ Closed(s) \/ Decide(s) \/ Insert(s) \/ Abort(s)
  \/ \E u \in Users : DailyClaim(u) \/ Redeem(u) \/ \E w \in Withdrawals : Reject(u, w)
  \/ \E c \in Calls : CreateAsk(c)
  \/ \E k \in Refs : CloseAsk(k)

Spec == Init /\ [][Next]_vars

--------------------------------------------------------------------------------
TypeOK ==
  /\ claim  \in [Users -> {"none", "pending", "posted"}]
  /\ posted \in [Users -> Int]
  /\ spent  \in [Users -> [Refs -> Amounts \cup {0}]]
  /\ sent   \in [Users -> [Refs -> [to : Users, amount : Amounts] \cup {NoRow}]]
  /\ given  \in [Users -> SUBSET Users]
  /\ today  \in [Users -> [out : Nat, in : Nat]]
  /\ ask    \in [Refs -> [status : {"PENDING", "ACCEPTED", "CLOSED"}, payer : Users,
                           requester : Users, amount : Amounts] \cup {NoAsk}]
  /\ wd     \in [Users -> [Withdrawals -> {"none", "open", "completed", "rejected"}]]
  /\ sess   \in [Sessions -> [call : Calls \cup {NoCall}, got : 0..3,
                              due : {"nothing", "insert", "mark"}]]

(***************************************************************************)
(* What open withdrawals reserve is there, whatever spends, transfers and  *)
(* withdrawals run at once, for a user who never gave to an author:        *)
(* settling an approved withdrawal never finds the balance short.          *)
(***************************************************************************)
ReservationsCovered == \A u \in Users : given[u] = {} => posted[u] >= Reserved(u)

(***************************************************************************)
(* No day sees more sent by a user, or received by one, than the limits    *)
(* allow, two senders to one recipient at once included.  Curation counts  *)
(* in both sums and asks neither limit.                                    *)
(***************************************************************************)
LimitsKept ==
  \A u \in Users :
    /\ given[u] = {} => today[u].out =< DailySend
    /\ (\A v \in Users : u \notin given[v]) => today[u].in =< DailyReceive

(* An accepted transfer request stands on the transfer it asked for. *)
AcceptedMeansMoved ==
  \A k \in Refs :
    ask[k].status = "ACCEPTED" =>
      sent[ask[k].payer][k] = [to |-> ask[k].requester, amount |-> ask[k].amount]

(***************************************************************************)
(* Redeemed claims are the only source of GHC and spends and settled       *)
(* withdrawals the only sinks: transfers and curation move, never mint.    *)
(***************************************************************************)
Consumed == Total([p \in Users \X Refs |-> spent[p[1]][p[2]]])

Withdrawn ==
  Total([p \in Users \X Withdrawals |-> IF wd[p[1]][p[2]] = "completed" THEN Reserve ELSE 0])

Claimed == Total([u \in Users |-> IF claim[u] = "posted" THEN Claim ELSE 0])

NeverMinted == Total(posted) + Consumed + Withdrawn = Claimed

(***************************************************************************)
(* No set of sessions waits in a circle: in any set of them, one waits for *)
(* no lock another of the set holds.                                       *)
(***************************************************************************)
Waiting(s) == sess[s].got < Len(Plan(sess[s].call))

WaitsFor(s, t) == Waiting(s) /\ Plan(sess[s].call)[sess[s].got + 1] \in Held(t)

NoCircularWait ==
  \A S \in (SUBSET Sessions) \ {{}} : \E s \in S : \A t \in S : ~ WaitsFor(s, t)

(* An answer given to a request or a withdrawal is never taken back. *)
AnswersAreFinal ==
  [][/\ \A k \in Refs : ask[k].status \in {"ACCEPTED", "CLOSED"} => ask'[k] = ask[k]
     /\ \A u \in Users, w \in Withdrawals :
          wd[u][w] \in {"completed", "rejected"} => wd'[u][w] = wd[u][w]]_vars

--------------------------------------------------------------------------------
(* What can take effect, as GhcPromise names it, and what has. *)
EffectKeys ==
  {"earn"} \X Users \cup {"spend", "move"} \X Users \X Refs
  \cup {"give"} \X Users \X Users \cup {"pledge", "close"} \X Users \X Withdrawals

TookEffect(key) ==
  CASE key[1] = "earn"   -> claim[key[2]] = "posted"
    [] key[1] = "spend"  -> spent[key[2]][key[3]] # 0
    [] key[1] = "move"   -> sent[key[2]][key[3]] # NoRow
    [] key[1] = "give"   -> key[3] \in given[key[2]]
    [] key[1] = "pledge" -> wd[key[2]][key[3]] # "none"
    [] key[1] = "close"  -> wd[key[2]][key[3]] \in {"completed", "rejected"}

Promise == INSTANCE GhcPromise WITH
  Keys    <- EffectKeys,
  Sums    <- Amounts \cup {Claim, Reserve, Share},
  funds   <- posted,
  pledged <- [u \in Users |-> Reserved(u)],
  given   <- {u \in Users : given[u] # {}},
  done    <- {key \in EffectKeys : TookEffect(key)}

(***************************************************************************)
(* Whatever is interleaved, each operation takes effect at most once, in   *)
(* one step, and only on funds no open withdrawal reserves.                *)
(***************************************************************************)
PromiseKept == Promise!Spec

================================================================================
