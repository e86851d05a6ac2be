---------------------------- MODULE PayoutExecution ----------------------------
(***************************************************************************)
(* The PI earnings payout, from the request to its end: the requests of    *)
(* one user (gh_pi_earnings_payout_requests) with the ledger account they  *)
(* reserve from, the executions of the withdrawal route that carry them    *)
(* out, the app-wallet lane (gh_pi_a2u_sequence_lease) they share with the *)
(* seller and cashback domains, and Pi, the external provider.             *)
(*                                                                         *)
(* Each call an execution makes, to the database or to Pi, is one step.    *)
(* The call may take effect and its answer still be lost, it may fail with *)
(* no effect, and the process may stop between any two calls.              *)
(***************************************************************************)
EXTENDS Integers, FiniteSets

CONSTANTS
  Requests,     \* payout requests, one idempotency key each
  Executions,   \* handler invocations that may be in progress at a time
  Payments,     \* Pi payments that may be of interest at a time
  Gross,        \* gross_atomic of a request
  Earned,       \* what the user was credited before
  MinPayout, MaxPayout,
  Foreign,      \* the seller and cashback users of the lane
  None,
  Overruns      \* whether a lease may run out while its holder is in a call

CreditRef     == [kind |-> "credit",  req |-> None]
ReserveRef(r) == [kind |-> "reserve", req |-> r]
SettleRef(r)  == [kind |-> "settle",  req |-> r]
ReleaseRef(r) == [kind |-> "release", req |-> r]

LedgerRefs == {CreditRef} \cup [kind : {"reserve", "settle", "release"}, req : Requests]

Ledger == INSTANCE EarningsAccount
            WITH Payouts <- Requests, Refs <- LedgerRefs, Sources <- {"earned"}

ASSUME AmountAssumption ==
  /\ Gross \in Ledger!Positive /\ Earned \in Ledger!Positive
  /\ MinPayout \in Nat /\ MaxPayout \in Nat

ASSUME SetsAssumption ==
  /\ IsFiniteSet(Requests)
  /\ None \notin Requests \cup Executions \cup Payments \cup Ledger!Row
  /\ Foreign \notin Requests \cup Executions \cup {None}

ASSUME OverrunsAssumption == Overruns \in BOOLEAN

VARIABLES
  acct,         \* the user's ledger account
  req,          \* req[r]: the row of r, with its execution lease
  lane,         \* the singleton lease of the app-wallet sequence
  exec,         \* exec[x]: what execution x does next, for which request
  pi            \* pi[p]: what Pi knows of payment p

vars == <<acct, req, lane, exec, pi>>

--------------------------------------------------------------------------------
(* Variant: an uncertain request cannot be taken up again. *)
UnfinishedButCertain == {"reserved", "processing"}

Unfinished == {"reserved", "processing", "uncertain"}

Steps == {"find", "renewCreate", "create", "bind", "read", "release",
          "renewSubmit", "submit", "renewComplete", "complete", "receipt",
          "renewSettle", "settle"}

Ends == {"endUncertain", "endCertain"}

NoLane == [holder |-> None, req |-> None, live |-> FALSE]

Idle == [pc |-> "idle", req |-> None, pay |-> None]

Unused == [for |-> None, state |-> "unused", sent |-> 0,
           verified |-> FALSE, completed |-> FALSE]

Init ==
  /\ acct = Ledger!Inserted(Ledger!EmptyAccount, CreditRef,
                            Ledger!Credit(Earned, "available", "earned"))
  /\ req  = [r \in Requests |-> [status |-> "none", pay |-> None, started |-> FALSE,
                                 token |-> None, live |-> FALSE]]
  /\ lane = NoLane
  /\ exec = [x \in Executions |-> Idle]
  /\ pi   = [p \in Payments |-> Unused]

(***************************************************************************)
(* A ledger function called inside a payout function: ok or duplicate let  *)
(* the caller go on, everything else makes it raise and change nothing.    *)
(***************************************************************************)
Accepted(ref, e) == Ledger!Answer(acct, ref, e) \in {"insert", "duplicate"}

(* Variant: a settlement or release that is repeated posts its amount again. *)
AfterAgain(ref, e) == Ledger!Inserted(acct, ref, e)

After(ref, e) ==
  IF Ledger!Answer(acct, ref, e) = "insert" THEN Ledger!Inserted(acct, ref, e) ELSE acct

(***************************************************************************)
(* Requests: made and cancelled by the user, marked by the operator.       *)
(***************************************************************************)
CreateRequest(r) ==
  LET e == Ledger!Reserve(Gross, r)
  IN  /\ req[r].status = "none"
      /\ Ledger!Answer(acct, ReserveRef(r), e) = "insert"
      /\ acct' = Ledger!Inserted(acct, ReserveRef(r), e)
      /\ req' = [req EXCEPT ![r].status = "reserved"]
      /\ UNCHANGED <<lane, exec, pi>>

(* Variant: whatever no execution holds a live lease on may be cancelled. *)
UnstartedIfIdle == {r \in Requests : req[r].status \in Unfinished /\ ~ req[r].live}

Unstarted == {r \in Requests : /\ req[r].status = "reserved"
                               /\ ~ req[r].started
                               /\ req[r].pay = None
                               /\ req[r].token = None}

(* The account after the cancel loop has released every request of S. *)
ReleasedAll(S) ==
  [row       |-> [ref \in LedgerRefs |->
                    IF ref.kind = "release" /\ ref.req \in S
                      THEN Ledger!Release(Gross, ref.req)
                      ELSE acct.row[ref]],
   available |-> acct.available + Cardinality(S) * Gross,
   held      |-> [r \in Requests |-> acct.held[r] - (IF r \in S THEN Gross ELSE 0)],
   paid      |-> acct.paid]

CancelUnstarted ==
  /\ Unstarted # {}
  /\ \A r \in Unstarted :
       Ledger!Answer(acct, ReleaseRef(r), Ledger!Release(Gross, r)) = "insert"
  /\ acct' = ReleasedAll(Unstarted)
  /\ req' = [r \in Requests |-> IF r \in Unstarted
                                  THEN [req[r] EXCEPT !.status = "released"]
                                  ELSE req[r]]
  /\ UNCHANGED <<lane, exec, pi>>

MarkUncertain(r) ==
  /\ req[r].status \in {"reserved", "processing"}
  /\ req' = [req EXCEPT ![r].status = "uncertain"]
  /\ UNCHANGED <<acct, lane, exec, pi>>

--------------------------------------------------------------------------------
(***************************************************************************)
(* One execution.  Goto(x, pc) is its next program counter; an execution   *)
(* that threw or returned early goes to its finally block with uncertain   *)
(* still true.  Answer(x, answered, pc) is a call that took effect: with   *)
(* the answer lost the execution throws.                                   *)
(***************************************************************************)
Goto(x, pc) == exec' = [exec EXCEPT ![x].pc = pc]

Answer(x, answered, pc) == Goto(x, IF answered THEN pc ELSE "endUncertain")

(* The check of heartbeat and bind: both leases live and held by x. *)
HoldsLeases(x) ==
  LET r == exec[x].req
  IN  /\ lane = [holder |-> x, req |-> r, live |-> TRUE]
      /\ req[r].token = x
      /\ req[r].live
      /\ req[r].status = "processing"

(* Every invocation draws a fresh token: x is not the token of a live lease. *)
Fresh(x) ==
  /\ \A q \in Requests : ~ (req[q].token = x /\ req[q].live)
  /\ ~ (lane.holder = x /\ lane.live)

(* Variant: each domain keeps a mutex of its own. *)
LaneFreeOfOthers == lane.live => lane.holder # Foreign

LaneFree == ~ lane.live

(***************************************************************************)
(* Claiming both leases.  If the answer is lost the handler returns before *)
(* its try block and nothing gives the leases back before they run out.    *)
(***************************************************************************)
Begin(x, r, answered) ==
  /\ exec[x] = Idle
  /\ Fresh(x)
  /\ req[r].status \in Unfinished
  /\ ~ req[r].live
  /\ LaneFree
  /\ lane' = [holder |-> x, req |-> r, live |-> TRUE]
  /\ req' = [req EXCEPT ![r] = [status |-> "processing", pay |-> @.pay, started |-> TRUE,
                                token |-> x, live |-> TRUE]]
  /\ exec' = IF answered
               THEN [exec EXCEPT ![x] = [pc  |-> IF req[r].pay = None THEN "find" ELSE "read",
                                         req |-> r, pay |-> req[r].pay]]
               ELSE exec
  /\ UNCHANGED <<acct, pi>>

(* Variant: the answer of the heartbeat is not looked at. *)
HeartbeatUnchecked(x, pc, next) ==
  /\ exec[x].pc = pc
  /\ Goto(x, next)
  /\ UNCHANGED <<acct, req, lane, pi>>

Heartbeat(x, pc, next) ==
  /\ exec[x].pc = pc
  /\ Goto(x, IF HoldsLeases(x) THEN next ELSE "endUncertain")
  /\ UNCHANGED <<acct, req, lane, pi>>

(***************************************************************************)
(* No payment is bound: look for one an earlier execution created.  Any    *)
(* other incomplete payment of the app stops the payout for review.        *)
(***************************************************************************)
Incomplete == {p \in Payments : pi[p].state = "open" /\ ~ pi[p].completed}

Find(x) ==
  LET own == {p \in Incomplete : pi[p].for = exec[x].req}
  IN  /\ exec[x].pc = "find"
      /\ \/ \E p \in own : exec' = [exec EXCEPT ![x].pay = p, ![x].pc = "bind"]
         \/ own = {} /\ Incomplete # {} /\ Goto(x, "endUncertain")
         \/ Incomplete = {} /\ Goto(x, "renewCreate")
      /\ UNCHANGED <<acct, req, lane, pi>>

Create(x, answered) ==
  /\ exec[x].pc = "create"
  /\ \E p \in Payments :
       /\ pi[p] = Unused
       /\ pi' = [pi EXCEPT ![p] = [Unused EXCEPT !.for = exec[x].req, !.state = "open"]]
       /\ exec' = IF answered
                    THEN [exec EXCEPT ![x].pay = p, ![x].pc = "bind"]
                    ELSE [exec EXCEPT ![x].pc = "endUncertain"]
  /\ UNCHANGED <<acct, req, lane>>

(* Variant: the provider payment is written unconditionally. *)
CanBindAlways(x) == exec[x].pay # None

CanBind(x) == HoldsLeases(x) /\ req[exec[x].req].pay \in {None, exec[x].pay}

Bind(x, answered) ==
  /\ exec[x].pc = "bind"
  /\ CanBind(x)
  /\ req' = [req EXCEPT ![exec[x].req].pay = exec[x].pay]
  /\ Answer(x, answered, "read")
  /\ UNCHANGED <<acct, lane, pi>>

BindRefused(x) ==
  /\ exec[x].pc = "bind"
  /\ ~ CanBind(x)
  /\ Goto(x, "endUncertain")
  /\ UNCHANGED <<acct, req, lane, pi>>

(***************************************************************************)
(* What Pi says of the bound payment decides the rest: it must be one made *)
(* for this request; a cancelled payment without a transaction is          *)
(* released, a verified transaction is taken over from the execution that  *)
(* made it, an unverified one waits.                                       *)
(***************************************************************************)
Matches(x) == pi[exec[x].pay].for = exec[x].req

Read(x) ==
  LET p == pi[exec[x].pay]
  IN  /\ exec[x].pc = "read"
      /\ \/ ~ Matches(x) /\ Goto(x, "endUncertain")
         \/ Matches(x) /\ p.state = "cancelled" /\ p.sent = 0 /\ Goto(x, "release")
         \/ p.state = "cancelled" /\ p.sent > 0 /\ Goto(x, "endUncertain")
         \/ Matches(x) /\ p.state = "open" /\ p.sent = 0 /\ Goto(x, "renewSubmit")
         \/ p.state = "open" /\ p.sent > 0 /\ ~ p.verified /\ Goto(x, "endUncertain")
         \/ /\ Matches(x) /\ p.state = "open" /\ p.sent > 0 /\ p.verified
            /\ Goto(x, IF p.completed THEN "receipt" ELSE "renewComplete")
      /\ UNCHANGED <<acct, req, lane, pi>>

(* Pi makes a transfer for every submit of a payment it has not cancelled. *)
Submit(x, answered) ==
  /\ exec[x].pc = "submit"
  /\ pi[exec[x].pay].state = "open"
  /\ pi' = [pi EXCEPT ![exec[x].pay].sent = @ + 1]
  /\ Answer(x, answered, "renewComplete")
  /\ UNCHANGED <<acct, req, lane>>

Complete(x, answered) ==
  /\ exec[x].pc = "complete"
  /\ pi[exec[x].pay].state = "open"
  /\ pi' = [pi EXCEPT ![exec[x].pay].completed = TRUE]
  /\ Answer(x, answered, "receipt")
  /\ UNCHANGED <<acct, req, lane>>

PiRefuses(x) ==
  /\ exec[x].pc \in {"submit", "complete"}
  /\ pi[exec[x].pay].state = "cancelled"
  /\ Goto(x, "endUncertain")
  /\ UNCHANGED <<acct, req, lane, pi>>

(* Variant: the transaction need not be verified. *)
ReceiptUnverified(x) ==
  LET p == pi[exec[x].pay]
  IN  /\ exec[x].pc = "receipt"
      /\ Goto(x, IF p.state = "open" /\ p.sent > 0 /\ p.completed
                   THEN "renewSettle" ELSE "endUncertain")
      /\ UNCHANGED <<acct, req, lane, pi>>

(* The independent read after the write: only a full receipt may settle. *)
Receipt(x) ==
  LET p == pi[exec[x].pay]
  IN  /\ exec[x].pc = "receipt"
      /\ Goto(x, IF p.state = "open" /\ p.sent > 0 /\ p.verified /\ p.completed
                   THEN "renewSettle" ELSE "endUncertain")
      /\ UNCHANGED <<acct, req, lane, pi>>

(***************************************************************************)
(* settle_verified and release_verified_failure, each one transaction over *)
(* the request and the ledger.  Neither looks at the leases.               *)
(***************************************************************************)
Settle(x, answered) ==
  LET r == exec[x].req
      e == Ledger!Settle(Gross, r)
  IN  /\ exec[x].pc = "settle"
      /\ req[r].status \in Unfinished
      /\ Accepted(SettleRef(r), e)
      /\ acct' = After(SettleRef(r), e)
      /\ req' = [req EXCEPT ![r].status = "paid", ![r].pay = exec[x].pay]
      /\ Answer(x, answered, "endCertain")
      /\ UNCHANGED <<lane, pi>>

SettleAgain(x) ==
  LET r == exec[x].req
      e == Ledger!Settle(Gross, r)
  IN  /\ exec[x].pc = "settle"
      /\ \/ /\ req[r].status = "paid"
            /\ Goto(x, IF req[r].pay = exec[x].pay THEN "endCertain" ELSE "endUncertain")
         \/ /\ req[r].status # "paid"
            /\ req[r].status \in Unfinished => ~ Accepted(SettleRef(r), e)
            /\ Goto(x, "endUncertain")
      /\ UNCHANGED <<acct, req, lane, pi>>

Release(x, answered) ==
  LET r == exec[x].req
      e == Ledger!Release(Gross, r)
  IN  /\ exec[x].pc = "release"
      /\ req[r].status \in Unfinished
      /\ Accepted(ReleaseRef(r), e)
      /\ acct' = After(ReleaseRef(r), e)
      /\ req' = [req EXCEPT ![r].status = "released", ![r].pay = exec[x].pay]
      /\ Answer(x, answered, "endCertain")
      /\ UNCHANGED <<lane, pi>>

ReleaseAgain(x) ==
  LET r == exec[x].req
      e == Ledger!Release(Gross, r)
  IN  /\ exec[x].pc = "release"
      /\ \/ req[r].status = "released" /\ Goto(x, "endCertain")
         \/ /\ req[r].status # "released"
            /\ req[r].status \in Unfinished => ~ Accepted(ReleaseRef(r), e)
            /\ Goto(x, "endUncertain")
      /\ UNCHANGED <<acct, req, lane, pi>>

(***************************************************************************)
(* The finally block.  end_execution needs the tokens, not live leases,    *)
(* and overwrites the status, whatever it is, if uncertain is true.        *)
(***************************************************************************)
(* Variant: an uncertain request is queued again as reserved. *)
EndStatusReserved(x) == IF exec[x].pc = "endUncertain" THEN "reserved" ELSE req[exec[x].req].status

EndStatus(x) == IF exec[x].pc = "endUncertain" THEN "uncertain" ELSE req[exec[x].req].status

End(x) ==
  LET r    == exec[x].req
      mine == lane.holder = x /\ lane.req = r /\ req[r].token = x
  IN  /\ exec[x].pc \in Ends
      /\ exec' = [exec EXCEPT ![x] = Idle]
      /\ IF mine
           THEN /\ req' = [req EXCEPT ![r].status = EndStatus(x),
                                      ![r].token = None, ![r].live = FALSE]
                /\ lane' = NoLane
           ELSE UNCHANGED <<req, lane>>
      /\ UNCHANGED <<acct, pi>>

(* A call fails with no effect, or the heartbeat timer reports a lost lease. *)
Fail(x) ==
  /\ exec[x].pc \in Steps
  /\ Goto(x, "endUncertain")
  /\ UNCHANGED <<acct, req, lane, pi>>

(* The process stops; or the call of end_execution itself fails. *)
Crash(x) ==
  /\ exec[x].pc # "idle"
  /\ exec' = [exec EXCEPT ![x] = Idle]
  /\ UNCHANGED <<acct, req, lane, pi>>

--------------------------------------------------------------------------------
(***************************************************************************)
(* Time: leases run out.  begin and heartbeat extend both leases and bind  *)
(* the lane only, so a request's lease never outlives the lane's.  While   *)
(* an execution waits for one of the calls it made right after a heartbeat *)
(* its timer renews the leases; Overruns lets them run out even then (the  *)
(* process suspended, or cut off from the database, for ten minutes).      *)
(***************************************************************************)
InCall(x) == exec[x].pc \in {"create", "submit", "complete", "settle"}

LapseRequest(r) ==
  /\ req[r].live
  /\ Overruns \/ ~ InCall(req[r].token)
  /\ req' = [req EXCEPT ![r].live = FALSE]
  /\ UNCHANGED <<acct, lane, exec, pi>>

LapseLane ==
  /\ lane.live
  /\ lane.holder # Foreign => ~ req[lane.req].live
  /\ lane' = [lane EXCEPT !.live = FALSE]
  /\ UNCHANGED <<acct, req, exec, pi>>

(***************************************************************************)
(* The seller and cashback payouts, as the lane and Pi see them: they hold *)
(* the lane for a while, and may leave an incomplete payment behind.       *)
(***************************************************************************)
ForeignBegin ==
  /\ LaneFree
  /\ lane' = [holder |-> Foreign, req |-> None, live |-> TRUE]
  /\ UNCHANGED <<acct, req, exec, pi>>

ForeignEnd ==
  /\ lane.holder = Foreign
  /\ lane' = NoLane
  /\ UNCHANGED <<acct, req, exec, pi>>

ForeignCreate ==
  /\ lane.holder = Foreign /\ lane.live
  /\ \E p \in Payments :
       /\ pi[p] = Unused
       /\ pi' = [pi EXCEPT ![p] = [Unused EXCEPT !.for = Foreign, !.state = "open"]]
  /\ UNCHANGED <<acct, req, lane, exec>>

ForeignFinish(p) ==
  /\ pi[p].for = Foreign
  /\ pi' = [pi EXCEPT ![p] = Unused]
  /\ UNCHANGED <<acct, req, lane, exec>>

(***************************************************************************)
(* Pi on its own: it verifies transactions, and a payment without one may  *)
(* be cancelled.  A cancelled payment that nobody refers to is never heard *)
(* of again, and its name is used for a new one (PiForget): this bounds    *)
(* the payments without bounding how often one is cancelled.               *)
(***************************************************************************)
PiVerify(p) ==
  /\ pi[p].sent > 0
  /\ ~ pi[p].verified
  /\ pi' = [pi EXCEPT ![p].verified = TRUE]
  /\ UNCHANGED <<acct, req, lane, exec>>

PiCancel(p) ==
  /\ pi[p].for \in Requests
  /\ pi[p].state = "open"
  /\ pi[p].sent = 0
  /\ ~ pi[p].completed
  /\ pi' = [pi EXCEPT ![p].state = "cancelled"]
  /\ UNCHANGED <<acct, req, lane, exec>>

PiForget(p) ==
  /\ pi[p].state = "cancelled"
  /\ \A r \in Requests : req[r].pay # p
  /\ \A x \in Executions : exec[x].pay # p
  /\ pi' = [pi EXCEPT ![p] = Unused]
  /\ UNCHANGED <<acct, req, lane, exec>>

--------------------------------------------------------------------------------
(* The steps of an execution that go as they should. *)
Step(x) ==
  \/ Find(x)
  \/ Heartbeat(x, "renewCreate", "create")
  \/ Create(x, TRUE)
  \/ Bind(x, TRUE) \/ BindRefused(x)
  \/ Read(x)
  \/ Heartbeat(x, "renewSubmit", "submit")
  \/ Submit(x, TRUE) \/ PiRefuses(x)
  \/ Heartbeat(x, "renewComplete", "complete")
  \/ Complete(x, TRUE)
  \/ Receipt(x)
  \/ Heartbeat(x, "renewSettle", "settle")
  \/ Settle(x, TRUE) \/ SettleAgain(x)
  \/ Release(x, TRUE) \/ ReleaseAgain(x)
  \/ End(x)

(* The ways a call of an execution goes wrong. *)
Fault(x) ==
  \/ \E r \in Requests : Begin(x, r, FALSE)
  \/ Create(x, FALSE) \/ Bind(x, FALSE) \/ Submit(x, FALSE) \/ Complete(x, FALSE)
  \/ Settle(x, FALSE) \/ Release(x, FALSE)
  \/ Fail(x) \/ Crash(x)

User ==
  \/ \E r \in Requests : CreateRequest(r) \/ MarkUncertain(r)
  \/ CancelUnstarted

Others == ForeignBegin \/ ForeignEnd \/ ForeignCreate \/ \E p \in Payments : ForeignFinish(p)

Pi == \E p \in Payments : PiVerify(p) \/ PiCancel(p) \/ PiForget(p)

Time == LapseLane \/ \E r \in Requests : LapseRequest(r)

Next ==
  \/ User
  \/ \E x \in Executions, r \in Requests : Begin(x, r, TRUE)
  \/ \E x \in Executions : Step(x) \/ Fault(x)
  \/ Time
  \/ Others
  \/ Pi

Spec == Init /\ [][Next]_vars

--------------------------------------------------------------------------------
RequestRow ==
  [status  : {"none", "reserved", "processing", "uncertain", "paid", "released"},
   pay     : Payments \cup {None},
   started : BOOLEAN,
   token   : Executions \cup {None},
   live    : BOOLEAN]

Lane ==
  [holder : Executions \cup {Foreign, None},
   req    : Requests \cup {None},
   live   : BOOLEAN]

Execution ==
  [pc  : Steps \cup Ends \cup {"idle"},
   req : Requests \cup {None},
   pay : Payments \cup {None}]

Payment ==
  [for       : Requests \cup {Foreign, None},
   state     : {"unused", "open", "cancelled"},
   sent      : Nat,
   verified  : BOOLEAN,
   completed : BOOLEAN]

(* The types of the variables. *)
TypeOK ==
  /\ acct \in Ledger!Account
  /\ req \in [Requests -> RequestRow]
  /\ lane \in Lane
  /\ exec \in [Executions -> Execution]
  /\ pi \in [Payments -> Payment]

Settled(r)  == acct.row[SettleRef(r)] # None
Released(r) == acct.row[ReleaseRef(r)] # None
Reserved(r) == acct.row[ReserveRef(r)] # None

(***************************************************************************)
(* The ledger agrees with Pi.  A payout is settled only with the verified  *)
(* and completed transaction of the payment bound to the request, and is   *)
(* released only if no payment made for the request ever carried one.      *)
(***************************************************************************)
LedgerAgreesWithPi ==
  \A r \in Requests :
    /\ Settled(r) => \E p \in Payments : /\ req[r].pay = p
                                         /\ pi[p].sent > 0
                                         /\ pi[p].verified /\ pi[p].completed
    /\ Released(r) => \A p \in Payments : pi[p].for = r => pi[p].sent = 0

(***************************************************************************)
(* No transfer is ever lost sight of: one that was made belongs to the     *)
(* payment bound to its request, so that the next execution finds it       *)
(* whatever crashed, and whichever answer was lost, before.                *)
(***************************************************************************)
TransfersAreBound ==
  \A p \in Payments : pi[p].sent > 0 => req[pi[p].for].pay = p

(***************************************************************************)
(* What the user sees agrees with the ledger: a request shown as paid was  *)
(* settled, one shown as released was released, and one shown as reserved  *)
(* still has its gross amount held.                                        *)
(***************************************************************************)
StatusAgreesWithLedger ==
  \A r \in Requests :
    /\ req[r].status = "none" <=> ~ Reserved(r)
    /\ req[r].status = "reserved" => acct.held[r] = Gross
    /\ req[r].status = "paid" => Settled(r)
    /\ req[r].status = "released" => Released(r)

(***************************************************************************)
(* The recipient is paid once.  No request is transferred twice, neither   *)
(* through one payment nor through two.  This needs ~ Overruns: an         *)
(* execution that outlives its leases inside submit is beyond the checks.  *)
(***************************************************************************)
OneTransferPerRequest ==
  \A p, q \in Payments :
    /\ pi[p].sent =< 1
    /\ pi[p].sent > 0 /\ pi[q].sent > 0 /\ pi[p].for = pi[q].for => p = q

(***************************************************************************)
(* One user of the app wallet at a time: while an execution is inside a    *)
(* call that moves the wallet's sequence, the lane is its own, no other    *)
(* execution is inside such a call, and no other domain has the lane.      *)
(***************************************************************************)
UsesWallet(x) == exec[x].pc \in {"create", "submit", "complete"}

OneWalletUser ==
  \A x \in Executions :
    UsesWallet(x) => /\ lane.holder = x /\ lane.live
                     /\ \A y \in Executions \ {x} : ~ UsesWallet(y)

(***************************************************************************)
(* A payment, once bound to a request, stays bound to it through retries,  *)
(* takeovers, settlement and release.                                      *)
(***************************************************************************)
BindingIsFinal ==
  [][\A r \in Requests : req[r].pay # None => req'[r].pay = req[r].pay]_vars

(***************************************************************************)
(* The payout keeps the promise of PayoutPromise: the money of a request   *)
(* is where its ledger rows say, and it was sent when Pi made a transfer.  *)
(***************************************************************************)
Phase(r) ==
  CASE Settled(r)  -> "settled"
    [] Released(r) -> "released"
    [] Reserved(r) /\ ~ Settled(r) /\ ~ Released(r) -> "held"
    [] OTHER -> "none"

Transferred(r) == \E p \in Payments : pi[p].for = r /\ pi[p].sent > 0

Promise == INSTANCE PayoutPromise WITH phase <- [r \in Requests |-> Phase(r)],
                                       sent  <- [r \in Requests |-> Transferred(r)]

PromiseKept == Promise!Spec

(***************************************************************************)
(* The user's money is always somewhere: what was earned is available, is  *)
(* held for a request, or was paid out for one, and nothing was reserved   *)
(* that was not there, however requests are cancelled, one by one or all   *)
(* at once, settled, released and tried again.                             *)
(***************************************************************************)
GrossIn(phase) == Cardinality({r \in Requests : Phase(r) = phase}) * Gross

FundsAddUp ==
  /\ acct.available >= 0
  /\ acct.paid = GrossIn("settled")
  /\ acct.available + GrossIn("held") + GrossIn("settled") = Earned
================================================================================
