------------------------ MODULE PayoutExecution_proofs ------------------------
(***************************************************************************)
(* The safety of the PI earnings payout, for any requests, executions and  *)
(* payments, and whether or not leases run out under their holder.         *)
(*                                                                         *)
(* The leases play no part in most of it.  What keeps the ledger and Pi in *)
(* step is that a payment is bound before it is submitted, that a binding  *)
(* never changes, and that settlement and release each need evidence about *)
(* the bound payment that excludes the other.  The last part is what the   *)
(* leases are worth.                                                       *)
(***************************************************************************)
EXTENDS PayoutRecovery, FiniteSetTheorems, TLAPS

Held(r) == Reserved(r) /\ ~ Settled(r) /\ ~ Released(r)

(* The rows of a request are the three the payout functions write, in order. *)
RowsInv ==
  \A r \in Requests :
    /\ acct.row[ReserveRef(r)] \in {None, Ledger!Reserve(Gross, r)}
    /\ acct.row[SettleRef(r)]  \in {None, Ledger!Settle(Gross, r)}
    /\ acct.row[ReleaseRef(r)] \in {None, Ledger!Release(Gross, r)}
    /\ Settled(r) \/ Released(r) => Reserved(r)
    /\ ~ (Settled(r) /\ Released(r))
    /\ acct.held[r] = IF Held(r) THEN Gross ELSE 0

(* The status of a request, as far as its rows depend on it. *)
StatusInv ==
  \A r \in Requests :
    /\ req[r].status = "none" <=> ~ Reserved(r)
    /\ req[r].status = "reserved" => Held(r)
    /\ req[r].status = "paid" => Settled(r)
    /\ req[r].status = "released" => Released(r)
    /\ req[r].started => req[r].status \notin {"none", "reserved"}
    /\ ~ req[r].started => req[r].pay = None /\ req[r].token = None /\ ~ Settled(r)
    /\ ~ req[r].started /\ Released(r) => req[r].status = "released"

(* A binding points to a payment of the request; only bound ones are sent. *)
BindingInv ==
  /\ \A r \in Requests : req[r].pay # None =>
       pi[req[r].pay].for = r /\ pi[req[r].pay].state \in {"open", "cancelled"}
  /\ \A p \in Payments : pi[p].sent > 0 =>
       pi[p].for \in Requests /\ req[pi[p].for].pay = p /\ pi[p].state = "open"

AfterBind == Steps \ {"find", "renewCreate", "create", "bind"}

(* What an execution has learned of its payment stays true. *)
ExecInv ==
  \A x \in Executions :
    LET e == exec[x]
    IN  /\ e.pc # "idle" => e.req \in Requests /\ req[e.req].started
        /\ e.pc = "bind" => /\ e.pay \in Payments
                            /\ pi[e.pay].for = e.req
                            /\ pi[e.pay].state \in {"open", "cancelled"}
        /\ e.pc \in AfterBind => e.pay \in Payments /\ req[e.req].pay = e.pay
        /\ e.pc = "release" => pi[e.pay].state = "cancelled"
        /\ e.pc \in {"renewSettle", "settle"} =>
             pi[e.pay].sent > 0 /\ pi[e.pay].verified /\ pi[e.pay].completed

(* The evidence a settled or released request rests on. *)
EvidenceInv ==
  \A r \in Requests :
    /\ Settled(r) => /\ req[r].pay \in Payments
                     /\ pi[req[r].pay].sent > 0
                     /\ pi[req[r].pay].verified /\ pi[req[r].pay].completed
    /\ Released(r) => \/ ~ req[r].started
                      \/ req[r].pay \in Payments /\ pi[req[r].pay].state = "cancelled"

Inv ==
  /\ TypeOK
  /\ RowsInv
  /\ StatusInv
  /\ BindingInv
  /\ ExecInv
  /\ EvidenceInv

--------------------------------------------------------------------------------
(* The references of the rows, and the rows themselves. *)
LEMMA RefsDiffer ==
  /\ CreditRef \in LedgerRefs
  /\ \A r \in Requests : {ReserveRef(r), SettleRef(r), ReleaseRef(r)} \subseteq LedgerRefs
  /\ \A r, q \in Requests :
       /\ ReserveRef(r) \notin {CreditRef, SettleRef(q), ReleaseRef(q)}
       /\ SettleRef(r) \notin {CreditRef, ReleaseRef(q)}
       /\ ReleaseRef(r) # CreditRef
       /\ ReserveRef(r) = ReserveRef(q) => r = q
       /\ SettleRef(r) = SettleRef(q) => r = q
       /\ ReleaseRef(r) = ReleaseRef(q) => r = q
BY DEF LedgerRefs, CreditRef, ReserveRef, SettleRef, ReleaseRef

(* What the payout functions insert are ledger rows. *)
LEMMA RowsAreRows ==
  /\ Ledger!Credit(Earned, "available", "earned") \in Ledger!Row
  /\ \A r \in Requests : /\ Ledger!Reserve(Gross, r) \in Ledger!Row
                         /\ Ledger!Settle(Gross, r) \in Ledger!Row
                         /\ Ledger!Release(Gross, r) \in Ledger!Row
BY AmountAssumption
DEF Ledger!Row, Ledger!Credit, Ledger!Reserve, Ledger!Settle, Ledger!Release

(* A row is not the absence of one. *)
LEMMA RowsAreNotNone ==
  \A r \in Requests : /\ Ledger!Reserve(Gross, r) # None
                      /\ Ledger!Settle(Gross, r) # None
                      /\ Ledger!Release(Gross, r) # None
BY RowsAreRows, SetsAssumption

(* What inserting a row does to an account. *)
LEMMA InsertedIsAccount ==
  ASSUME NEW a \in Ledger!Account, NEW ref \in LedgerRefs, NEW e \in Ledger!Row
  PROVE  /\ Ledger!Inserted(a, ref, e) \in Ledger!Account
         /\ Ledger!Inserted(a, ref, e).row = [a.row EXCEPT ![ref] = e]
<1>1. /\ Ledger!AvailablePart(e) \in Int
      /\ Ledger!PaidPart(e) \in Int
      /\ \A r \in Requests : Ledger!HeldPart(e, r) \in Int
  BY DEF Ledger!Row, Ledger!Positive, Ledger!AvailablePart, Ledger!PaidPart,
         Ledger!HeldPart
<1> QED
  BY <1>1 DEF Ledger!Inserted, Ledger!Account

(* A reservation holds its amount. *)
LEMMA ReserveHolds ==
  ASSUME NEW a \in Ledger!Account, NEW ref, NEW r \in Requests, NEW q \in Requests
  PROVE  Ledger!Inserted(a, ref, Ledger!Reserve(Gross, r)).held[q]
           = a.held[q] + (IF q = r THEN Gross ELSE 0)
BY AmountAssumption
DEF Ledger!Inserted, Ledger!Account, Ledger!HeldPart, Ledger!Reserve, Ledger!Positive

(* A settlement ends the hold. *)
LEMMA SettleHolds ==
  ASSUME NEW a \in Ledger!Account, NEW ref, NEW r \in Requests, NEW q \in Requests
  PROVE  Ledger!Inserted(a, ref, Ledger!Settle(Gross, r)).held[q]
           = a.held[q] - (IF q = r THEN Gross ELSE 0)
BY AmountAssumption
DEF Ledger!Inserted, Ledger!Account, Ledger!HeldPart, Ledger!Settle, Ledger!Positive

(* A release ends the hold. *)
LEMMA ReleaseHolds ==
  ASSUME NEW a \in Ledger!Account, NEW ref, NEW r \in Requests, NEW q \in Requests
  PROVE  Ledger!Inserted(a, ref, Ledger!Release(Gross, r)).held[q]
           = a.held[q] - (IF q = r THEN Gross ELSE 0)
BY AmountAssumption
DEF Ledger!Inserted, Ledger!Account, Ledger!HeldPart, Ledger!Release, Ledger!Positive

(* A credit holds nothing. *)
LEMMA CreditHolds ==
  ASSUME NEW a \in Ledger!Account, NEW ref, NEW q \in Requests
  PROVE  Ledger!Inserted(a, ref, Ledger!Credit(Earned, "available", "earned")).held[q]
           = a.held[q]
BY DEF Ledger!Inserted, Ledger!Account, Ledger!HeldPart, Ledger!Credit

(* The account after a cancellation is an account. *)
LEMMA ReleasedAllIsAccount ==
  ASSUME acct \in Ledger!Account, NEW S \in SUBSET Requests
  PROVE  /\ ReleasedAll(S) \in Ledger!Account
         /\ \A r \in Requests :
              /\ ReleasedAll(S).row[ReserveRef(r)] = acct.row[ReserveRef(r)]
              /\ ReleasedAll(S).row[SettleRef(r)] = acct.row[SettleRef(r)]
              /\ ReleasedAll(S).row[ReleaseRef(r)] =
                   IF r \in S THEN Ledger!Release(Gross, r) ELSE acct.row[ReleaseRef(r)]
              /\ ReleasedAll(S).held[r] = acct.held[r] - (IF r \in S THEN Gross ELSE 0)
<1>1. Cardinality(S) \in Nat
  BY FS_CardinalityType, FS_Subset, SetsAssumption
<1>2. Cardinality(S) * Gross \in Int
  BY <1>1, AmountAssumption DEF Ledger!Positive
<1>3. ReleasedAll(S) \in Ledger!Account
  BY <1>2, RowsAreRows, AmountAssumption DEF ReleasedAll, Ledger!Account, Ledger!Positive
<1>4. ASSUME NEW r \in Requests
      PROVE  /\ ReleasedAll(S).row[ReserveRef(r)] = acct.row[ReserveRef(r)]
             /\ ReleasedAll(S).row[SettleRef(r)] = acct.row[SettleRef(r)]
             /\ ReleasedAll(S).row[ReleaseRef(r)] =
                  IF r \in S THEN Ledger!Release(Gross, r) ELSE acct.row[ReleaseRef(r)]
  BY RefsDiffer DEF ReleasedAll, ReserveRef, SettleRef, ReleaseRef
<1> QED
  BY <1>3, <1>4 DEF ReleasedAll

--------------------------------------------------------------------------------
(* The frames: what steps that leave some variables alone cannot disturb. *)
LEMMA LedgerFrame ==
  ASSUME Inv, UNCHANGED acct
  PROVE  RowsInv'
BY DEF Inv, RowsInv, Held, Settled, Released, Reserved

(* Steps that change no row, no request and no payment. *)
LEMMA ExecutionFrame ==
  ASSUME Inv, UNCHANGED <<acct, req, pi>>
  PROVE  RowsInv' /\ StatusInv' /\ BindingInv' /\ EvidenceInv'
BY DEF Inv, RowsInv, StatusInv, BindingInv, EvidenceInv, Held, Settled, Released, Reserved

(* Steps that change only the lane. *)
LEMMA LaneFrame ==
  ASSUME Inv, UNCHANGED <<acct, req, exec, pi>>, lane' \in Lane
  PROVE  Inv'
<1>1. TypeOK'
  BY DEF Inv, TypeOK
<1>2. ExecInv'
  BY DEF Inv, ExecInv
<1> QED
  BY <1>1, <1>2, ExecutionFrame DEF Inv

(* Going on keeps the type of the executions. *)
LEMMA GotoTyped ==
  ASSUME Inv, NEW x \in Executions, NEW pc \in Steps \cup Ends \cup {"idle"}, Goto(x, pc)
  PROVE  exec' \in [Executions -> Execution]
BY DEF Inv, TypeOK, Goto, Execution

(***************************************************************************)
(* An execution moves to a step for which it needs to know nothing more    *)
(* than it did: the one at hand, one before the binding, or its end.       *)
(***************************************************************************)
LEMMA GotoInv ==
  ASSUME Inv, NEW x \in Executions, NEW pc \in Steps \cup Ends, Goto(x, pc),
         exec[x].pc # "idle", UNCHANGED <<acct, req, lane, pi>>,
         \/ pc \in Ends \cup {"renewCreate", "create"}
         \/ /\ exec[x].pc \in AfterBind
            /\ pc \in AfterBind \ {"release", "renewSettle", "settle"}
         \/ exec[x].pc = "renewSettle" /\ pc = "settle"
         \/ exec[x].pc \in AfterBind /\ pc = "release" /\ pi[exec[x].pay].state = "cancelled"
         \/ /\ exec[x].pc \in AfterBind /\ pc = "renewSettle"
            /\ pi[exec[x].pay].sent > 0 /\ pi[exec[x].pay].verified
            /\ pi[exec[x].pay].completed
  PROVE  Inv'
<1>1. TypeOK'
  BY GotoTyped DEF Inv, TypeOK
<1>2. ExecInv'
  BY DEF Inv, TypeOK, Execution, ExecInv, Goto, AfterBind, Steps, Ends
<1> QED
  BY <1>1, <1>2, ExecutionFrame DEF Inv

(* A heartbeat only decides where the execution goes. *)
LEMMA HeartbeatInv ==
  ASSUME Inv, NEW x \in Executions,
         \/ Heartbeat(x, "renewCreate", "create")
         \/ Heartbeat(x, "renewSubmit", "submit")
         \/ Heartbeat(x, "renewComplete", "complete")
         \/ Heartbeat(x, "renewSettle", "settle")
  PROVE  Inv'
<1> DEFINE pc == exec'[x].pc
<1>1. /\ exec[x].pc \in Steps
      /\ pc \in Steps \cup Ends
      /\ Goto(x, pc)
      /\ UNCHANGED <<acct, req, lane, pi>>
  BY DEF Inv, TypeOK, Execution, Heartbeat, Goto, Steps, Ends
<1>2. \/ pc \in Ends \cup {"create"}
      \/ exec[x].pc \in AfterBind /\ pc \in {"submit", "complete"}
      \/ exec[x].pc = "renewSettle" /\ pc = "settle"
  BY DEF Inv, TypeOK, Execution, Heartbeat, Goto, Steps, Ends, AfterBind
<1>3. "submit" \in AfterBind /\ "complete" \in AfterBind
  BY DEF AfterBind, Steps
<1> QED
  BY <1>1, <1>2, <1>3, GotoInv DEF Steps

(* A step that ends the execution, with or without success. *)
LEMMA EndingInv ==
  ASSUME Inv, NEW x \in Executions,
         Fail(x) \/ BindRefused(x) \/ PiRefuses(x) \/ SettleAgain(x) \/ ReleaseAgain(x)
  PROVE  Inv'
<1>1. \E pc \in Ends : Goto(x, pc)
  BY DEF Fail, BindRefused, PiRefuses, SettleAgain, ReleaseAgain, Ends
<1>2. exec[x].pc # "idle" /\ UNCHANGED <<acct, req, lane, pi>>
  BY DEF Fail, BindRefused, PiRefuses, SettleAgain, ReleaseAgain, Steps
<1> QED
  BY <1>1, <1>2, GotoInv

(* What an execution reads of its payment is so, or can only become more so. *)
LEMMA ReadInv ==
  ASSUME Inv, NEW x \in Executions, Read(x)
  PROVE  Inv'
<1>1. exec[x].pc \in AfterBind /\ exec[x].pc # "idle" /\ UNCHANGED <<acct, req, lane, pi>>
  BY DEF Read, AfterBind, Steps
<1>2. \/ \E pc \in Ends : Goto(x, pc)
      \/ pi[exec[x].pay].state = "cancelled" /\ Goto(x, "release")
      \/ \E pc \in {"renewSubmit", "receipt", "renewComplete"} : Goto(x, pc)
  BY DEF Read, Ends
<1> QED
  BY <1>1, <1>2, GotoInv DEF AfterBind, Steps

(* Only a verified and completed payment goes on to settle. *)
LEMMA ReceiptInv ==
  ASSUME Inv, NEW x \in Executions, Receipt(x)
  PROVE  Inv'
<1>1. exec[x].pc \in AfterBind /\ exec[x].pc # "idle" /\ UNCHANGED <<acct, req, lane, pi>>
  BY DEF Receipt, AfterBind, Steps
<1>2. \/ \E pc \in Ends : Goto(x, pc)
      \/ /\ pi[exec[x].pay].sent > 0 /\ pi[exec[x].pay].verified
         /\ pi[exec[x].pay].completed
         /\ Goto(x, "renewSettle")
  BY DEF Receipt, Ends
<1> QED
  BY <1>1, <1>2, GotoInv DEF AfterBind, Steps

(* A crash forgets what the execution knew. *)
LEMMA CrashInv ==
  ASSUME Inv, NEW x \in Executions, Crash(x)
  PROVE  Inv'
<1>1. TypeOK'
  BY DEF Inv, TypeOK, Execution, Crash, Idle
<1>2. ExecInv'
  BY DEF Inv, TypeOK, Execution, ExecInv, Crash, Idle, AfterBind, Steps
<1> QED
  BY <1>1, <1>2, ExecutionFrame DEF Inv, Crash

(* A payment found again was made for this request. *)
LEMMA FindInv ==
  ASSUME Inv, NEW x \in Executions, Find(x)
  PROVE  Inv'
<1>1. exec[x].pc = "find" /\ UNCHANGED <<acct, req, lane, pi>>
  BY DEF Find
<1>2. CASE \E pc \in Ends \cup {"renewCreate"} : Goto(x, pc)
  BY <1>1, <1>2, GotoInv DEF Steps
<1>3. CASE \E p \in Payments : /\ pi[p].state = "open" /\ pi[p].for = exec[x].req
                               /\ exec' = [exec EXCEPT ![x].pay = p, ![x].pc = "bind"]
  <2>1. TypeOK'
    BY <1>1, <1>3 DEF Inv, TypeOK, Execution, Steps
  <2>2. ExecInv'
    BY <1>1, <1>3 DEF Inv, TypeOK, Execution, ExecInv, AfterBind, Steps
  <2> QED
    BY <1>1, <2>1, <2>2, ExecutionFrame DEF Inv
<1> QED
  BY <1>2, <1>3 DEF Find, Incomplete, Ends

--------------------------------------------------------------------------------
(* The claim of the leases: only an unfinished request is begun. *)
LEMMA BeginInv ==
  ASSUME Inv, NEW x \in Executions, NEW r \in Requests, NEW answered \in BOOLEAN,
         Begin(x, r, answered)
  PROVE  Inv'
<1>1. TypeOK'
  BY DEF Inv, TypeOK, RequestRow, Execution, Lane, Begin, Steps
<1>2. RowsInv'
  BY LedgerFrame DEF Begin
<1>3. StatusInv'
  BY SetsAssumption
  DEF Inv, TypeOK, RequestRow, StatusInv, Held, Settled, Released, Reserved, Begin, Unfinished
<1>4. BindingInv'
  BY DEF Inv, TypeOK, RequestRow, BindingInv, Begin
<1>5. ExecInv'
  BY DEF Inv, TypeOK, RequestRow, Execution, BindingInv, ExecInv, Begin, AfterBind, Steps
<1>6. EvidenceInv'
  BY DEF Inv, TypeOK, RequestRow, StatusInv, EvidenceInv, Settled, Released, Begin, Unfinished
<1> QED
  BY <1>1, <1>2, <1>3, <1>4, <1>5, <1>6 DEF Inv

(* The payment is bound before anything is sent with it. *)
LEMMA BindInv ==
  ASSUME Inv, NEW x \in Executions, NEW answered \in BOOLEAN, Bind(x, answered)
  PROVE  Inv'
<1>1. TypeOK'
  <2>1. exec' \in [Executions -> Execution]
    BY GotoTyped DEF Bind, Answer, Steps, Ends
  <2>2. exec[x].pay \in Payments
    BY DEF Inv, ExecInv, Bind
  <2> QED
    BY <2>1, <2>2 DEF Inv, TypeOK, RequestRow, Bind
<1>2. RowsInv'
  BY LedgerFrame DEF Bind
<1>3. StatusInv'
  BY DEF Inv, TypeOK, RequestRow, StatusInv, ExecInv, Held, Settled, Released, Reserved, Bind
<1>4. BindingInv'
  BY SetsAssumption
  DEF Inv, TypeOK, RequestRow, BindingInv, ExecInv, Bind, CanBind
<1>5. ExecInv'
  BY SetsAssumption
  DEF Inv, TypeOK, RequestRow, Execution, BindingInv, ExecInv, Bind, CanBind, Answer, Goto,
      AfterBind, Steps
<1>6. EvidenceInv'
  BY SetsAssumption
  DEF Inv, TypeOK, RequestRow, BindingInv, ExecInv, EvidenceInv, Settled, Released, Bind, CanBind
<1> QED
  BY <1>1, <1>2, <1>3, <1>4, <1>5, <1>6 DEF Inv

(***************************************************************************)
(* Giving the leases back: whatever status is overwritten, the rows, the   *)
(* binding and the evidence are those of before.                           *)
(***************************************************************************)
LEMMA EndInv ==
  ASSUME Inv, NEW x \in Executions, End(x)
  PROVE  Inv'
<1>0. exec[x].req \in Requests /\ req[exec[x].req].started
  BY DEF Inv, ExecInv, End, Ends
<1>1. TypeOK'
  <2>1. lane' \in Lane
    <3>1. NoLane \in Lane
      BY DEF Lane, NoLane
    <3>2. lane' \in {lane, NoLane}
      BY DEF End
    <3> QED
      BY <3>1, <3>2 DEF Inv, TypeOK
  <2>2. exec' \in [Executions -> Execution]
    BY DEF Inv, TypeOK, Execution, End, Idle
  <2>3. req' \in [Requests -> RequestRow]
    BY <1>0 DEF Inv, TypeOK, RequestRow, End, EndStatus
  <2> QED
    BY <2>1, <2>2, <2>3 DEF Inv, TypeOK, End
<1>2. RowsInv'
  BY LedgerFrame DEF End
<1>3. StatusInv'
  BY <1>0 DEF Inv, TypeOK, RequestRow, StatusInv, Held, Settled, Released, Reserved, End, EndStatus
<1>4. BindingInv'
  BY <1>0 DEF Inv, TypeOK, RequestRow, BindingInv, End
<1>5. ExecInv'
  BY <1>0 DEF Inv, TypeOK, RequestRow, Execution, ExecInv, End, Idle, AfterBind, Steps
<1>6. EvidenceInv'
  BY <1>0 DEF Inv, TypeOK, RequestRow, EvidenceInv, Settled, Released, End
<1> QED
  BY <1>1, <1>2, <1>3, <1>4, <1>5, <1>6 DEF Inv

(* The steps on a request that touch neither its binding nor its rows. *)
LEMMA MarkUncertainInv ==
  ASSUME Inv, NEW r \in Requests, MarkUncertain(r)
  PROVE  Inv'
<1>1. TypeOK'
  BY DEF Inv, TypeOK, RequestRow, MarkUncertain
<1>2. RowsInv'
  BY LedgerFrame DEF MarkUncertain
<1>3. StatusInv'
  BY DEF Inv, TypeOK, RequestRow, StatusInv, Held, Settled, Released, Reserved, MarkUncertain
<1>4. BindingInv' /\ ExecInv' /\ EvidenceInv'
  BY DEF Inv, TypeOK, RequestRow, Execution, BindingInv, ExecInv, EvidenceInv, Settled,
         Released, MarkUncertain
<1> QED
  BY <1>1, <1>2, <1>3, <1>4 DEF Inv

(* A lease that runs out changes nothing else. *)
LEMMA LapseRequestInv ==
  ASSUME Inv, NEW r \in Requests, LapseRequest(r)
  PROVE  Inv'
<1>1. TypeOK'
  BY DEF Inv, TypeOK, RequestRow, LapseRequest
<1>2. RowsInv'
  BY LedgerFrame DEF LapseRequest
<1>3. StatusInv'
  BY DEF Inv, TypeOK, RequestRow, StatusInv, Held, Settled, Released, Reserved, LapseRequest
<1>4. BindingInv' /\ ExecInv' /\ EvidenceInv'
  BY DEF Inv, TypeOK, RequestRow, Execution, BindingInv, ExecInv, EvidenceInv, Settled,
         Released, LapseRequest
<1> QED
  BY <1>1, <1>2, <1>3, <1>4 DEF Inv

(* The lane changes hands. *)
LEMMA LaneInv ==
  ASSUME Inv, LapseLane \/ ForeignBegin \/ ForeignEnd
  PROVE  Inv'
<1>1. CASE LapseLane
  <2>1. lane' \in Lane
    BY <1>1 DEF Inv, TypeOK, Lane, LapseLane
  <2> QED
    BY <1>1, <2>1, LaneFrame DEF LapseLane
<1>2. CASE ForeignBegin
  <2>1. lane' \in Lane
    BY <1>2 DEF Lane, ForeignBegin
  <2> QED
    BY <1>2, <2>1, LaneFrame DEF ForeignBegin
<1>3. CASE ForeignEnd
  <2>1. lane' \in Lane
    BY <1>3 DEF Lane, ForeignEnd, NoLane
  <2> QED
    BY <1>3, <2>1, LaneFrame DEF ForeignEnd
<1> QED
  BY <1>1, <1>2, <1>3

--------------------------------------------------------------------------------
(* The steps on a payment of Pi. *)
LEMMA CreateInv ==
  ASSUME Inv, NEW x \in Executions, NEW answered \in BOOLEAN, Create(x, answered)
  PROVE  Inv'
<1>0. exec[x].req \in Requests
  BY DEF Inv, ExecInv, Create
<1>1. TypeOK'
  <2>1. exec' \in [Executions -> Execution]
    BY DEF Inv, TypeOK, Execution, Create, Steps, Ends
  <2>2. pi' \in [Payments -> Payment]
    <3>1. [Unused EXCEPT !.for = exec[x].req, !.state = "open"] \in Payment
      BY <1>0 DEF Unused, Payment
    <3> QED
      BY <3>1 DEF Inv, TypeOK, Create
  <2> QED
    BY <2>1, <2>2 DEF Inv, TypeOK, Create
<1>2. RowsInv'
  BY LedgerFrame DEF Create
<1>3. StatusInv'
  BY DEF Inv, StatusInv, Held, Settled, Released, Reserved, Create
<1>4. BindingInv'
  BY DEF Inv, TypeOK, RequestRow, Payment, BindingInv, Create, Unused
<1>5. ExecInv'
  BY <1>0
  DEF Inv, TypeOK, RequestRow, Payment, Execution, BindingInv, ExecInv, Create, Unused,
      AfterBind, Steps
<1>6. EvidenceInv'
  BY DEF Inv, TypeOK, RequestRow, Payment, BindingInv, EvidenceInv, Settled, Released,
         Create, Unused
<1> QED
  BY <1>1, <1>2, <1>3, <1>4, <1>5, <1>6 DEF Inv

(* Only the bound payment is submitted. *)
LEMMA SubmitInv ==
  ASSUME Inv, NEW x \in Executions, NEW answered \in BOOLEAN, Submit(x, answered)
  PROVE  Inv'
<1>0. /\ exec[x].req \in Requests /\ exec[x].pay \in Payments
      /\ req[exec[x].req].pay = exec[x].pay
      /\ pi[exec[x].pay].for = exec[x].req
      /\ pi[exec[x].pay].state = "open"
  BY SetsAssumption DEF Inv, ExecInv, BindingInv, Submit, AfterBind, Steps
<1>1. TypeOK'
  <2>1. exec' \in [Executions -> Execution]
    BY GotoTyped DEF Submit, Answer, Steps, Ends
  <2>2. pi' \in [Payments -> Payment]
    BY <1>0 DEF Inv, TypeOK, Payment, Submit
  <2> QED
    BY <2>1, <2>2 DEF Inv, TypeOK, Submit
<1>2. RowsInv'
  BY LedgerFrame DEF Submit
<1>3. StatusInv'
  BY DEF Inv, StatusInv, Held, Settled, Released, Reserved, Submit
<1>4. BindingInv'
  BY <1>0 DEF Inv, TypeOK, RequestRow, Payment, BindingInv, Submit
<1>5. ExecInv'
  BY <1>0
  DEF Inv, TypeOK, RequestRow, Payment, Execution, ExecInv, Submit, Answer, Goto, AfterBind, Steps
<1>6. EvidenceInv'
  BY <1>0 DEF Inv, TypeOK, RequestRow, Payment, EvidenceInv, Settled, Released, Submit
<1> QED
  BY <1>1, <1>2, <1>3, <1>4, <1>5, <1>6 DEF Inv

(* Completion at Pi adds to what is known of a payment. *)
LEMMA CompleteInv ==
  ASSUME Inv, NEW x \in Executions, NEW answered \in BOOLEAN, Complete(x, answered)
  PROVE  Inv'
<1>0. exec[x].pay \in Payments
  BY DEF Inv, ExecInv, Complete, AfterBind, Steps
<1>1. TypeOK'
  <2>1. exec' \in [Executions -> Execution]
    BY GotoTyped DEF Complete, Answer, Steps, Ends
  <2> QED
    BY <1>0, <2>1 DEF Inv, TypeOK, Payment, Complete
<1>2. RowsInv'
  BY LedgerFrame DEF Complete
<1>3. StatusInv'
  BY DEF Inv, StatusInv, Held, Settled, Released, Reserved, Complete
<1>4. BindingInv'
  BY DEF Inv, TypeOK, RequestRow, Payment, BindingInv, Complete
<1>5. ExecInv'
  BY DEF Inv, TypeOK, RequestRow, Payment, Execution, ExecInv, Complete, Answer, Goto,
         AfterBind, Steps
<1>6. EvidenceInv'
  BY DEF Inv, TypeOK, RequestRow, Payment, EvidenceInv, Settled, Released, Complete
<1> QED
  BY <1>1, <1>2, <1>3, <1>4, <1>5, <1>6 DEF Inv

(* A payment that appears, or that nobody refers to and disappears. *)
LEMMA ForeignCreateInv ==
  ASSUME Inv, ForeignCreate
  PROVE  Inv'
<1>0. PICK p \in Payments :
        /\ pi[p] = Unused
        /\ pi' = [pi EXCEPT ![p] = [Unused EXCEPT !.for = Foreign, !.state = "open"]]
  BY DEF ForeignCreate
<1>1. TypeOK'
  <2>1. [Unused EXCEPT !.for = Foreign, !.state = "open"] \in Payment
    BY DEF Unused, Payment
  <2> QED
    BY <1>0, <2>1 DEF Inv, TypeOK, ForeignCreate
<1>2. RowsInv'
  BY LedgerFrame DEF ForeignCreate
<1>3. StatusInv'
  BY DEF Inv, StatusInv, Held, Settled, Released, Reserved, ForeignCreate
<1>4. BindingInv'
  BY <1>0 DEF Inv, TypeOK, RequestRow, Payment, BindingInv, ForeignCreate, Unused
<1>5. ExecInv'
  BY <1>0
  DEF Inv, TypeOK, RequestRow, Payment, Execution, BindingInv, ExecInv, ForeignCreate,
      Unused, AfterBind, Steps
<1>6. EvidenceInv'
  BY <1>0
  DEF Inv, TypeOK, RequestRow, Payment, BindingInv, EvidenceInv, Settled, Released,
      ForeignCreate, Unused
<1> QED
  BY <1>1, <1>2, <1>3, <1>4, <1>5, <1>6 DEF Inv

(* A payment nobody refers to disappears. *)
LEMMA ForgottenInv ==
  ASSUME Inv, NEW p \in Payments, ForeignFinish(p) \/ PiForget(p)
  PROVE  Inv'
<1>0. /\ \A r \in Requests : req[r].pay # p
      /\ \A x \in Executions :
           exec[x].pay = p => exec[x].pc \notin AfterBind \cup {"bind"}
      /\ pi' = [pi EXCEPT ![p] = Unused]
      /\ UNCHANGED <<acct, req, lane, exec>>
  <2>1. CASE PiForget(p)
    BY <2>1 DEF PiForget
  <2>2. CASE ForeignFinish(p)
    <3>1. \A r \in Requests : req[r].pay # p
      BY <2>2, SetsAssumption DEF Inv, BindingInv, ForeignFinish
    <3>2. \A x \in Executions :
            exec[x].pay = p => exec[x].pc \notin AfterBind \cup {"bind"}
      BY <2>2, <3>1, SetsAssumption
      DEF Inv, ExecInv, ForeignFinish, AfterBind, Steps
    <3> QED
      BY <2>2, <3>1, <3>2 DEF ForeignFinish
  <2> QED
    BY <2>1, <2>2
<1>1. TypeOK'
  <2>1. Unused \in Payment
    BY DEF Unused, Payment
  <2> QED
    BY <1>0, <2>1 DEF Inv, TypeOK
<1>2. RowsInv'
  BY <1>0, LedgerFrame
<1>3. StatusInv'
  BY <1>0 DEF Inv, StatusInv, Held, Settled, Released, Reserved
<1>4. BindingInv'
  BY <1>0 DEF Inv, TypeOK, RequestRow, Payment, BindingInv, Unused
<1>5. ExecInv'
  BY <1>0 DEF Inv, TypeOK, RequestRow, Payment, Execution, ExecInv, Unused, AfterBind, Steps
<1>6. EvidenceInv'
  BY <1>0 DEF Inv, TypeOK, RequestRow, Payment, EvidenceInv, Settled, Released, Unused
<1> QED
  BY <1>1, <1>2, <1>3, <1>4, <1>5, <1>6 DEF Inv

(* A verification adds to what is known of a payment. *)
LEMMA PiVerifyInv ==
  ASSUME Inv, NEW p \in Payments, PiVerify(p)
  PROVE  Inv'
<1>1. TypeOK'
  <2>1. [pi[p] EXCEPT !.verified = TRUE] \in Payment
    BY DEF Inv, TypeOK, Payment
  <2> QED
    BY <2>1 DEF Inv, TypeOK, PiVerify
<1>2. RowsInv'
  BY LedgerFrame DEF PiVerify
<1>3. StatusInv'
  BY DEF Inv, StatusInv, Held, Settled, Released, Reserved, PiVerify
<1>4. BindingInv'
  BY DEF Inv, TypeOK, RequestRow, Payment, BindingInv, PiVerify
<1>5. ExecInv'
  BY DEF Inv, TypeOK, RequestRow, Payment, Execution, ExecInv, PiVerify, AfterBind, Steps
<1>6. EvidenceInv'
  BY DEF Inv, TypeOK, RequestRow, Payment, EvidenceInv, Settled, Released, PiVerify
<1> QED
  BY <1>1, <1>2, <1>3, <1>4, <1>5, <1>6 DEF Inv

(* Only a payment without a transaction is cancelled. *)
LEMMA PiCancelInv ==
  ASSUME Inv, NEW p \in Payments, PiCancel(p)
  PROVE  Inv'
<1>1. TypeOK'
  BY DEF Inv, TypeOK, Payment, PiCancel
<1>2. RowsInv'
  BY LedgerFrame DEF PiCancel
<1>3. StatusInv'
  BY DEF Inv, StatusInv, Held, Settled, Released, Reserved, PiCancel
<1>4. BindingInv'
  BY DEF Inv, TypeOK, RequestRow, Payment, BindingInv, PiCancel
<1>5. ExecInv'
  BY DEF Inv, TypeOK, RequestRow, Payment, Execution, ExecInv, PiCancel, AfterBind, Steps
<1>6. EvidenceInv'
  BY DEF Inv, TypeOK, RequestRow, Payment, EvidenceInv, Settled, Released, PiCancel
<1> QED
  BY <1>1, <1>2, <1>3, <1>4, <1>5, <1>6 DEF Inv

--------------------------------------------------------------------------------
(***************************************************************************)
(* The steps that write rows.  Each is taken apart into what it does to    *)
(* the rows and held sums (before the payload rows are compared) and what  *)
(* it does to the request.                                                 *)
(***************************************************************************)
LEMMA CreateRequestInv ==
  ASSUME Inv, NEW r \in Requests, CreateRequest(r)
  PROVE  Inv'
<1> DEFINE e == Ledger!Reserve(Gross, r)
<1>0. /\ ~ Reserved(r)
      /\ acct' = Ledger!Inserted(acct, ReserveRef(r), e)
      /\ req' = [req EXCEPT ![r].status = "reserved"]
      /\ req[r].status = "none"
      /\ UNCHANGED <<lane, exec, pi>>
  BY DEF CreateRequest, Ledger!Answer, Ledger!Known, Reserved
<1>1. /\ acct' \in Ledger!Account
      /\ acct'.row = [acct.row EXCEPT ![ReserveRef(r)] = e]
      /\ \A q \in Requests : acct'.held[q] = acct.held[q] + (IF q = r THEN Gross ELSE 0)
  BY <1>0, RefsDiffer, RowsAreRows, InsertedIsAccount, ReserveHolds DEF Inv, TypeOK
<1>2. \A q \in Requests :
        /\ acct'.row[ReserveRef(q)] = IF q = r THEN e ELSE acct.row[ReserveRef(q)]
        /\ acct'.row[SettleRef(q)] = acct.row[SettleRef(q)]
        /\ acct'.row[ReleaseRef(q)] = acct.row[ReleaseRef(q)]
  BY <1>1, RefsDiffer DEF Inv, TypeOK, Ledger!Account
<1>3. TypeOK'
  BY <1>0, <1>1 DEF Inv, TypeOK, RequestRow
<1>4. RowsInv'
  <2> SUFFICES ASSUME NEW q \in Requests PROVE RowsInv!(q)'
    BY DEF RowsInv
  <2> QED
    BY <1>0, <1>1, <1>2, RowsAreNotNone, AmountAssumption
    DEF Inv, RowsInv, Held, Settled, Released, Reserved, Ledger!Positive
<1>5. StatusInv'
  BY <1>0, <1>2, RowsAreNotNone
  DEF Inv, TypeOK, RequestRow, RowsInv, StatusInv, Held, Settled, Released, Reserved
<1>6. BindingInv' /\ ExecInv'
  BY <1>0 DEF Inv, TypeOK, RequestRow, Execution, BindingInv, ExecInv
<1>7. EvidenceInv'
  BY <1>0, <1>2 DEF Inv, TypeOK, RequestRow, EvidenceInv, Settled, Released
<1> QED
  BY <1>3, <1>4, <1>5, <1>6, <1>7 DEF Inv

(* The user's cancellation releases requests that never had an execution. *)
LEMMA CancelUnstartedInv ==
  ASSUME Inv, CancelUnstarted
  PROVE  Inv'
<1> DEFINE S == Unstarted
<1>0. /\ S \in SUBSET Requests
      /\ \A r \in S : req[r].status = "reserved" /\ ~ req[r].started
      /\ \A r \in S : Held(r)
      /\ acct' = ReleasedAll(S)
      /\ req' = [r \in Requests |-> IF r \in S THEN [req[r] EXCEPT !.status = "released"]
                                               ELSE req[r]]
      /\ UNCHANGED <<lane, exec, pi>>
  BY DEF CancelUnstarted, Unstarted, Inv, StatusInv
<1> HIDE DEF S
<1>1. /\ acct' \in Ledger!Account
      /\ \A q \in Requests :
           /\ acct'.row[ReserveRef(q)] = acct.row[ReserveRef(q)]
           /\ acct'.row[SettleRef(q)] = acct.row[SettleRef(q)]
           /\ acct'.row[ReleaseRef(q)] =
                IF q \in S THEN Ledger!Release(Gross, q) ELSE acct.row[ReleaseRef(q)]
           /\ acct'.held[q] = acct.held[q] - (IF q \in S THEN Gross ELSE 0)
  BY <1>0, ReleasedAllIsAccount DEF Inv, TypeOK
<1>2. TypeOK'
  BY <1>0, <1>1 DEF Inv, TypeOK, RequestRow
<1>3. RowsInv'
  <2> SUFFICES ASSUME NEW q \in Requests PROVE RowsInv!(q)'
    BY DEF RowsInv
  <2> QED
    BY <1>0, <1>1, RowsAreNotNone, AmountAssumption
    DEF Inv, RowsInv, Held, Settled, Released, Reserved, Ledger!Positive
<1>4. StatusInv'
  BY <1>0, <1>1, RowsAreNotNone
  DEF Inv, TypeOK, RequestRow, RowsInv, StatusInv, Held, Settled, Released, Reserved
<1>5. BindingInv' /\ ExecInv'
  <2>1. \A q \in Requests : req'[q].pay = req[q].pay /\ req'[q].started = req[q].started
    BY <1>0 DEF Inv, TypeOK, RequestRow
  <2>2. BindingInv'
    BY <1>0, <2>1 DEF Inv, BindingInv
  <2>3. ExecInv'
    <3> SUFFICES ASSUME NEW x \in Executions PROVE ExecInv!(x)'
      BY DEF ExecInv
    <3>1. ExecInv!(x)
      BY DEF Inv, ExecInv
    <3>2. UNCHANGED <<exec, pi>>
      BY <1>0
    <3>3. CASE exec[x].pc = "idle"
      BY <3>2, <3>3 DEF AfterBind, Steps
    <3>4. CASE exec[x].pc # "idle"
      BY <2>1, <3>1, <3>2, <3>4 DEF ExecInv
    <3> QED
      BY <3>3, <3>4
  <2> QED
    BY <2>2, <2>3
<1>6. EvidenceInv'
  BY <1>0, <1>1 DEF Inv, TypeOK, RequestRow, EvidenceInv, Settled, Released
<1> QED
  BY <1>2, <1>3, <1>4, <1>5, <1>6 DEF Inv

(***************************************************************************)
(* Settlement: the payment bound to the request carries a transaction, so  *)
(* the request has not been released.                                      *)
(***************************************************************************)
LEMMA SettleInv ==
  ASSUME Inv, NEW x \in Executions, NEW answered \in BOOLEAN, Settle(x, answered)
  PROVE  Inv'
<1> DEFINE r == exec[x].req
           e == Ledger!Settle(Gross, r)
<1>0. /\ r \in Requests /\ req[r].started
      /\ exec[x].pay \in Payments /\ req[r].pay = exec[x].pay
      /\ pi[req[r].pay].sent > 0 /\ pi[req[r].pay].verified /\ pi[req[r].pay].completed
  BY DEF Inv, ExecInv, Settle, AfterBind, Steps
<1>1. ~ Released(r)
  BY <1>0 DEF Inv, BindingInv, EvidenceInv
<1>2. Reserved(r)
  BY <1>0 DEF Inv, StatusInv
<1>3. /\ req' = [req EXCEPT ![r].status = "paid"]
      /\ UNCHANGED <<lane, pi>>
      /\ exec' \in [Executions -> Execution]
      /\ \E pc \in Ends : Goto(x, pc)
  <2>1. \E pc \in Ends : Goto(x, pc)
    BY DEF Settle, Answer, Ends
  <2>2. exec' \in [Executions -> Execution]
    BY <2>1, GotoTyped
  <2>3. req' = [req EXCEPT ![r].status = "paid"]
    BY <1>0 DEF Settle, Inv, TypeOK, RequestRow
  <2> QED
    BY <2>1, <2>2, <2>3 DEF Settle
<1>4. /\ acct' \in Ledger!Account
      /\ \A q \in Requests :
           /\ acct'.row[ReserveRef(q)] = acct.row[ReserveRef(q)]
           /\ acct'.row[SettleRef(q)] = IF q = r THEN e ELSE acct.row[SettleRef(q)]
           /\ acct'.row[ReleaseRef(q)] = acct.row[ReleaseRef(q)]
           /\ acct'.held[q] = IF q = r THEN 0 ELSE acct.held[q]
  <2>1. CASE Settled(r)
    <3>1. acct.row[SettleRef(r)] = e /\ acct.held[r] = 0
      BY <1>0, <2>1 DEF Inv, RowsInv, Settled, Held
    <3>2. acct' = acct
      BY <2>1 DEF Settle, After, Ledger!Answer, Ledger!Known, Settled
    <3> QED
      BY <3>1, <3>2 DEF Inv, TypeOK
  <2>2. CASE ~ Settled(r)
    <3>1. acct.held[r] = Gross
      BY <1>0, <1>1, <1>2, <2>2 DEF Inv, RowsInv, Held
    <3>2. acct' = Ledger!Inserted(acct, SettleRef(r), e)
      BY <2>2 DEF Settle, Accepted, After, Ledger!Answer, Ledger!Known, Settled
    <3>3. /\ acct' \in Ledger!Account
          /\ acct'.row = [acct.row EXCEPT ![SettleRef(r)] = e]
          /\ \A q \in Requests : acct'.held[q] = acct.held[q] - (IF q = r THEN Gross ELSE 0)
      BY <1>0, <3>2, RefsDiffer, RowsAreRows, InsertedIsAccount, SettleHolds DEF Inv, TypeOK
    <3>4. \A q \in Requests : acct.held[q] \in Int
      BY DEF Inv, TypeOK, Ledger!Account
    <3>5. \A q \in Requests : acct'.held[q] = IF q = r THEN 0 ELSE acct.held[q]
      BY <3>1, <3>3, <3>4
    <3>6. \A q \in Requests :
            /\ acct'.row[ReserveRef(q)] = acct.row[ReserveRef(q)]
            /\ acct'.row[SettleRef(q)] = IF q = r THEN e ELSE acct.row[SettleRef(q)]
            /\ acct'.row[ReleaseRef(q)] = acct.row[ReleaseRef(q)]
      BY <1>0, <3>3, RefsDiffer DEF Inv, TypeOK, Ledger!Account
    <3> QED
      BY <3>3, <3>5, <3>6
  <2> QED
    BY <2>1, <2>2
<1>5. e # None
  BY <1>0, RowsAreNotNone
<1> HIDE DEF r, e
<1>6. TypeOK'
  BY <1>0, <1>3, <1>4 DEF Inv, TypeOK, RequestRow
<1>7. RowsInv'
  <2> SUFFICES ASSUME NEW q \in Requests PROVE RowsInv!(q)'
    BY DEF RowsInv
  <2>1. CASE q = r
    BY <1>0, <1>1, <1>2, <1>4, <1>5, <2>1
    DEF Inv, RowsInv, Held, Settled, Released, Reserved, e
  <2>2. CASE q # r
    BY <1>4, <2>2 DEF Inv, RowsInv, Held, Settled, Released, Reserved
  <2> QED
    BY <2>1, <2>2
<1>8. StatusInv'
  BY <1>0, <1>1, <1>2, <1>3, <1>4, <1>5
  DEF Inv, TypeOK, RequestRow, StatusInv, Held, Settled, Released, Reserved
<1>9. BindingInv'
  BY <1>0, <1>3 DEF Inv, TypeOK, RequestRow, BindingInv
<1>10. ExecInv'
  <2>1. \A q \in Requests : req'[q].pay = req[q].pay /\ req'[q].started = req[q].started
    BY <1>0, <1>3 DEF Inv, TypeOK, RequestRow
  <2>2. /\ exec'[x].pc \in Ends /\ exec'[x].req = exec[x].req
        /\ exec[x].pc # "idle"
        /\ \A y \in Executions \ {x} : exec'[y] = exec[y]
    BY <1>3 DEF Inv, TypeOK, Execution, Goto, Settle
  <2> QED
    BY <1>3, <2>1, <2>2 DEF Inv, ExecInv, Ends, AfterBind, Steps
<1>11. EvidenceInv'
  BY <1>0, <1>1, <1>3, <1>4 DEF Inv, TypeOK, RequestRow, EvidenceInv, Settled, Released
<1> QED
  BY <1>6, <1>7, <1>8, <1>9, <1>10, <1>11 DEF Inv

(***************************************************************************)
(* Release: the payment bound to the request is cancelled, so no transfer  *)
(* was made and the request has not been settled.                          *)
(***************************************************************************)
LEMMA ReleaseInv ==
  ASSUME Inv, NEW x \in Executions, NEW answered \in BOOLEAN, Release(x, answered)
  PROVE  Inv'
<1> DEFINE r == exec[x].req
           e == Ledger!Release(Gross, r)
<1>0. /\ r \in Requests /\ req[r].started
      /\ exec[x].pay \in Payments /\ req[r].pay = exec[x].pay
      /\ pi[req[r].pay].state = "cancelled"
  BY DEF Inv, ExecInv, Release, AfterBind, Steps
<1>1. ~ Settled(r)
  BY <1>0 DEF Inv, BindingInv, EvidenceInv
<1>2. Reserved(r)
  BY <1>0 DEF Inv, StatusInv
<1>3. /\ req' = [req EXCEPT ![r].status = "released"]
      /\ UNCHANGED <<lane, pi>>
      /\ exec' \in [Executions -> Execution]
      /\ \E pc \in Ends : Goto(x, pc)
  <2>1. \E pc \in Ends : Goto(x, pc)
    BY DEF Release, Answer, Ends
  <2>2. exec' \in [Executions -> Execution]
    BY <2>1, GotoTyped
  <2>3. req' = [req EXCEPT ![r].status = "released"]
    BY <1>0 DEF Release, Inv, TypeOK, RequestRow
  <2> QED
    BY <2>1, <2>2, <2>3 DEF Release
<1>4. /\ acct' \in Ledger!Account
      /\ \A q \in Requests :
           /\ acct'.row[ReserveRef(q)] = acct.row[ReserveRef(q)]
           /\ acct'.row[ReleaseRef(q)] = IF q = r THEN e ELSE acct.row[ReleaseRef(q)]
           /\ acct'.row[SettleRef(q)] = acct.row[SettleRef(q)]
           /\ acct'.held[q] = IF q = r THEN 0 ELSE acct.held[q]
  <2>1. CASE Released(r)
    <3>1. acct.row[ReleaseRef(r)] = e /\ acct.held[r] = 0
      BY <1>0, <2>1 DEF Inv, RowsInv, Released, Held
    <3>2. acct' = acct
      BY <2>1 DEF Release, After, Ledger!Answer, Ledger!Known, Released
    <3> QED
      BY <3>1, <3>2 DEF Inv, TypeOK
  <2>2. CASE ~ Released(r)
    <3>1. acct.held[r] = Gross
      BY <1>0, <1>1, <1>2, <2>2 DEF Inv, RowsInv, Held
    <3>2. acct' = Ledger!Inserted(acct, ReleaseRef(r), e)
      BY <2>2 DEF Release, Accepted, After, Ledger!Answer, Ledger!Known, Released
    <3>3. /\ acct' \in Ledger!Account
          /\ acct'.row = [acct.row EXCEPT ![ReleaseRef(r)] = e]
          /\ \A q \in Requests : acct'.held[q] = acct.held[q] - (IF q = r THEN Gross ELSE 0)
      BY <1>0, <3>2, RefsDiffer, RowsAreRows, InsertedIsAccount, ReleaseHolds DEF Inv, TypeOK
    <3>4. \A q \in Requests : acct.held[q] \in Int
      BY DEF Inv, TypeOK, Ledger!Account
    <3>5. \A q \in Requests : acct'.held[q] = IF q = r THEN 0 ELSE acct.held[q]
      BY <3>1, <3>3, <3>4
    <3>6. \A q \in Requests :
            /\ acct'.row[ReserveRef(q)] = acct.row[ReserveRef(q)]
            /\ acct'.row[ReleaseRef(q)] = IF q = r THEN e ELSE acct.row[ReleaseRef(q)]
            /\ acct'.row[SettleRef(q)] = acct.row[SettleRef(q)]
      BY <1>0, <3>3, RefsDiffer DEF Inv, TypeOK, Ledger!Account
    <3> QED
      BY <3>3, <3>5, <3>6
  <2> QED
    BY <2>1, <2>2
<1>5. e # None
  BY <1>0, RowsAreNotNone
<1> HIDE DEF r, e
<1>6. TypeOK'
  BY <1>0, <1>3, <1>4 DEF Inv, TypeOK, RequestRow
<1>7. RowsInv'
  <2> SUFFICES ASSUME NEW q \in Requests PROVE RowsInv!(q)'
    BY DEF RowsInv
  <2>1. CASE q = r
    BY <1>0, <1>1, <1>2, <1>4, <1>5, <2>1
    DEF Inv, RowsInv, Held, Settled, Released, Reserved, e
  <2>2. CASE q # r
    BY <1>4, <2>2 DEF Inv, RowsInv, Held, Settled, Released, Reserved
  <2> QED
    BY <2>1, <2>2
<1>8. StatusInv'
  BY <1>0, <1>1, <1>2, <1>3, <1>4, <1>5
  DEF Inv, TypeOK, RequestRow, StatusInv, Held, Settled, Released, Reserved
<1>9. BindingInv'
  BY <1>0, <1>3 DEF Inv, TypeOK, RequestRow, BindingInv
<1>10. ExecInv'
  <2>1. \A q \in Requests : req'[q].pay = req[q].pay /\ req'[q].started = req[q].started
    BY <1>0, <1>3 DEF Inv, TypeOK, RequestRow
  <2>2. /\ exec'[x].pc \in Ends /\ exec'[x].req = exec[x].req
        /\ exec[x].pc # "idle"
        /\ \A y \in Executions \ {x} : exec'[y] = exec[y]
    BY <1>3 DEF Inv, TypeOK, Execution, Goto, Release
  <2> QED
    BY <1>3, <2>1, <2>2 DEF Inv, ExecInv, Ends, AfterBind, Steps
<1>11. EvidenceInv'
  BY <1>0, <1>1, <1>3, <1>4 DEF Inv, TypeOK, RequestRow, EvidenceInv, Settled, Released
<1> QED
  BY <1>6, <1>7, <1>8, <1>9, <1>10, <1>11 DEF Inv

--------------------------------------------------------------------------------
(* At first there is one credit and no request. *)
LEMMA InitInv == Init => Inv
<1> SUFFICES ASSUME Init PROVE Inv
  OBVIOUS
<1> DEFINE e == Ledger!Credit(Earned, "available", "earned")
<1>1. Ledger!EmptyAccount \in Ledger!Account
  BY DEF Ledger!EmptyAccount, Ledger!Account
<1>2. /\ acct \in Ledger!Account
      /\ acct.row = [Ledger!EmptyAccount.row EXCEPT ![CreditRef] = e]
      /\ \A r \in Requests : acct.held[r] = Ledger!EmptyAccount.held[r]
  BY <1>1, RefsDiffer, RowsAreRows, InsertedIsAccount, CreditHolds DEF Init
<1>3. \A r \in Requests :
        /\ ~ Reserved(r) /\ ~ Settled(r) /\ ~ Released(r)
        /\ acct.held[r] = 0
  BY <1>2, RefsDiffer DEF Ledger!EmptyAccount, Reserved, Settled, Released
<1>4. TypeOK
  BY <1>2
  DEF Init, TypeOK, RequestRow, Lane, Execution, Payment, NoLane, Idle, Unused
<1>5. RowsInv
  BY <1>3 DEF RowsInv, Held, Reserved, Settled, Released
<1>6. StatusInv
  BY <1>3 DEF Init, StatusInv, Held
<1>7. BindingInv /\ ExecInv
  BY DEF Init, BindingInv, ExecInv, Idle, Unused, AfterBind, Steps
<1>8. EvidenceInv
  BY <1>3 DEF EvidenceInv
<1> QED
  BY <1>4, <1>5, <1>6, <1>7, <1>8 DEF Inv

(* Nothing changes. *)
LEMMA StutterInv == Inv /\ UNCHANGED vars => Inv'
<1> SUFFICES ASSUME Inv, UNCHANGED vars PROVE Inv'
  OBVIOUS
<1>1. TypeOK'
  BY DEF Inv, TypeOK, vars
<1>2. ExecInv'
  BY DEF Inv, ExecInv, vars
<1> QED
  BY <1>1, <1>2, ExecutionFrame DEF Inv, vars

(* The actions of Next, one by one. *)
LEMMA NextInv == Inv /\ [Next]_vars => Inv'
<1> SUFFICES ASSUME Inv, Next PROVE Inv'
  BY StutterInv
<1>1. CASE User
  BY <1>1, CreateRequestInv, CancelUnstartedInv, MarkUncertainInv DEF User
<1>2. ASSUME NEW x \in Executions, NEW r \in Requests, Begin(x, r, TRUE)
      PROVE  Inv'
  BY <1>2, BeginInv
<1>3. ASSUME NEW x \in Executions, Step(x)
      PROVE  Inv'
  BY <1>3, FindInv, HeartbeatInv, CreateInv, BindInv, EndingInv, ReadInv, SubmitInv,
     CompleteInv, ReceiptInv, SettleInv, ReleaseInv, EndInv DEF Step
<1>4. ASSUME NEW x \in Executions, Fault(x)
      PROVE  Inv'
  BY <1>4, BeginInv, CreateInv, BindInv, SubmitInv, CompleteInv, SettleInv, ReleaseInv,
     EndingInv, CrashInv DEF Fault
<1>5. CASE Time
  BY <1>5, LaneInv, LapseRequestInv DEF Time
<1>6. CASE Others
  BY <1>6, LaneInv, ForeignCreateInv, ForgottenInv DEF Others
<1>7. CASE Pi
  BY <1>7, PiVerifyInv, PiCancelInv, ForgottenInv DEF Pi
<1> QED
  BY <1>1, <1>2, <1>3, <1>4, <1>5, <1>6, <1>7 DEF Next

(***************************************************************************)
(* The invariant the payout rests on, in every reachable state.            *)
(***************************************************************************)
THEOREM PayoutInvariant == Spec => []Inv
BY InitInv, NextInv, PTL DEF Spec

(* The variables of the payout keep their types. *)
THEOREM PayoutTypes == Spec => []TypeOK
BY PayoutInvariant, PTL DEF Inv

(***************************************************************************)
(* Every settled payout rests on the verified, completed transaction of    *)
(* its bound payment, and no payment of a released one carried a           *)
(* transaction: for any crashes, lost answers, takeovers and lapsed leases.*)
(***************************************************************************)
THEOREM PayoutLedgerAgreesWithPi == Spec => []LedgerAgreesWithPi
<1>1. Inv => LedgerAgreesWithPi
  <2> SUFFICES ASSUME Inv, NEW r \in Requests
               PROVE  LedgerAgreesWithPi!(r)
    BY DEF LedgerAgreesWithPi
  <2>1. ASSUME Released(r), NEW p \in Payments, pi[p].for = r
        PROVE  pi[p].sent = 0
    <3> SUFFICES ASSUME pi[p].sent > 0 PROVE FALSE
      BY DEF Inv, TypeOK, Payment
    <3>1. req[r].pay = p /\ pi[p].state = "open"
      BY <2>1 DEF Inv, BindingInv
    <3> QED
      BY <2>1, <3>1, SetsAssumption DEF Inv, StatusInv, EvidenceInv
  <2> QED
    BY <2>1 DEF Inv, EvidenceInv
<1> QED
  BY <1>1, PayoutInvariant, PTL

(* Whatever was transferred can be found again through its request. *)
THEOREM PayoutTransfersAreBound == Spec => []TransfersAreBound
<1>1. Inv => TransfersAreBound
  BY DEF Inv, BindingInv, TransfersAreBound
<1> QED
  BY <1>1, PayoutInvariant, PTL

(* A request shown as paid, released or reserved is so in the ledger. *)
THEOREM PayoutStatusAgreesWithLedger == Spec => []StatusAgreesWithLedger
<1>1. Inv => StatusAgreesWithLedger
  BY DEF Inv, StatusInv, RowsInv, StatusAgreesWithLedger
<1> QED
  BY <1>1, PayoutInvariant, PTL

--------------------------------------------------------------------------------
(* Bind, settle and release are the steps that write a binding. *)
THEOREM PayoutBindingIsFinal == Spec => BindingIsFinal
<1>1. Inv /\ [Next]_vars => [\A r \in Requests : req[r].pay # None =>
                                                  req'[r].pay = req[r].pay]_vars
  <2> SUFFICES ASSUME Inv, Next, NEW r \in Requests, req[r].pay # None
               PROVE  req'[r].pay = req[r].pay
    OBVIOUS
  <2>1. CASE UNCHANGED req
    BY <2>1
  <2>3. CASE \E q \in Requests : CreateRequest(q) \/ MarkUncertain(q) \/ LapseRequest(q)
    BY <2>3 DEF Inv, TypeOK, RequestRow, CreateRequest, MarkUncertain, LapseRequest
  <2>4. CASE CancelUnstarted
    BY <2>4 DEF Inv, TypeOK, RequestRow, CancelUnstarted
  <2>5. ASSUME NEW x \in Executions, NEW q \in Requests, NEW a \in BOOLEAN, Begin(x, q, a)
        PROVE  req'[r].pay = req[r].pay
    BY <2>5 DEF Inv, TypeOK, RequestRow, Begin
  <2>6. ASSUME NEW x \in Executions, NEW a \in BOOLEAN,
               Bind(x, a) \/ Settle(x, a) \/ Release(x, a)
        PROVE  req'[r].pay = req[r].pay
    <3>1. CASE Bind(x, a)
      BY <3>1 DEF Inv, TypeOK, RequestRow, Bind, CanBind
    <3>2. CASE Settle(x, a) \/ Release(x, a)
      <4>1. req[exec[x].req].pay = exec[x].pay
        BY <3>2 DEF Inv, ExecInv, Settle, Release, AfterBind, Steps
      <4> QED
        BY <3>2, <4>1 DEF Inv, TypeOK, RequestRow, Settle, Release
    <3> QED
      BY <2>6, <3>1, <3>2
  <2>7. ASSUME NEW x \in Executions, End(x)
        PROVE  req'[r].pay = req[r].pay
    BY <2>7 DEF Inv, TypeOK, RequestRow, End
  <2> QED
    BY <2>1, <2>3, <2>4, <2>5, <2>6, <2>7
    DEF Next, User, Step, Fault, Time, Others, Pi, Find, Heartbeat, Create, BindRefused, Read,
        Submit, PiRefuses, Complete, Receipt, SettleAgain, ReleaseAgain, Fail, Crash,
        LapseLane, ForeignBegin, ForeignEnd, ForeignCreate, ForeignFinish, PiVerify,
        PiCancel, PiForget
<1> QED
  BY <1>1, PayoutInvariant, PTL DEF Spec, BindingIsFinal

--------------------------------------------------------------------------------
(***************************************************************************)
(* The payout implements PayoutPromise.  Rows are written by the steps of  *)
(* Hold, Settle and Release; the first submit of a request is Transfer;    *)
(* all other steps leave the promise where it is.                          *)
(***************************************************************************)
LEMMA PhaseFrame ==
  ASSUME UNCHANGED acct
  PROVE  \A r \in Requests : Phase(r)' = Phase(r)
BY DEF Phase, Settled, Released, Reserved

(* No transfer, no change of what was transferred. *)
LEMMA TransferredFrame ==
  ASSUME UNCHANGED pi
  PROVE  \A r \in Requests : Transferred(r)' = Transferred(r)
BY DEF Transferred

(* Payments that come, go or gain a status leave what was transferred alone. *)
LEMMA TransferredByOthers ==
  ASSUME Inv,
         \/ \E x \in Executions, a \in BOOLEAN : Create(x, a) \/ Complete(x, a)
         \/ ForeignCreate
         \/ \E p \in Payments : ForeignFinish(p) \/ PiVerify(p) \/ PiCancel(p) \/ PiForget(p)
  PROVE  \A r \in Requests : Transferred(r)' = Transferred(r)
<1> SUFFICES ASSUME NEW p \in Payments, NEW r \in Requests
             PROVE  pi'[p].for = r /\ pi'[p].sent > 0 <=> pi[p].for = r /\ pi[p].sent > 0
  BY DEF Transferred
<1>1. \A q \in Payments : pi[q].for = Foreign => ~ pi[q].sent > 0
  BY SetsAssumption DEF Inv, BindingInv
<1>2. \A q \in Payments : pi[q].state = "cancelled" => ~ pi[q].sent > 0
  BY DEF Inv, BindingInv
<1>3. ASSUME NEW x \in Executions, NEW a \in BOOLEAN, Create(x, a)
      PROVE  pi'[p].for = r /\ pi'[p].sent > 0 <=> pi[p].for = r /\ pi[p].sent > 0
  <2>1. PICK q \in Payments :
          /\ pi[q] = Unused
          /\ pi' = [pi EXCEPT ![q] = [Unused EXCEPT !.for = exec[x].req, !.state = "open"]]
    BY <1>3 DEF Create
  <2>2. CASE p = q
    BY <2>1, <2>2 DEF Inv, TypeOK, Unused
  <2>3. CASE p # q
    BY <2>1, <2>3 DEF Inv, TypeOK
  <2> QED
    BY <2>2, <2>3
<1>4. ASSUME NEW x \in Executions, NEW a \in BOOLEAN, Complete(x, a)
      PROVE  pi'[p].for = r /\ pi'[p].sent > 0 <=> pi[p].for = r /\ pi[p].sent > 0
  BY <1>4 DEF Inv, TypeOK, Payment, Complete
<1>5. CASE ForeignCreate
  BY <1>5 DEF Inv, TypeOK, Payment, ForeignCreate, Unused
<1>6. ASSUME NEW q \in Payments,
             ForeignFinish(q) \/ PiVerify(q) \/ PiCancel(q) \/ PiForget(q)
      PROVE  pi'[p].for = r /\ pi'[p].sent > 0 <=> pi[p].for = r /\ pi[p].sent > 0
  <2>1. CASE ForeignFinish(q)
    BY <1>1, <2>1 DEF Inv, TypeOK, Payment, ForeignFinish, Unused
  <2>2. CASE PiForget(q)
    BY <1>2, <2>2 DEF Inv, TypeOK, Payment, PiForget, Unused
  <2>3. CASE PiVerify(q) \/ PiCancel(q)
    BY <2>3 DEF Inv, TypeOK, Payment, PiVerify, PiCancel
  <2> QED
    BY <1>6, <2>1, <2>2, <2>3
<1> QED
  BY <1>3, <1>4, <1>5, <1>6

(* The abstract variables, kept apart from how they are computed. *)
LEMMA PromiseStutters ==
  ASSUME \A r \in Requests : Phase(r)' = Phase(r),
         \A r \in Requests : Transferred(r)' = Transferred(r)
  PROVE  UNCHANGED Promise!promiseVars
BY DEF Promise!promiseVars

(* No request holds, and none was paid. *)
LEMMA PromiseInit == Init => Promise!Init
<1> SUFFICES ASSUME Init PROVE Promise!Init
  OBVIOUS
<1>1. \A r \in Requests : ~ Reserved(r) /\ ~ Settled(r) /\ ~ Released(r)
  <2>1. acct.row = [Ledger!EmptyAccount.row EXCEPT
                      ![CreditRef] = Ledger!Credit(Earned, "available", "earned")]
    <3>1. Ledger!EmptyAccount \in Ledger!Account
      BY DEF Ledger!EmptyAccount, Ledger!Account
    <3> QED
      BY <3>1, RefsDiffer, RowsAreRows, InsertedIsAccount DEF Init
  <2> QED
    BY <2>1, RefsDiffer DEF Ledger!EmptyAccount, Reserved, Settled, Released
<1>2. \A r \in Requests : Phase(r) = "none"
  BY <1>1 DEF Phase
<1>3. \A r \in Requests : Transferred(r) = FALSE
  BY DEF Init, Transferred, Unused
<1> QED
  BY <1>2, <1>3 DEF Promise!Init

(* A request is held between its reserve row and the row that ends it. *)
LEMMA HeldPhase ==
  ASSUME Inv, NEW r \in Requests
  PROVE  /\ Held(r) <=> Phase(r) = "held"
         /\ Settled(r) <=> Phase(r) = "settled"
         /\ Released(r) <=> Phase(r) = "released"
         /\ ~ Reserved(r) <=> Phase(r) = "none"
BY DEF Inv, RowsInv, Held, Phase

(* A request that is created is held. *)
LEMMA PromiseHold ==
  ASSUME Inv, Inv', NEW r \in Requests, CreateRequest(r)
  PROVE  Promise!Hold(r)
<1>1. /\ ~ Reserved(r)
      /\ acct' = Ledger!Inserted(acct, ReserveRef(r), Ledger!Reserve(Gross, r))
      /\ UNCHANGED pi
  BY DEF CreateRequest, Ledger!Answer, Ledger!Known, Reserved
<1>2. acct'.row = [acct.row EXCEPT ![ReserveRef(r)] = Ledger!Reserve(Gross, r)]
  BY <1>1, RefsDiffer, RowsAreRows, InsertedIsAccount DEF Inv, TypeOK
<1>3. \A q \in Requests :
        /\ Reserved(q)' <=> q = r \/ Reserved(q)
        /\ Settled(q)' <=> Settled(q)
        /\ Released(q)' <=> Released(q)
  BY <1>2, RefsDiffer, RowsAreNotNone
  DEF Inv, TypeOK, Ledger!Account, Reserved, Settled, Released
<1>4. ~ Settled(r) /\ ~ Released(r)
  BY <1>1 DEF Inv, RowsInv
<1>5. \A q \in Requests : Phase(q)' = IF q = r THEN "held" ELSE Phase(q)
  BY <1>3, <1>4 DEF Phase
<1>6. Phase(r) = "none"
  BY <1>1, HeldPhase
<1> QED
  BY <1>1, <1>5, <1>6, TransferredFrame DEF Promise!Hold

(* A settlement that writes a row ends the hold of its request. *)
LEMMA SettlePhase ==
  ASSUME Inv, NEW x \in Executions, NEW a \in BOOLEAN, Settle(x, a), acct' # acct
  PROVE  LET r == exec[x].req
         IN  /\ r \in Requests /\ Phase(r) = "held"
             /\ acct' = Ledger!Inserted(acct, SettleRef(r), Ledger!Settle(Gross, r))
             /\ \A q \in Requests : Phase(q)' = IF q = r THEN "settled" ELSE Phase(q)
<1> DEFINE r == exec[x].req
<1>0. /\ r \in Requests /\ req[r].started
      /\ exec[x].pay \in Payments /\ req[r].pay = exec[x].pay
      /\ pi[exec[x].pay].sent > 0
  BY DEF Inv, ExecInv, Settle, AfterBind, Steps
<1>1. /\ ~ Settled(r)
      /\ acct' = Ledger!Inserted(acct, SettleRef(r), Ledger!Settle(Gross, r))
  BY DEF Settle, After, Ledger!Answer, Ledger!Known, Settled
<1>2. acct'.row = [acct.row EXCEPT ![SettleRef(r)] = Ledger!Settle(Gross, r)]
  BY <1>0, <1>1, RefsDiffer, RowsAreRows, InsertedIsAccount DEF Inv, TypeOK
<1>3. \A q \in Requests :
        /\ Settled(q)' <=> q = r \/ Settled(q)
        /\ Reserved(q)' <=> Reserved(q)
        /\ Released(q)' <=> Released(q)
  BY <1>0, <1>2, RefsDiffer, RowsAreNotNone
  DEF Inv, TypeOK, Ledger!Account, Reserved, Settled, Released
<1>4. Reserved(r) /\ ~ Released(r)
  BY <1>0 DEF Inv, StatusInv, BindingInv, EvidenceInv
<1>5. \A q \in Requests : Phase(q)' = IF q = r THEN "settled" ELSE Phase(q)
  BY <1>3, <1>4 DEF Phase
<1>6. Phase(r) = "held"
  BY <1>0, <1>1, <1>4, HeldPhase DEF Held
<1> QED
  BY <1>0, <1>1, <1>5, <1>6

(* Settling a request is the promise settling it. *)
LEMMA PromiseSettle ==
  ASSUME Inv, Inv', NEW x \in Executions, NEW a \in BOOLEAN, Settle(x, a)
  PROVE  Promise!Settle(exec[x].req) \/ UNCHANGED Promise!promiseVars
<1> DEFINE r == exec[x].req
<1>0. /\ r \in Requests /\ req[r].started
      /\ exec[x].pay \in Payments /\ req[r].pay = exec[x].pay
      /\ pi[exec[x].pay].sent > 0
      /\ UNCHANGED pi
  BY DEF Inv, ExecInv, Settle, AfterBind, Steps
<1>1. CASE acct' = acct
  BY <1>0, <1>1, PhaseFrame, TransferredFrame, PromiseStutters
<1>2. CASE acct' # acct
  <2>1. Phase(r) = "held" /\ \A q \in Requests : Phase(q)' = IF q = r THEN "settled" ELSE Phase(q)
    BY <1>2, SettlePhase
  <2>2. Transferred(r)
    BY <1>0, SetsAssumption DEF Transferred, Inv, BindingInv
  <2> QED
    BY <1>0, <2>1, <2>2, TransferredFrame DEF Promise!Settle
<1> QED
  BY <1>1, <1>2

(* A request that may be released was not transferred. *)
LEMMA NoTransfer ==
  ASSUME Inv, NEW r \in Requests,
         \/ ~ req[r].started
         \/ req[r].pay \in Payments /\ pi[req[r].pay].state = "cancelled"
  PROVE  ~ Transferred(r)
<1> SUFFICES ASSUME NEW p \in Payments, pi[p].for = r, pi[p].sent > 0
             PROVE  FALSE
  BY DEF Transferred
<1>1. req[r].pay = p /\ pi[p].state = "open"
  BY DEF Inv, BindingInv
<1> QED
  BY <1>1, SetsAssumption DEF Inv, StatusInv

(* A release that writes a row ends the hold of its request. *)
LEMMA ReleasePhase ==
  ASSUME Inv, NEW x \in Executions, NEW a \in BOOLEAN, Release(x, a), acct' # acct
  PROVE  LET r == exec[x].req
         IN  /\ r \in Requests /\ Phase(r) = "held"
             /\ acct' = Ledger!Inserted(acct, ReleaseRef(r), Ledger!Release(Gross, r))
             /\ \A q \in Requests : Phase(q)' = IF q = r THEN "released" ELSE Phase(q)
<1> DEFINE r == exec[x].req
<1>0. /\ r \in Requests /\ req[r].started
      /\ exec[x].pay \in Payments /\ req[r].pay = exec[x].pay
      /\ pi[exec[x].pay].state = "cancelled"
  BY DEF Inv, ExecInv, Release, AfterBind, Steps
<1>1. /\ ~ Released(r)
      /\ acct' = Ledger!Inserted(acct, ReleaseRef(r), Ledger!Release(Gross, r))
  BY DEF Release, After, Ledger!Answer, Ledger!Known, Released
<1>2. acct'.row = [acct.row EXCEPT ![ReleaseRef(r)] = Ledger!Release(Gross, r)]
  BY <1>0, <1>1, RefsDiffer, RowsAreRows, InsertedIsAccount DEF Inv, TypeOK
<1>3. \A q \in Requests :
        /\ Released(q)' <=> q = r \/ Released(q)
        /\ Reserved(q)' <=> Reserved(q)
        /\ Settled(q)' <=> Settled(q)
  BY <1>0, <1>2, RefsDiffer, RowsAreNotNone
  DEF Inv, TypeOK, Ledger!Account, Reserved, Settled, Released
<1>4. Reserved(r) /\ ~ Settled(r)
  BY <1>0 DEF Inv, StatusInv, BindingInv, EvidenceInv
<1>5. \A q \in Requests : Phase(q)' = IF q = r THEN "released" ELSE Phase(q)
  BY <1>3, <1>4 DEF Phase
<1>6. Phase(r) = "held"
  BY <1>0, <1>1, <1>4, HeldPhase DEF Held
<1> QED
  BY <1>0, <1>1, <1>5, <1>6

(* Releasing a request is the promise releasing it. *)
LEMMA PromiseRelease ==
  ASSUME Inv, Inv', NEW x \in Executions, NEW a \in BOOLEAN, Release(x, a)
  PROVE  Promise!Release({exec[x].req}) \/ UNCHANGED Promise!promiseVars
<1> DEFINE r == exec[x].req
<1>0. /\ r \in Requests /\ req[r].started
      /\ exec[x].pay \in Payments /\ req[r].pay = exec[x].pay
      /\ pi[exec[x].pay].state = "cancelled"
      /\ UNCHANGED pi
  BY DEF Inv, ExecInv, Release, AfterBind, Steps
<1>1. CASE acct' = acct
  BY <1>0, <1>1, PhaseFrame, TransferredFrame, PromiseStutters
<1>2. CASE acct' # acct
  <2>1. Phase(r) = "held" /\ \A q \in Requests : Phase(q)' = IF q = r THEN "released" ELSE Phase(q)
    BY <1>2, ReleasePhase
  <2>2. ~ Transferred(r)
    BY <1>0, NoTransfer
  <2>3. \A q \in Requests : Phase(q)' = IF q \in {r} THEN "released" ELSE Phase(q)
    BY <2>1
  <2> QED
    BY <1>0, <2>1, <2>2, <2>3, TransferredFrame DEF Promise!Release
<1> QED
  BY <1>1, <1>2

(* A cancellation releases all it cancels at once. *)
LEMMA PromiseCancel ==
  ASSUME Inv, Inv', CancelUnstarted
  PROVE  Promise!Release(Unstarted)
<1>0. /\ Unstarted \in SUBSET Requests
      /\ acct' = ReleasedAll(Unstarted)
      /\ UNCHANGED pi
      /\ \A r \in Unstarted : ~ req[r].started /\ Held(r)
  BY DEF CancelUnstarted, Unstarted, Inv, StatusInv
<1>1. \A r \in Unstarted : Phase(r) = "held" /\ ~ Transferred(r)
  BY <1>0, HeldPhase, NoTransfer
<1>2. \A q \in Requests :
        /\ Released(q)' <=> q \in Unstarted \/ Released(q)
        /\ Reserved(q)' <=> Reserved(q)
        /\ Settled(q)' <=> Settled(q)
  BY <1>0, ReleasedAllIsAccount, RowsAreNotNone DEF Inv, TypeOK, Reserved, Settled, Released
<1>3. \A q \in Requests : Phase(q)' = IF q \in Unstarted THEN "released" ELSE Phase(q)
  BY <1>0, <1>2 DEF Phase, Held
<1> QED
  BY <1>0, <1>1, <1>3, TransferredFrame DEF Promise!Release

(* The first submit is the transfer, a later one a stutter. *)
LEMMA PromiseTransfer ==
  ASSUME Inv, Inv', NEW x \in Executions, NEW a \in BOOLEAN, Submit(x, a)
  PROVE  Promise!Transfer(exec[x].req) \/ UNCHANGED Promise!promiseVars
<1> DEFINE r == exec[x].req
           p == exec[x].pay
<1>0. /\ r \in Requests /\ req[r].started /\ p \in Payments /\ req[r].pay = p
      /\ pi[p].for = r /\ pi[p].state = "open" /\ pi[p].sent \in Nat
      /\ pi' = [pi EXCEPT ![p].sent = @ + 1]
      /\ UNCHANGED acct
  <2>1. /\ r \in Requests /\ req[r].started /\ p \in Payments /\ req[r].pay = p
        /\ pi' = [pi EXCEPT ![p].sent = @ + 1]
        /\ UNCHANGED acct
    BY DEF Inv, ExecInv, Submit, AfterBind, Steps
  <2>2. pi[p].for = r /\ pi[p].state = "open"
    BY <2>1, SetsAssumption DEF Inv, BindingInv, Submit
  <2>3. pi[p].sent \in Nat
    BY <2>1 DEF Inv, TypeOK, Payment
  <2> QED
    BY <2>1, <2>2, <2>3
<1>1. \A q \in Requests : Transferred(q)' <=> q = r \/ Transferred(q)
  <2>1. /\ pi'[p].for = r /\ pi'[p].sent > 0
        /\ \A o \in Payments : pi'[o].for = pi[o].for
        /\ \A o \in Payments \ {p} : pi'[o] = pi[o]
    BY <1>0 DEF Inv, TypeOK, Payment
  <2> QED
    BY <1>0, <2>1 DEF Transferred
<1>2. \A q \in Requests : Phase(q)' = Phase(q)
  BY <1>0, PhaseFrame
<1>3. CASE Transferred(r)
  <2>1. \A q \in Requests : Transferred(q)' = Transferred(q)
    BY <1>1, <1>3 DEF Transferred
  <2> QED
    BY <1>2, <2>1, PromiseStutters
<1>4. CASE ~ Transferred(r)
  <2>1. Reserved(r) /\ ~ Settled(r) /\ ~ Released(r)
    BY <1>0, <1>4 DEF Inv, StatusInv, BindingInv, EvidenceInv, Transferred
  <2>2. Phase(r) = "held"
    BY <1>0, <2>1, HeldPhase DEF Held
  <2>3. \A q \in Requests : Transferred(q)' = IF q = r THEN TRUE ELSE Transferred(q)
    BY <1>1 DEF Transferred
  <2> QED
    BY <1>0, <1>2, <1>4, <2>2, <2>3 DEF Promise!Transfer
<1> QED
  BY <1>3, <1>4

(* Steps that touch neither the ledger nor Pi are stutters of the promise. *)
LEMMA PromiseFrame ==
  ASSUME UNCHANGED <<acct, pi>>
  PROVE  UNCHANGED Promise!promiseVars
BY PhaseFrame, TransferredFrame, PromiseStutters

(* So these steps are stutters of the promise, too. *)
LEMMA PromiseByOthers ==
  ASSUME Inv, UNCHANGED acct,
         \/ \E x \in Executions, a \in BOOLEAN : Create(x, a) \/ Complete(x, a)
         \/ ForeignCreate
         \/ \E p \in Payments : ForeignFinish(p) \/ PiVerify(p) \/ PiCancel(p) \/ PiForget(p)
  PROVE  UNCHANGED Promise!promiseVars
BY PhaseFrame, TransferredByOthers, PromiseStutters

(* Every step is one of the promise, or a stutter. *)
LEMMA PromiseStep == Inv /\ Inv' /\ [Next]_vars => [Promise!Next]_(Promise!promiseVars)
<1> SUFFICES ASSUME Inv, Inv', Next PROVE Promise!Next \/ UNCHANGED Promise!promiseVars
  BY PromiseFrame DEF vars
<1>1. CASE User
  <2>1. ASSUME NEW r \in Requests, CreateRequest(r) PROVE Promise!Next
    BY <2>1, PromiseHold DEF Promise!Next
  <2>2. CASE CancelUnstarted
    BY <2>2, PromiseCancel DEF Promise!Next, Unstarted
  <2>3. ASSUME NEW r \in Requests, MarkUncertain(r) PROVE UNCHANGED Promise!promiseVars
    BY <2>3, PromiseFrame DEF MarkUncertain
  <2> QED
    BY <1>1, <2>1, <2>2, <2>3 DEF User
<1>2. ASSUME NEW x \in Executions, NEW a \in BOOLEAN, Settle(x, a) \/ Release(x, a) \/ Submit(x, a)
      PROVE  Promise!Next \/ UNCHANGED Promise!promiseVars
  <2>1. exec[x].req \in Requests
    BY <1>2 DEF Inv, ExecInv, Settle, Release, Submit, AfterBind, Steps
  <2> QED
    BY <1>2, <2>1, PromiseSettle, PromiseRelease, PromiseTransfer DEF Promise!Next
<1>3. ASSUME NEW x \in Executions, NEW a \in BOOLEAN, Create(x, a) \/ Complete(x, a)
      PROVE  UNCHANGED Promise!promiseVars
  BY <1>3, PromiseByOthers DEF Create, Complete
<1>4. ASSUME NEW x \in Executions, NEW a \in BOOLEAN,
             \/ \E r \in Requests : Begin(x, r, a)
             \/ Find(x) \/ Bind(x, a) \/ BindRefused(x) \/ Read(x)
             \/ PiRefuses(x) \/ Receipt(x) \/ SettleAgain(x) \/ ReleaseAgain(x)
             \/ End(x) \/ Fail(x) \/ Crash(x)
      PROVE  UNCHANGED Promise!promiseVars
  BY <1>4, PromiseFrame
  DEF Begin, Find, Bind, BindRefused, Read, PiRefuses, Receipt, SettleAgain, ReleaseAgain,
      End, Fail, Crash
<1>5. ASSUME NEW x \in Executions, NEW pc, NEW next, Heartbeat(x, pc, next)
      PROVE  UNCHANGED Promise!promiseVars
  BY <1>5, PromiseFrame DEF Heartbeat
<1>6. CASE Time
  BY <1>6, PromiseFrame DEF Time, LapseLane, LapseRequest
<1>7. CASE Others
  BY <1>7, PromiseFrame, PromiseByOthers
  DEF Others, ForeignBegin, ForeignEnd, ForeignCreate, ForeignFinish
<1>8. CASE Pi
  BY <1>8, PromiseByOthers DEF Pi, PiVerify, PiCancel, PiForget
<1>9. ASSUME NEW x \in Executions, Step(x)
      PROVE  Promise!Next \/ UNCHANGED Promise!promiseVars
  <2>1. TRUE \in BOOLEAN
    OBVIOUS
  <2>2. CASE Settle(x, TRUE) \/ Release(x, TRUE) \/ Submit(x, TRUE)
    BY <1>2, <2>1, <2>2
  <2>3. CASE Create(x, TRUE) \/ Complete(x, TRUE)
    BY <1>3, <2>1, <2>3
  <2> QED
    BY <1>4, <1>5, <1>9, <2>1, <2>2, <2>3 DEF Step
<1>10. ASSUME NEW x \in Executions, Fault(x)
       PROVE  Promise!Next \/ UNCHANGED Promise!promiseVars
  <2>1. FALSE \in BOOLEAN
    OBVIOUS
  <2>2. CASE Settle(x, FALSE) \/ Release(x, FALSE) \/ Submit(x, FALSE)
    BY <1>2, <2>1, <2>2
  <2>3. CASE Create(x, FALSE) \/ Complete(x, FALSE)
    BY <1>3, <2>1, <2>3
  <2> QED
    BY <1>4, <1>10, <2>1, <2>2, <2>3 DEF Fault
<1>11. ASSUME NEW x \in Executions, NEW r \in Requests, Begin(x, r, TRUE)
       PROVE  UNCHANGED Promise!promiseVars
  BY <1>11, PromiseFrame DEF Begin
<1> QED
  BY <1>1, <1>6, <1>7, <1>8, <1>9, <1>10, <1>11 DEF Next

(***************************************************************************)
(* The payout keeps its promise: whatever goes wrong on the way, the money *)
(* of each request is held, then settled after a transfer or released      *)
(* without one, and that is final.                                         *)
(***************************************************************************)
THEOREM PayoutKeepsPromise == Spec => PromiseKept
<1>1. Inv /\ Inv' /\ [Next]_vars => [Promise!Next]_(Promise!promiseVars)
  BY PromiseStep
<1> QED
  BY <1>1, PromiseInit, PayoutInvariant, PTL DEF Spec, PromiseKept, Promise!Spec

--------------------------------------------------------------------------------
(***************************************************************************)
(* The money of the account.  Three steps insert a row and one inserts a   *)
(* row for each request it cancels; each takes out of one phase what it    *)
(* puts into another, or into what is available.                           *)
(***************************************************************************)

(* Finitely many requests are in a phase; together their gross is an integer. *)
LEMMA GrossType ==
  ASSUME NEW ph
  PROVE  /\ IsFiniteSet({r \in Requests : Phase(r) = ph})
         /\ GrossIn(ph) \in Int
<1>1. IsFiniteSet({r \in Requests : Phase(r) = ph})
  BY SetsAssumption, FS_Subset
<1>2. Cardinality({r \in Requests : Phase(r) = ph}) \in Nat
  BY <1>1, FS_CardinalityType
<1> QED
  BY <1>1, <1>2, AmountAssumption DEF GrossIn, Ledger!Positive

(* The gross of so many requests more. *)
LEMMA GrossOfMore ==
  ASSUME NEW m \in Nat, NEW n \in Nat
  PROVE  (m + n) * Gross = m * Gross + n * Gross
BY AmountAssumption DEF Ledger!Positive

(* Requests that all leave one phase for another take their gross with them. *)
LEMMA GrossMoves ==
  ASSUME NEW S \in SUBSET Requests, NEW from, NEW to, from # to,
         \A r \in S : Phase(r) = from,
         \A r \in Requests : Phase(r)' = IF r \in S THEN to ELSE Phase(r)
  PROVE  /\ Cardinality(S) \in Nat
         /\ GrossIn(to)' = GrossIn(to) + Cardinality(S) * Gross
         /\ GrossIn(from)' = GrossIn(from) - Cardinality(S) * Gross
         /\ \A ph : ph \notin {from, to} => GrossIn(ph)' = GrossIn(ph)
<1> DEFINE In(ph) == {r \in Requests : Phase(r) = ph}
<1>1. /\ In(to)' = In(to) \cup S /\ In(to) \cap S = {}
      /\ In(from) = In(from)' \cup S /\ In(from)' \cap S = {}
      /\ \A ph : ph \notin {from, to} => In(ph)' = In(ph)
  OBVIOUS
<1>2. IsFiniteSet(S) /\ Cardinality(S) \in Nat
  BY SetsAssumption, FS_Subset, FS_CardinalityType
<1>3. ASSUME NEW T, NEW U, IsFiniteSet(T), T \cap S = {}, U = T \cup S
      PROVE  Cardinality(U) * Gross = Cardinality(T) * Gross + Cardinality(S) * Gross
  <2>1. Cardinality(T) \in Nat
    BY <1>3, FS_CardinalityType
  <2>2. Cardinality(U) = Cardinality(T) + Cardinality(S) - Cardinality({})
    BY <1>2, <1>3, FS_Union
  <2>3. Cardinality(U) = Cardinality(T) + Cardinality(S)
    BY <1>2, <2>1, <2>2, FS_EmptySet
  <2> QED
    BY <1>2, <2>1, <2>3, GrossOfMore
<1>4. IsFiniteSet(In(to)) /\ IsFiniteSet(In(from)')
  BY SetsAssumption, FS_Subset
<1>5. Cardinality(In(to)') * Gross = Cardinality(In(to)) * Gross + Cardinality(S) * Gross
  BY <1>1, <1>3, <1>4
<1>6. Cardinality(In(from)) * Gross = Cardinality(In(from)') * Gross + Cardinality(S) * Gross
  BY <1>1, <1>3, <1>4
<1>7. /\ Cardinality(In(from)') * Gross \in Int
      /\ Cardinality(S) * Gross \in Int
  BY <1>2, <1>4, FS_CardinalityType, AmountAssumption DEF Ledger!Positive
<1>8. /\ GrossIn(to)' = GrossIn(to) + Cardinality(S) * Gross
      /\ GrossIn(from) = GrossIn(from)' + Cardinality(S) * Gross
      /\ GrossIn(from)' \in Int
  BY <1>5, <1>6, <1>7 DEF GrossIn
<1>9. \A ph : ph \notin {from, to} => GrossIn(ph)' = GrossIn(ph)
  BY <1>1 DEF GrossIn
<1> QED
  BY <1>2, <1>7, <1>8, <1>9

(* One request does. *)
LEMMA GrossMovesOnce ==
  ASSUME NEW r \in Requests, NEW from, NEW to, from # to, Phase(r) = from,
         \A q \in Requests : Phase(q)' = IF q = r THEN to ELSE Phase(q)
  PROVE  /\ GrossIn(to)' = GrossIn(to) + Gross
         /\ GrossIn(from)' = GrossIn(from) - Gross
         /\ \A ph : ph \notin {from, to} => GrossIn(ph)' = GrossIn(ph)
<1>1. Cardinality({r}) * Gross = Gross
  <2>1. Cardinality({r}) = 1
    BY FS_Singleton
  <2>2. 1 * Gross = Gross
    BY AmountAssumption DEF Ledger!Positive
  <2> QED
    BY <2>1, <2>2
<1>2. /\ {r} \in SUBSET Requests
      /\ \A q \in {r} : Phase(q) = from
      /\ \A q \in Requests : Phase(q)' = IF q \in {r} THEN to ELSE Phase(q)
  OBVIOUS
<1> QED
  BY <1>1, <1>2, GrossMoves

(* All that are cancelled do. *)
LEMMA GrossReleased ==
  ASSUME NEW S \in SUBSET Requests,
         \A r \in S : Phase(r) = "held",
         \A r \in Requests : Phase(r)' = IF r \in S THEN "released" ELSE Phase(r)
  PROVE  /\ Cardinality(S) \in Nat
         /\ GrossIn("held")' = GrossIn("held") - Cardinality(S) * Gross
         /\ GrossIn("settled")' = GrossIn("settled")
<1>1. /\ Cardinality(S) \in Nat
      /\ GrossIn("released")' = GrossIn("released") + Cardinality(S) * Gross
      /\ GrossIn("held")' = GrossIn("held") - Cardinality(S) * Gross
      /\ \A ph : ph \notin {"released", "held"} => GrossIn(ph)' = GrossIn(ph)
  BY GrossMoves
<1> QED
  BY <1>1

(* What the rows of the payout functions add to the user's sums. *)
LEMMA InsertedFunds ==
  ASSUME NEW a \in Ledger!Account, NEW ref, NEW r \in Requests
  PROVE  /\ LET b == Ledger!Inserted(a, ref, Ledger!Reserve(Gross, r))
            IN  b.available = a.available - Gross /\ b.paid = a.paid
         /\ LET b == Ledger!Inserted(a, ref, Ledger!Settle(Gross, r))
            IN  b.available = a.available /\ b.paid = a.paid + Gross
         /\ LET b == Ledger!Inserted(a, ref, Ledger!Release(Gross, r))
            IN  b.available = a.available + Gross /\ b.paid = a.paid
BY AmountAssumption
DEF Ledger!Inserted, Ledger!Account, Ledger!AvailablePart, Ledger!PaidPart, Ledger!Reserve,
    Ledger!Settle, Ledger!Release, Ledger!Positive

(* At first all that was earned is available. *)
LEMMA FundsInit == Init => FundsAddUp
<1> SUFFICES ASSUME Init PROVE FundsAddUp
  OBVIOUS
<1>1. \A r \in Requests : Phase(r) = "none"
  BY PromiseInit DEF Promise!Init
<1>2. GrossIn("held") = 0 /\ GrossIn("settled") = 0
  <2>1. {r \in Requests : Phase(r) = "held"} = {} /\ {r \in Requests : Phase(r) = "settled"} = {}
    BY <1>1
  <2>2. 0 * Gross = 0
    BY AmountAssumption DEF Ledger!Positive
  <2> QED
    BY <2>1, <2>2, FS_EmptySet DEF GrossIn
<1>3. acct.available = Earned /\ acct.paid = 0
  BY AmountAssumption
  DEF Init, Ledger!Inserted, Ledger!EmptyAccount, Ledger!Credit, Ledger!AvailablePart,
      Ledger!PaidPart, Ledger!Positive
<1> QED
  BY <1>2, <1>3, AmountAssumption DEF FundsAddUp, Ledger!Positive

(* A step moves money between two phases, or between a phase and what is available. *)
LEMMA FundsKept ==
  ASSUME Inv, Inv', FundsAddUp, [Next]_vars
  PROVE  FundsAddUp'
<1>1. /\ Gross \in Int /\ Gross > 0 /\ Earned \in Int
      /\ acct \in Ledger!Account /\ acct.available \in Int /\ acct.paid \in Int
      /\ GrossIn("held") \in Int /\ GrossIn("settled") \in Int
  <2>1. GrossIn("held") \in Int /\ GrossIn("settled") \in Int
    BY GrossType
  <2>2. /\ Gross \in Int /\ Gross > 0 /\ Earned \in Int
    BY AmountAssumption DEF Ledger!Positive
  <2>3. acct \in Ledger!Account /\ acct.available \in Int /\ acct.paid \in Int
    BY DEF Inv, TypeOK, Ledger!Account
  <2> QED
    BY <2>1, <2>2, <2>3
<1>2. CASE acct' = acct
  <2>1. \A ph : GrossIn(ph)' = GrossIn(ph)
    BY <1>2, PhaseFrame DEF GrossIn
  <2> QED
    BY <1>2, <2>1 DEF FundsAddUp
<1>3. ASSUME NEW r \in Requests, CreateRequest(r) PROVE FundsAddUp'
  <2>1. /\ acct' = Ledger!Inserted(acct, ReserveRef(r), Ledger!Reserve(Gross, r))
        /\ Gross <= acct.available
    BY <1>3 DEF CreateRequest, Ledger!Answer, Ledger!Covered, Ledger!Reserve
  <2>2. Phase(r) = "none" /\ \A q \in Requests : Phase(q)' = IF q = r THEN "held" ELSE Phase(q)
    BY <1>3, PromiseHold DEF Promise!Hold
  <2>3. GrossIn("held")' = GrossIn("held") + Gross /\ GrossIn("settled")' = GrossIn("settled")
    BY <2>2, GrossMovesOnce
  <2>4. acct'.available = acct.available - Gross /\ acct'.paid = acct.paid
    BY <1>1, <2>1, InsertedFunds
  <2> QED
    BY <1>1, <2>1, <2>3, <2>4 DEF FundsAddUp
<1>4. ASSUME NEW x \in Executions, NEW a \in BOOLEAN, Settle(x, a), acct' # acct PROVE FundsAddUp'
  <2> DEFINE r == exec[x].req
  <2>1. /\ r \in Requests /\ Phase(r) = "held"
        /\ acct' = Ledger!Inserted(acct, SettleRef(r), Ledger!Settle(Gross, r))
        /\ \A q \in Requests : Phase(q)' = IF q = r THEN "settled" ELSE Phase(q)
    BY <1>4, SettlePhase
  <2> HIDE DEF r
  <2>2. GrossIn("settled")' = GrossIn("settled") + Gross /\ GrossIn("held")' = GrossIn("held") - Gross
    BY <2>1, GrossMovesOnce
  <2>3. acct'.available = acct.available /\ acct'.paid = acct.paid + Gross
    BY <1>1, <2>1, InsertedFunds
  <2> QED
    BY <1>1, <2>2, <2>3 DEF FundsAddUp
<1>5. ASSUME NEW x \in Executions, NEW a \in BOOLEAN, Release(x, a), acct' # acct PROVE FundsAddUp'
  <2> DEFINE r == exec[x].req
  <2>1. /\ r \in Requests /\ Phase(r) = "held"
        /\ acct' = Ledger!Inserted(acct, ReleaseRef(r), Ledger!Release(Gross, r))
        /\ \A q \in Requests : Phase(q)' = IF q = r THEN "released" ELSE Phase(q)
    BY <1>5, ReleasePhase
  <2> HIDE DEF r
  <2>2. GrossIn("settled")' = GrossIn("settled") /\ GrossIn("held")' = GrossIn("held") - Gross
    BY <2>1, GrossMovesOnce
  <2>3. acct'.available = acct.available + Gross /\ acct'.paid = acct.paid
    BY <1>1, <2>1, InsertedFunds
  <2> QED
    BY <1>1, <2>2, <2>3 DEF FundsAddUp
<1>6. ASSUME CancelUnstarted PROVE FundsAddUp'
  <2>1. PICK S \in SUBSET Requests : S = Unstarted
    BY DEF Unstarted
  <2>2. /\ \A r \in S : Phase(r) = "held"
        /\ \A q \in Requests : Phase(q)' = IF q \in S THEN "released" ELSE Phase(q)
    BY <1>6, <2>1, PromiseCancel DEF Promise!Release
  <2>3. /\ acct'.available = acct.available + Cardinality(S) * Gross
        /\ acct'.paid = acct.paid
    BY <1>6, <2>1 DEF CancelUnstarted, ReleasedAll
  <2>4. /\ Cardinality(S) \in Nat
        /\ GrossIn("held")' = GrossIn("held") - Cardinality(S) * Gross
        /\ GrossIn("settled")' = GrossIn("settled")
    BY <2>2, GrossReleased
  <2>5. Cardinality(S) * Gross \in Nat
    BY <2>4, AmountAssumption DEF Ledger!Positive
  <2> QED
    BY <1>1, <2>3, <2>4, <2>5 DEF FundsAddUp
<1> QED
  BY <1>2, <1>3, <1>4, <1>5, <1>6
  DEF Next, vars, User, Step, Fault, Time, Others, Pi, MarkUncertain, Begin, Find, Heartbeat, Create,
      Bind, BindRefused, Read, Submit, PiRefuses, Complete, Receipt, SettleAgain, ReleaseAgain,
      End, Fail, Crash, LapseLane, LapseRequest, ForeignBegin, ForeignEnd, ForeignCreate,
      ForeignFinish, PiVerify, PiCancel, PiForget

(***************************************************************************)
(* For any number of requests: what the user earned is available, held for *)
(* a request or paid out for one, and never more was reserved than was     *)
(* there.                                                                  *)
(***************************************************************************)
THEOREM PayoutFundsAddUp == Spec => []FundsAddUp
BY FundsInit, FundsKept, PayoutInvariant, PTL DEF Spec

--------------------------------------------------------------------------------
(***************************************************************************)
(* What the leases are worth: unless a lease ran out while its holder was  *)
(* inside a call, the app wallet has one user at a time and no request is  *)
(* transferred twice.                                                      *)
(***************************************************************************)

(* The lease of a request is live only under the lane's, of the same holder. *)
Nested ==
  \A r \in Requests :
    req[r].live => /\ req[r].token \in Executions
                   /\ lane = [holder |-> req[r].token, req |-> r, live |-> TRUE]

(* An execution inside a call that moves money holds both leases. *)
Covered ==
  \A x \in Executions :
    InCall(x) => req[exec[x].req].live /\ req[exec[x].req].token = x

(* Whoever is about to submit, and still owns the request, is the first to. *)
FirstToSubmit ==
  \A x \in Executions :
    exec[x].pc \in {"renewSubmit", "submit"} /\ req[exec[x].req].token = x =>
      pi[exec[x].pay].sent = 0

AtMostOnce == \A p \in Payments : pi[p].sent =< 1

Leases == Nested /\ (~ overran => Covered /\ FirstToSubmit /\ AtMostOnce)

RInv == Inv /\ Leases

Remembers == overran' = (overran \/ OverrunStep)

--------------------------------------------------------------------------------
(* What is said of the leases while none was overrun. *)
LEMMA NotOverrun ==
  ASSUME RInv, Remembers, ~ overran'
  PROVE  /\ ~ OverrunStep
         /\ Covered /\ FirstToSubmit /\ AtMostOnce
BY Zenon DEF RInv, Leases, Remembers

(***************************************************************************)
(* An execution moves to its next step: into a call only holding the       *)
(* leases, and towards submit only having read that nothing was sent.      *)
(***************************************************************************)
LEMMA GotoLeases ==
  ASSUME RInv, Remembers, NEW x \in Executions, NEW pc \in Steps \cup Ends, Goto(x, pc),
         UNCHANGED <<req, lane, pi>>,
         pc \in {"create", "submit", "complete", "settle"} => HoldsLeases(x),
         pc = "submit" => exec[x].pc = "renewSubmit",
         pc = "renewSubmit" => pi[exec[x].pay].sent = 0
  PROVE  Leases'
<1>1. Nested'
  BY DEF RInv, Leases, Nested
<1>2. ASSUME ~ overran' PROVE Covered'
  BY <1>2, NotOverrun DEF RInv, Covered, InCall, Goto, HoldsLeases, Inv, TypeOK, Execution
<1>3. ASSUME ~ overran' PROVE FirstToSubmit' /\ AtMostOnce'
  BY <1>3, NotOverrun DEF RInv, FirstToSubmit, AtMostOnce, Goto, Inv, TypeOK, Execution
<1> QED
  BY <1>1, <1>2, <1>3 DEF Leases

(* Steps that touch neither leases nor executions, and send nothing. *)
LEMMA FrameLeases ==
  ASSUME RInv, Remembers, UNCHANGED exec,
         \A r \in Requests : req'[r].token = req[r].token /\ req'[r].live = req[r].live,
         UNCHANGED lane \/ \A r \in Requests : ~ req[r].live,
         \A p \in Payments : pi'[p].sent = pi[p].sent \/ pi'[p].sent = 0,
         \A x \in Executions : exec[x].pc \in AfterBind => exec[x].pay \in Payments
  PROVE  Leases'
<1>1. Nested'
  BY DEF RInv, Leases, Nested
<1>2. ASSUME ~ overran' PROVE Covered'
  BY <1>2, NotOverrun DEF RInv, Covered, InCall, Inv, TypeOK, Execution, ExecInv
<1>3. ASSUME ~ overran' PROVE FirstToSubmit'
  BY <1>3, NotOverrun DEF RInv, FirstToSubmit, Inv, TypeOK, Execution, ExecInv, AfterBind,
              Steps
<1>4. ASSUME ~ overran' PROVE AtMostOnce'
  BY <1>4, NotOverrun DEF RInv, AtMostOnce
<1> QED
  BY <1>1, <1>2, <1>3, <1>4 DEF Leases

(* The payment of an execution past its binding. *)
LEMMA BoundPay ==
  ASSUME Inv, NEW x \in Executions, exec[x].pc \in AfterBind
  PROVE  /\ exec[x].pay \in Payments /\ exec[x].req \in Requests
         /\ req[exec[x].req].pay = exec[x].pay
         /\ pi[exec[x].pay].for = exec[x].req
BY SetsAssumption DEF Inv, TypeOK, Execution, RequestRow, ExecInv, BindingInv, AfterBind, Steps

--------------------------------------------------------------------------------
LEMMA BeginLeases ==
  ASSUME RInv, Remembers, NEW x \in Executions, NEW r \in Requests, NEW answered \in BOOLEAN,
         Begin(x, r, answered)
  PROVE  Leases'
<1>1. \A q \in Requests : ~ req[q].live
  BY DEF RInv, Leases, Nested, Begin, LaneFree
<1>2. Nested'
  BY <1>1 DEF Begin, Nested, RInv, Inv, TypeOK
<1>3. ASSUME ~ overran' PROVE Covered'
  BY <1>1, <1>3, NotOverrun DEF RInv, Covered, InCall, Begin, Idle, Inv, TypeOK, Execution,
                    ExecInv
<1>4. ASSUME ~ overran' PROVE FirstToSubmit' /\ AtMostOnce'
  BY <1>4, NotOverrun DEF RInv, FirstToSubmit, AtMostOnce, Begin, Idle, Inv, TypeOK,
              Execution, RequestRow, ExecInv
<1> QED
  BY <1>2, <1>3, <1>4 DEF Leases

LEMMA HeartbeatLeases ==
  ASSUME RInv, Remembers, NEW x \in Executions,
         \/ Heartbeat(x, "renewCreate", "create")
         \/ Heartbeat(x, "renewSubmit", "submit")
         \/ Heartbeat(x, "renewComplete", "complete")
         \/ Heartbeat(x, "renewSettle", "settle")
  PROVE  Leases'
<1>1. CASE HoldsLeases(x)
  BY <1>1, GotoLeases DEF Heartbeat, Steps
<1>2. CASE ~ HoldsLeases(x)
  BY <1>2, GotoLeases DEF Heartbeat, Ends
<1> QED
  BY <1>1, <1>2

(* Finding and reading a payment, and the ends an execution comes to by itself. *)
LEMMA ReadLeases ==
  ASSUME RInv, Remembers, NEW x \in Executions, Read(x) \/ Receipt(x) \/ PiRefuses(x)
                                                \/ BindRefused(x) \/ Fail(x)
                                                \/ SettleAgain(x) \/ ReleaseAgain(x)
  PROVE  Leases'
<1>1. PICK pc \in (Steps \cup Ends) \ {"create", "submit", "complete", "settle"} :
        /\ Goto(x, pc) /\ UNCHANGED <<req, lane, pi>>
        /\ pc = "renewSubmit" => pi[exec[x].pay].sent = 0
  BY DEF Read, Receipt, PiRefuses, BindRefused, Fail, SettleAgain, ReleaseAgain, Steps, Ends
<1> QED
  BY <1>1, GotoLeases

(* Steps that give an execution a payment, or send it home. *)
LEMMA FindLeases ==
  ASSUME RInv, Remembers, NEW x \in Executions, NEW answered \in BOOLEAN,
         Find(x) \/ Create(x, answered) \/ Crash(x)
  PROVE  Leases'
<1>1. /\ UNCHANGED <<req, lane>>
      /\ \A p \in Payments : pi'[p].sent = pi[p].sent \/ pi'[p].sent = 0
      /\ \A y \in Executions \ {x} : exec'[y] = exec[y]
      /\ exec'[x].pc \notin {"create", "submit", "complete", "settle", "renewSubmit"}
  <2>1. CASE Find(x)
    BY <2>1 DEF Find, Goto, RInv, Inv, TypeOK, Execution
  <2>2. CASE Create(x, answered)
    <3>1. PICK p \in Payments :
            /\ pi' = [pi EXCEPT ![p] = [Unused EXCEPT !.for = exec[x].req, !.state = "open"]]
            /\ exec' = IF answered
                         THEN [exec EXCEPT ![x].pay = p, ![x].pc = "bind"]
                         ELSE [exec EXCEPT ![x].pc = "endUncertain"]
            /\ UNCHANGED <<acct, req, lane>>
      BY <2>2 DEF Create
    <3>2. \A q \in Payments : pi'[q].sent = pi[q].sent \/ pi'[q].sent = 0
      BY <3>1 DEF Unused, RInv, Inv, TypeOK
    <3>3. /\ \A y \in Executions \ {x} : exec'[y] = exec[y]
          /\ exec'[x].pc \in {"bind", "endUncertain"}
      BY <3>1 DEF RInv, Inv, TypeOK, Execution
    <3> QED
      BY <3>1, <3>2, <3>3
  <2>3. CASE Crash(x)
    BY <2>3 DEF Crash, Idle, RInv, Inv, TypeOK, Execution
  <2> QED
    BY <2>1, <2>2, <2>3
<1>2. Nested'
  BY <1>1 DEF RInv, Leases, Nested
<1>3. ASSUME ~ overran' PROVE Covered'
  BY <1>1, <1>3, NotOverrun DEF RInv, Covered, InCall
<1>4. ASSUME ~ overran' PROVE FirstToSubmit' /\ AtMostOnce'
  <2>1. AtMostOnce'
    BY <1>1, <1>4, NotOverrun DEF RInv, AtMostOnce
  <2>2. FirstToSubmit'
    BY <1>1, <1>4, BoundPay, NotOverrun DEF RInv, FirstToSubmit, AfterBind, Steps
  <2> QED
    BY <2>1, <2>2
<1> QED
  BY <1>2, <1>3, <1>4 DEF Leases

(* Binding, settling and releasing change no lease and lead to no submit. *)
LEMMA WriteLeases ==
  ASSUME RInv, Remembers, NEW x \in Executions, NEW answered \in BOOLEAN,
         Bind(x, answered) \/ Settle(x, answered) \/ Release(x, answered)
  PROVE  Leases'
<1>1. /\ UNCHANGED <<lane, pi>>
      /\ \A r \in Requests : req'[r].token = req[r].token /\ req'[r].live = req[r].live
      /\ \A y \in Executions \ {x} : exec'[y] = exec[y]
      /\ exec'[x].pc \in {"read", "endCertain", "endUncertain"}
  BY DEF Bind, Settle, Release, Answer, Goto, RInv, Inv, TypeOK, RequestRow, Execution
<1>2. Nested'
  BY <1>1 DEF RInv, Leases, Nested
<1>3. ASSUME ~ overran' PROVE Covered'
  BY <1>1, <1>3, NotOverrun DEF RInv, Covered, InCall, Inv, ExecInv
<1>4. ASSUME ~ overran' PROVE FirstToSubmit' /\ AtMostOnce'
  BY <1>1, <1>4, NotOverrun DEF RInv, FirstToSubmit, AtMostOnce, Inv, ExecInv
<1> QED
  BY <1>2, <1>3, <1>4 DEF Leases

(***************************************************************************)
(* The transfer.  Inside submit the execution owns the request, so nothing *)
(* was sent before, and any other execution about to submit for the same   *)
(* request is no longer its owner.                                         *)
(***************************************************************************)
LEMMA SubmitLeases ==
  ASSUME RInv, Remembers, NEW x \in Executions, NEW answered \in BOOLEAN, Submit(x, answered)
  PROVE  Leases'
<1> DEFINE p == exec[x].pay
<1>1. /\ p \in Payments /\ pi[p].for = exec[x].req /\ exec[x].req \in Requests
  BY BoundPay DEF Submit, AfterBind, Steps, RInv
<1>2. /\ UNCHANGED <<req, lane>>
      /\ pi'[p].sent = pi[p].sent + 1
      /\ \A q \in Payments \ {p} : pi'[q] = pi[q]
      /\ \A y \in Executions \ {x} : exec'[y] = exec[y]
      /\ exec'[x].pc \in {"renewComplete", "endUncertain"}
  BY <1>1 DEF Submit, Answer, Goto, RInv, Inv, TypeOK, Payment, Execution
<1>3. Nested'
  BY <1>2 DEF RInv, Leases, Nested
<1>4. ASSUME ~ overran' PROVE Covered'
  BY <1>2, <1>4, NotOverrun DEF RInv, Covered, InCall
<1>5. ASSUME ~ overran' PROVE pi[p].sent = 0 /\ req[exec[x].req].token = x
  BY <1>5, NotOverrun DEF RInv, Covered, FirstToSubmit, InCall, Submit
<1>6. ASSUME ~ overran' PROVE AtMostOnce'
  BY <1>2, <1>5, <1>6, NotOverrun DEF RInv, AtMostOnce
<1>7. ASSUME ~ overran' PROVE FirstToSubmit'
  <2> SUFFICES ASSUME NEW y \in Executions, exec'[y].pc \in {"renewSubmit", "submit"},
                      req'[exec'[y].req].token = y
               PROVE  pi'[exec'[y].pay].sent = 0
    BY DEF FirstToSubmit
  <2>1. y # x /\ exec'[y] = exec[y]
    BY <1>2
  <2>2. exec[y].pay \in Payments /\ pi[exec[y].pay].for = exec[y].req
    BY <2>1, BoundPay DEF AfterBind, Steps, RInv
  <2>3. exec[y].pay # p
    BY <1>1, <1>2, <1>5, <1>7, <2>1, <2>2
  <2>4. pi[exec[y].pay].sent = 0
    BY <1>2, <1>7, <2>1, NotOverrun DEF RInv, FirstToSubmit
  <2> QED
    BY <1>2, <2>1, <2>2, <2>3, <2>4
<1> QED
  BY <1>3, <1>4, <1>6, <1>7 DEF Leases

LEMMA CompleteLeases ==
  ASSUME RInv, Remembers, NEW x \in Executions, NEW answered \in BOOLEAN, Complete(x, answered)
  PROVE  Leases'
<1>1. exec[x].pay \in Payments
  BY BoundPay DEF Complete, AfterBind, Steps, RInv
<1>2. /\ UNCHANGED <<req, lane>>
      /\ \A q \in Payments : pi'[q].sent = pi[q].sent
      /\ \A y \in Executions \ {x} : exec'[y] = exec[y]
      /\ exec'[x].pc \in {"receipt", "endUncertain"}
  BY <1>1 DEF Complete, Answer, Goto, RInv, Inv, TypeOK, Payment, Execution
<1>3. Nested'
  BY <1>2 DEF RInv, Leases, Nested
<1>4. ASSUME ~ overran' PROVE Covered'
  BY <1>2, <1>4, NotOverrun DEF RInv, Covered, InCall
<1>5. ASSUME ~ overran' PROVE AtMostOnce'
  BY <1>2, <1>5, NotOverrun DEF RInv, AtMostOnce
<1>6. ASSUME ~ overran' PROVE FirstToSubmit'
  BY <1>2, <1>6, BoundPay, NotOverrun DEF RInv, FirstToSubmit, AfterBind, Steps
<1> QED
  BY <1>3, <1>4, <1>5, <1>6 DEF Leases

(* The finally block gives both leases back only if both are still the execution's. *)
LEMMA EndLeases ==
  ASSUME RInv, Remembers, NEW x \in Executions, End(x)
  PROVE  Leases'
<1> DEFINE r    == exec[x].req
           mine == lane.holder = x /\ lane.req = r /\ req[r].token = x
<1>1. r \in Requests
  BY DEF End, Ends, RInv, Inv, ExecInv
<1>2. /\ UNCHANGED pi
      /\ exec[x].pc \in Ends
      /\ exec'[x].pc = "idle"
      /\ \A y \in Executions \ {x} : exec'[y] = exec[y]
  BY DEF End, Idle, RInv, Inv, TypeOK
<1>3. CASE ~ mine
  <2>1. UNCHANGED <<req, lane>>
    BY <1>3 DEF End
  <2>2. Nested'
    BY <2>1 DEF RInv, Leases, Nested
  <2>3. ASSUME ~ overran' PROVE Covered' /\ FirstToSubmit' /\ AtMostOnce'
    BY <1>2, <2>1, <2>3, NotOverrun DEF RInv, Covered, InCall, FirstToSubmit, AtMostOnce
  <2> QED
    BY <2>2, <2>3 DEF Leases
<1>4. CASE mine
  <2>1. /\ req'[r].token = None /\ ~ req'[r].live
        /\ \A q \in Requests \ {r} : req'[q] = req[q]
    BY <1>1, <1>4 DEF End, RInv, Inv, TypeOK, RequestRow
  <2>2. \A q \in Requests \ {r} : ~ req[q].live
    BY <1>4 DEF RInv, Leases, Nested
  <2>3. Nested'
    BY <2>1, <2>2 DEF Nested
  <2>4. ASSUME ~ overran' PROVE Covered'
    <3> SUFFICES ASSUME NEW y \in Executions, InCall(y)'
                 PROVE  req'[exec'[y].req].live /\ req'[exec'[y].req].token = y
      BY DEF Covered
    <3>1. y # x /\ exec'[y] = exec[y] /\ InCall(y)
      BY <1>2 DEF InCall
    <3>2. req[exec[y].req].live /\ req[exec[y].req].token = y
      BY <2>4, <3>1, NotOverrun DEF RInv, Covered
    <3>3. exec[y].req \in Requests
      BY <3>1 DEF InCall, RInv, Inv, ExecInv
    <3> QED
      BY <1>4, <2>2, <3>1, <3>2, <3>3
  <2>5. ASSUME ~ overran' PROVE FirstToSubmit' /\ AtMostOnce'
    BY <1>2, <2>1, <2>5, SetsAssumption
   , NotOverrun DEF RInv, FirstToSubmit, AtMostOnce, Inv, ExecInv
  <2> QED
    BY <2>3, <2>4, <2>5 DEF Leases
<1> QED
  BY <1>3, <1>4

--------------------------------------------------------------------------------
(* The leases run out: the request's first, and if under a call then it is remembered. *)
LEMMA LapseLeases ==
  ASSUME RInv, Remembers, LapseLane \/ \E r \in Requests : LapseRequest(r)
  PROVE  Leases'
<1>1. CASE LapseLane
  <2>1. \A r \in Requests : ~ req[r].live
    BY <1>1, SetsAssumption DEF LapseLane, RInv, Leases, Nested
  <2> QED
    BY <1>1, <2>1, FrameLeases, BoundPay DEF LapseLane, RInv
<1>2. ASSUME NEW r \in Requests, LapseRequest(r) PROVE Leases'
  <2>1. /\ UNCHANGED <<lane, exec, pi>>
        /\ req[r].live /\ ~ req'[r].live /\ req'[r].token = req[r].token
        /\ \A q \in Requests \ {r} : req'[q] = req[q]
    BY <1>2 DEF LapseRequest, RInv, Inv, TypeOK, RequestRow
  <2>2. Nested'
    BY <2>1 DEF RInv, Leases, Nested
  <2>3. ASSUME ~ overran' PROVE Covered'
    <3>1. ~ overran /\ ~ InCall(req[r].token)
      BY <2>1, <2>3 DEF Remembers, OverrunStep
    <3> QED
      BY <2>1, <3>1 DEF RInv, Leases, Covered, InCall, Inv, ExecInv
  <2>4. ASSUME ~ overran' PROVE FirstToSubmit' /\ AtMostOnce'
    BY <2>1, <2>4, NotOverrun DEF RInv, FirstToSubmit, AtMostOnce, Inv, ExecInv
  <2> QED
    BY <2>2, <2>3, <2>4 DEF Leases
<1> QED
  BY <1>1, <1>2

(* The user, the operator, the other domains and Pi. *)
LEMMA OutsideLeases ==
  ASSUME RInv, Remembers, User \/ Others \/ Pi
  PROVE  Leases'
<1>1. \A x \in Executions : exec[x].pc \in AfterBind => exec[x].pay \in Payments
  BY BoundPay DEF RInv
<1>2. CASE User
  <2>1. /\ UNCHANGED <<exec, lane, pi>>
        /\ \A r \in Requests : req'[r].token = req[r].token /\ req'[r].live = req[r].live
    BY <1>2 DEF User, CreateRequest, MarkUncertain, CancelUnstarted, RInv, Inv, TypeOK, RequestRow
  <2> QED
    BY <1>1, <2>1, FrameLeases
<1>3. CASE ForeignBegin \/ ForeignEnd
  <2>1. \A r \in Requests : ~ req[r].live
    BY <1>3, SetsAssumption DEF ForeignBegin, ForeignEnd, LaneFree, RInv, Leases, Nested
  <2>2. UNCHANGED <<exec, req, pi>>
    BY <1>3 DEF ForeignBegin, ForeignEnd
  <2> QED
    BY <1>1, <2>1, <2>2, FrameLeases
<1>4. CASE ForeignCreate \/ (\E p \in Payments : ForeignFinish(p)) \/ Pi
  <2>1. UNCHANGED <<exec, req, lane>>
    BY <1>4 DEF ForeignCreate, ForeignFinish, Pi, PiVerify, PiCancel, PiForget
  <2>2. CASE ForeignCreate \/ \E q \in Payments : ForeignFinish(q) \/ PiForget(q)
    <3>1. \A p \in Payments : pi'[p].sent = pi[p].sent \/ pi'[p].sent = 0
      <4> DEFINE opened == [Unused EXCEPT !.for = Foreign, !.state = "open"]
      <4>1. PICK q \in Payments, new \in {Unused, opened} : pi' = [pi EXCEPT ![q] = new]
        <5>1. CASE ForeignCreate
          <6>1. \E q \in Payments : pi' = [pi EXCEPT ![q] = opened]
            BY <5>1 DEF ForeignCreate
          <6> QED
            BY <6>1
        <5>2. CASE \E q \in Payments : ForeignFinish(q) \/ PiForget(q)
          <6>1. \E q \in Payments : pi' = [pi EXCEPT ![q] = Unused]
            BY <5>2 DEF ForeignFinish, PiForget
          <6> QED
            BY <6>1
        <5> QED
          BY <2>2, <5>1, <5>2
      <4>2. Unused.sent = 0 /\ opened.sent = 0
        BY DEF Unused
      <4>3. new.sent = 0
        BY <4>2
      <4> QED
        BY <4>1, <4>3 DEF RInv, Inv, TypeOK
    <3> QED
      BY <1>1, <2>1, <3>1, FrameLeases
  <2>3. CASE \E q \in Payments : PiVerify(q) \/ PiCancel(q)
    <3>1. \A p \in Payments : pi'[p].sent = pi[p].sent
      BY <2>3 DEF PiVerify, PiCancel, RInv, Inv, TypeOK, Payment
    <3> QED
      BY <1>1, <2>1, <3>1, FrameLeases
  <2> QED
    BY <1>4, <2>2, <2>3 DEF Pi
<1> QED
  BY <1>2, <1>3, <1>4 DEF Others

LEMMA LeasesInit == RecoveryInit => RInv
<1> SUFFICES ASSUME RecoveryInit PROVE Leases
  BY InitInv DEF RInv, RecoveryInit
<1> QED
  BY DEF RecoveryInit, Init, Leases, Nested, Covered, FirstToSubmit, AtMostOnce, InCall, Idle, Unused

(* The actions of RecoveryNext, one by one. *)
LEMMA LeasesNext == RInv /\ [RecoveryNext]_<<vars, overran>> => RInv'
<1>1. ASSUME RInv, UNCHANGED <<vars, overran>> PROVE RInv'
  <2>1. Inv'
    BY <1>1, StutterInv DEF RInv
  <2>2. Leases'
    BY <1>1 DEF RInv, Leases, Nested, Covered, FirstToSubmit, AtMostOnce, InCall, vars
  <2> QED
    BY <2>1, <2>2 DEF RInv
<1>2. ASSUME RInv, RecoveryNext PROVE RInv'
  <2>1. Inv' /\ Remembers /\ Next
    BY <1>2, NextInv DEF RInv, RecoveryNext, Remembers
  <2> SUFFICES Leases'
    BY <2>1 DEF RInv
  <2>2. ASSUME NEW x \in Executions, NEW r \in Requests, Begin(x, r, TRUE) PROVE Leases'
    BY <1>2, <2>1, <2>2, BeginLeases
  <2>3. ASSUME NEW x \in Executions, Step(x) PROVE Leases'
    BY <1>2, <2>1, <2>3, HeartbeatLeases, ReadLeases, FindLeases, WriteLeases, SubmitLeases,
       CompleteLeases, EndLeases DEF Step
  <2>4. ASSUME NEW x \in Executions, Fault(x) PROVE Leases'
    BY <1>2, <2>1, <2>4, BeginLeases, ReadLeases, FindLeases, WriteLeases, SubmitLeases,
       CompleteLeases DEF Fault
  <2>5. CASE Time
    BY <1>2, <2>1, <2>5, LapseLeases DEF Time
  <2>6. CASE User \/ Others \/ Pi
    BY <1>2, <2>1, <2>6, OutsideLeases
  <2> QED
    BY <2>1, <2>2, <2>3, <2>4, <2>5, <2>6 DEF Next
<1> QED
  BY <1>1, <1>2

LEMMA LeasesInvariant == RecoverySpec => []RInv
BY LeasesInit, LeasesNext, PTL DEF RecoverySpec

(***************************************************************************)
(* One user of the app wallet at a time, unless a lease was overrun.       *)
(***************************************************************************)
THEOREM WalletHasOneUser == RecoverySpec => []OneWalletUserUnlessOverrun
<1>1. RInv => OneWalletUserUnlessOverrun
  <2> SUFFICES ASSUME RInv, ~ overran PROVE OneWalletUser
    BY DEF OneWalletUserUnlessOverrun
  <2>1. \A x \in Executions : UsesWallet(x) => lane.holder = x /\ lane.live
    BY DEF RInv, Leases, Nested, Covered, InCall, UsesWallet, Inv, ExecInv
  <2> QED
    BY <2>1 DEF OneWalletUser
<1> QED
  BY <1>1, LeasesInvariant, PTL

(***************************************************************************)
(* No request is transferred twice, unless a lease was overrun.            *)
(***************************************************************************)
THEOREM PaidOnceUnlessOverrun == RecoverySpec => []OneTransferUnlessOverrun
<1>1. RInv => OneTransferUnlessOverrun
  BY DEF RInv, Leases, AtMostOnce, Inv, BindingInv, OneTransferUnlessOverrun, OneTransferPerRequest
<1> QED
  BY <1>1, LeasesInvariant, PTL
================================================================================
