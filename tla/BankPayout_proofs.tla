--------------------------- MODULE BankPayout_proofs ---------------------------
(***************************************************************************)
(* For any number of requests, obligations and calls: a seller is not paid *)
(* twice, a request says nothing of its transfer that was never true, and  *)
(* money leaves only for a request that is being processed.                *)
(*                                                                         *)
(* The argument is about live requests: those whose transfer has not come  *)
(* back.  A second request of an obligation is admitted only when it is    *)
(* available and no other is active; the others are then cancelled, or     *)
(* have failed or been reversed - truly so, because only a report of the   *)
(* provider makes them that - or are in dispute, and then the obligation   *)
(* is, for ever.                                                           *)
(***************************************************************************)
EXTENDS BankPayout, FiniteSetTheorems, TLAPS

(* The statuses of a request that was begun, which it never leaves. *)
Underway == Followed \cup {"disputed"}

Statuses == Active \cup InFlight \cup Followed \cup {"cancelled"}
Rows     == [status : Statuses, obl : Obligations, ben : Beneficiaries]
Calls    == [at : {"begun", "answered", "read", "polled"}, req : Requests,
             got : {"none", "pending"} \cup Reports]
ObligationStatuses == {"none", "available", "reserved", "paid", "reversed", "disputed"}

Live(r) ==
  req[r].status \notin {"none", "cancelled"} /\ transfer[r] \notin {"failed", "reversed"}

OneLive ==
  \A r, q \in Requests : r # q /\ req[r].obl = req[q].obl => ~ (Live(r) /\ Live(q))

DisputeIsShared ==
  \A r \in Requests :
    req[r].status = "disputed" => obligation[req[r].obl] = "disputed"

TransfersHaveRows ==
  \A r \in Requests :
    /\ transfer[r] # "none" => req[r].status \in Underway
    /\ req[r].status = "pending" => transfer[r] # "none"

CallsAreTrue ==
  \A s \in Sessions :
    /\ sess[s] # Idle => req[sess[s].req].status \in Underway
    /\ sess[s].at = "answered" => transfer[sess[s].req] # "none"
    /\ sess[s].at = "polled" => sess[s].got \in Reported(transfer[sess[s].req])

PayeeIsVerified ==
  \A r \in Requests :
    transfer[r] = "none" /\ req[r].status \in InFlight
      => beneficiary[req[r].ben] = "verified"

IInv ==
  /\ TypeOK /\ StatusHasBeenTrue /\ DisputeIsShared /\ TransfersHaveRows
  /\ CallsAreTrue /\ OneLive /\ PayeeIsVerified

--------------------------------------------------------------------------------
LEMMA RowType ==
  ASSUME TypeOK, NEW r \in Requests
  PROVE  /\ req[r] \in {NoRow} \cup Rows
         /\ req[r].status # "none" => req[r] \in Rows
         /\ req[r].status \in Statuses \cup {"none"}
  BY DEF TypeOK, Rows, Statuses, NoRow

LEMMA CallType ==
  ASSUME TypeOK, NEW s \in Sessions
  PROVE  /\ sess[s] \in {Idle} \cup Calls
         /\ sess[s].at # "idle" => sess[s] \in Calls
         /\ sess[s] # Idle => sess[s] \in Calls
  BY DEF TypeOK, Calls, Idle

(* One call changes, to x, and it says nothing that is not true. *)
LEMMA OneCallMoves ==
  ASSUME IInv, NEW s \in Sessions, NEW x \in {Idle} \cup Calls,
         sess' = [sess EXCEPT ![s] = x],
         x # Idle => req[x.req].status \in Underway,
         x.at = "answered" => transfer[x.req] # "none",
         x.at = "polled" => x.got \in Reported(transfer[x.req]),
         UNCHANGED <<obligation, beneficiary, req, hooks, total, begun, transfer>>
  PROVE  IInv'
<1>1. \A c \in Sessions : sess'[c] = IF c = s THEN x ELSE sess[c]
  BY DEF IInv, TypeOK
<1>2. TypeOK'
  BY <1>1 DEF IInv, TypeOK, Calls
<1>3. CallsAreTrue'
  BY <1>1 DEF IInv, CallsAreTrue
<1>4. StatusHasBeenTrue' /\ DisputeIsShared' /\ TransfersHaveRows' /\ OneLive' /\ PayeeIsVerified'
  BY DEF IInv, StatusHasBeenTrue, DisputeIsShared, TransfersHaveRows, OneLive, Live,
         PayeeIsVerified
<1> QED  BY <1>2, <1>3, <1>4 DEF IInv

LEMMA InitIInv == Init => IInv
<1> SUFFICES ASSUME Init PROVE IInv
  OBVIOUS
<1>1. TypeOK
  BY DEF Init, TypeOK, NoRow, Idle, Reports
<1>2. \A r \in Requests : req[r].status = "none" /\ transfer[r] = "none"
  BY DEF Init, NoRow
<1>3. \A s \in Sessions : sess[s] = Idle /\ sess[s].at = "idle"
  BY DEF Init, Idle
<1>4. StatusHasBeenTrue /\ DisputeIsShared /\ TransfersHaveRows /\ OneLive /\ PayeeIsVerified
  BY <1>2 DEF StatusHasBeenTrue, DisputeIsShared, TransfersHaveRows, OneLive, Live,
              PayeeIsVerified, InFlight
<1>5. CallsAreTrue
  BY <1>3 DEF CallsAreTrue
<1> QED  BY <1>1, <1>4, <1>5 DEF IInv

--------------------------------------------------------------------------------
LEMMA RecordObligationKeeps ==
  ASSUME IInv, NEW o \in Obligations, RecordObligation(o) PROVE IInv'
<1>1. TypeOK'
  BY DEF RecordObligation, IInv, TypeOK
<1>2. DisputeIsShared'
  BY RowType DEF RecordObligation, IInv, DisputeIsShared, TypeOK, Rows
<1>3. StatusHasBeenTrue' /\ TransfersHaveRows' /\ CallsAreTrue' /\ OneLive' /\ PayeeIsVerified'
  BY DEF RecordObligation, IInv, StatusHasBeenTrue, TransfersHaveRows, CallsAreTrue,
         OneLive, Live, PayeeIsVerified
<1> QED  BY <1>1, <1>2, <1>3 DEF IInv

LEMMA BeneficiaryKeeps ==
  ASSUME IInv, NEW b \in Beneficiaries, Register(b) \/ Disable(b) PROVE IInv'
<1>1. TypeOK'
  BY DEF Register, Disable, IInv, TypeOK
<1>2. PayeeIsVerified'
  <2> SUFFICES ASSUME NEW r \in Requests, transfer[r] = "none", req[r].status \in InFlight
               PROVE  beneficiary'[req[r].ben] = "verified"
    BY DEF PayeeIsVerified, Register, Disable
  <2>1. beneficiary[req[r].ben] = "verified"
    BY DEF IInv, PayeeIsVerified
  <2>2. req[r].ben \in Beneficiaries
    BY RowType DEF IInv, InFlight, Rows
  <2>3. CASE Register(b)
    BY <2>1, <2>2, <2>3 DEF Register, IInv, TypeOK
  <2>4. CASE Disable(b)
    BY <2>1, <2>2, <2>4 DEF Disable, IInv, TypeOK
  <2> QED  BY <2>3, <2>4
<1>3. StatusHasBeenTrue' /\ DisputeIsShared' /\ TransfersHaveRows' /\ CallsAreTrue' /\ OneLive'
  BY DEF Register, Disable, IInv, StatusHasBeenTrue, DisputeIsShared, TransfersHaveRows,
         CallsAreTrue, OneLive, Live
<1> QED  BY <1>1, <1>2, <1>3 DEF IInv

(* The second request of an obligation finds no other that is live. *)
LEMMA RequestFindsOthersOver ==
  ASSUME IInv, NEW r \in Requests, NEW o \in Obligations, NEW b \in Beneficiaries,
         Request(r, o, b), NEW q \in Requests, req[q].obl = o
  PROVE  ~ Live(q)
<1> SUFFICES ASSUME Live(q) PROVE FALSE
  OBVIOUS
<1>1. obligation[o] = "available" /\ req[q].status \notin Active
  BY DEF Request
<1>2. req[q].status \in {"failed", "reversed", "disputed"}
  BY <1>1, RowType DEF IInv, Live, Statuses, Active, InFlight, Followed
<1>3. req[q].status # "disputed"
  BY <1>1 DEF IInv, DisputeIsShared
<1>4. transfer[q] \in {"failed", "reversed"}
  BY <1>2, <1>3 DEF IInv, StatusHasBeenTrue
<1> QED  BY <1>4 DEF Live

LEMMA RequestKeeps ==
  ASSUME IInv, NEW r \in Requests, NEW o \in Obligations, NEW b \in Beneficiaries,
         Request(r, o, b)
  PROVE  IInv'
<1> DEFINE x == [status |-> "requested", obl |-> o, ben |-> b]
<1>1. /\ req[r].status = "none" /\ obligation[o] = "available" /\ beneficiary[b] = "verified"
      /\ \A q \in Requests : req[q].obl = o => req[q].status \notin Active
      /\ UNCHANGED <<beneficiary, hooks, total, begun, transfer, sess>>
  BY DEF Request
<1>2. \A q \in Requests : req'[q] = IF q = r THEN x ELSE req[q]
  BY DEF Request, IInv, TypeOK
<1>3. \A p \in Obligations : obligation'[p] = IF p = o THEN "reserved" ELSE obligation[p]
  BY DEF Request, IInv, TypeOK
<1>4. transfer[r] = "none"
  BY <1>1 DEF IInv, TransfersHaveRows, Underway, Followed
<1>5. x.status = "requested" /\ x.obl = o /\ x.ben = b /\ x \in Rows
  BY DEF Rows, Statuses, Active
<1> HIDE DEF x
<1>6. TypeOK'
  <2>1. \A q \in Requests : req'[q] \in {NoRow} \cup Rows
    BY <1>2, <1>5, RowType DEF IInv
  <2>2. DOMAIN req' = Requests /\ obligation' \in [Obligations -> ObligationStatuses]
    BY DEF Request, IInv, TypeOK, ObligationStatuses
  <2> QED
    BY <1>1, <2>1, <2>2 DEF IInv, TypeOK, Rows, Statuses, ObligationStatuses
<1>7. StatusHasBeenTrue'
  BY <1>1, <1>2, <1>5 DEF IInv, StatusHasBeenTrue
<1>8. DisputeIsShared'
  <2> SUFFICES ASSUME NEW q \in Requests, req'[q].status = "disputed"
               PROVE  obligation'[req'[q].obl] = "disputed"
    BY DEF DisputeIsShared
  <2>1. q # r /\ req'[q] = req[q] /\ obligation[req[q].obl] = "disputed"
    BY <1>2, <1>5 DEF IInv, DisputeIsShared
  <2>2. req[q].obl \in Obligations
    BY <2>1, RowType DEF IInv, Rows
  <2> QED  BY <1>1, <1>3, <2>1, <2>2
<1>9. TransfersHaveRows'
  BY <1>1, <1>2, <1>4, <1>5 DEF IInv, TransfersHaveRows
<1>10. CallsAreTrue'
  <2> SUFFICES ASSUME NEW s \in Sessions, sess[s] # Idle
               PROVE  req'[sess[s].req] = req[sess[s].req]
    BY <1>1 DEF CallsAreTrue, IInv
  <2>1. sess[s].req \in Requests /\ req[sess[s].req].status \in Underway
    BY CallType DEF IInv, CallsAreTrue, Calls
  <2>2. sess[s].req # r
    BY <1>1, <2>1 DEF Underway, Followed
  <2> QED  BY <1>2, <2>1, <2>2
<1>11. OneLive'
  <2>1. \A q \in Requests \ {r} : req[q].obl = o => ~ Live(q)
    BY RequestFindsOthersOver
  <2>2. \A q \in Requests \ {r} : Live(q)' => Live(q) /\ req'[q].obl = req[q].obl
    BY <1>1, <1>2 DEF Live
  <2>3. req'[r].obl = o
    BY <1>2, <1>5
  <2> QED  BY <2>1, <2>2, <2>3 DEF IInv, OneLive
<1>12. PayeeIsVerified'
  BY <1>1, <1>2, <1>5 DEF IInv, PayeeIsVerified
<1> QED  BY <1>6, <1>7, <1>8, <1>9, <1>10, <1>11, <1>12 DEF IInv

--------------------------------------------------------------------------------
(***************************************************************************)
(* A row moves to status st, calls stay or end, obligations that are in    *)
(* dispute stay so.                                                        *)
(***************************************************************************)
LEMMA RowMoves ==
  ASSUME IInv, NEW r \in Requests, NEW st \in Statuses, Move(r, st),
         req[r].status \notin {"none", "cancelled"},
         st # "disputed",
         st = "paid"     => transfer[r] \in {"success", "reversed"},
         st = "failed"   => transfer[r] = "failed",
         st = "reversed" => transfer[r] = "reversed",
         st = "pending"  => transfer[r] # "none",
         req[r].status \in Underway => st \in Underway,
         transfer[r] = "none" /\ st \in InFlight => beneficiary[req[r].ben] = "verified",
         obligation' \in [Obligations -> ObligationStatuses],
         \A o \in Obligations : obligation[o] = "disputed" => obligation'[o] = "disputed",
         total' \in Int, begun' \subseteq Requests,
         hooks' \in [Requests -> SUBSET Reports],
         DOMAIN sess' = Sessions,
         \A s \in Sessions :
           \/ sess'[s] = sess[s]
           \/ sess'[s] = Idle
           \/ /\ sess'[s] \in Calls /\ sess'[s].req = r /\ sess'[s].at \in {"begun"}
              /\ st \in Underway,
         UNCHANGED <<beneficiary, transfer>>
  PROVE  IInv'
<1>1. \A q \in Requests :
        req'[q] = IF q = r THEN [req[q] EXCEPT !.status = st] ELSE req[q]
  BY DEF Move, IInv, TypeOK
<1>2. req[r] \in Rows
  BY RowType DEF IInv
<1>3. /\ req'[r] \in Rows /\ req'[r].status = st
      /\ req'[r].obl = req[r].obl /\ req'[r].ben = req[r].ben
  BY <1>1, <1>2 DEF Rows
<1>4. TypeOK'
  <2>1. \A q \in Requests : req'[q] \in {NoRow} \cup Rows
    BY <1>1, <1>3, RowType DEF IInv
  <2>2. DOMAIN req' = Requests
    BY DEF Move, IInv, TypeOK
  <2>3. \A s \in Sessions : sess'[s] \in {Idle} \cup Calls
    BY CallType DEF IInv
  <2> QED
    BY <2>1, <2>2, <2>3 DEF IInv, TypeOK, Rows, Statuses, Calls, ObligationStatuses
<1>5. StatusHasBeenTrue'
  <2> SUFFICES ASSUME NEW q \in Requests
               PROVE  /\ req'[q].status = "paid"     => transfer[q] \in {"success", "reversed"}
                      /\ req'[q].status = "failed"   => transfer[q] = "failed"
                      /\ req'[q].status = "reversed" => transfer[q] = "reversed"
    BY DEF StatusHasBeenTrue
  <2>1. CASE q = r
    BY <1>3, <2>1
  <2>2. CASE q # r
    <3>1. req'[q] = req[q]
      BY <1>1, <2>2
    <3> QED  BY <3>1 DEF IInv, StatusHasBeenTrue
  <2> QED  BY <2>1, <2>2
<1>6. DisputeIsShared'
  <2> SUFFICES ASSUME NEW q \in Requests, req'[q].status = "disputed"
               PROVE  obligation'[req'[q].obl] = "disputed"
    BY DEF DisputeIsShared
  <2>1. req'[q] = req[q] /\ obligation[req[q].obl] = "disputed"
    BY <1>1, <1>3 DEF IInv, DisputeIsShared
  <2>2. req[q].obl \in Obligations
    BY <2>1, RowType DEF IInv, Rows
  <2> QED  BY <2>1, <2>2
<1>7. TransfersHaveRows'
  BY <1>1, <1>3 DEF IInv, TransfersHaveRows
<1>8. CallsAreTrue'
  <2> SUFFICES ASSUME NEW s \in Sessions, sess'[s] # Idle
               PROVE  /\ req'[sess'[s].req].status \in Underway
                      /\ sess'[s].at = "answered" => transfer[sess'[s].req] # "none"
                      /\ sess'[s].at = "polled" => sess'[s].got \in Reported(transfer[sess'[s].req])
    BY CallType DEF CallsAreTrue, Idle
  <2>1. CASE sess'[s] = sess[s]
    <3>1. sess[s].req \in Requests
      BY <2>1, CallType DEF IInv, Calls
    <3>2. /\ req[sess[s].req].status \in Underway
          /\ sess[s].at = "answered" => transfer[sess[s].req] # "none"
          /\ sess[s].at = "polled" => sess[s].got \in Reported(transfer[sess[s].req])
      BY <2>1 DEF IInv, CallsAreTrue
    <3>3. req'[sess[s].req].status \in Underway
      BY <1>1, <1>3, <3>1, <3>2
    <3> QED  BY <2>1, <3>2, <3>3
  <2>2. CASE /\ sess'[s] \in Calls /\ sess'[s].req = r /\ sess'[s].at \in {"begun"}
             /\ st \in Underway
    BY <1>3, <2>2
  <2> QED  BY <2>1, <2>2
<1>9. OneLive'
  <2>1. \A q \in Requests : Live(q)' => Live(q)
    BY <1>1, <1>3 DEF Live
  <2>2. \A q \in Requests : req'[q].obl = req[q].obl
    BY <1>1, <1>3
  <2> QED  BY <2>1, <2>2 DEF IInv, OneLive
<1>10. PayeeIsVerified'
  <2> SUFFICES ASSUME NEW q \in Requests, transfer[q] = "none", req'[q].status \in InFlight
               PROVE  beneficiary[req'[q].ben] = "verified"
    BY DEF PayeeIsVerified
  <2>1. CASE q = r
    BY <1>3, <2>1
  <2>2. CASE q # r
    <3>1. req'[q] = req[q]
      BY <1>1, <2>2
    <3> QED  BY <3>1 DEF IInv, PayeeIsVerified
  <2> QED  BY <2>1, <2>2
<1> QED  BY <1>4, <1>5, <1>6, <1>7, <1>8, <1>9, <1>10 DEF IInv

LEMMA ReviewKeeps ==
  ASSUME IInv, NEW r \in Requests, Approve(r) \/ Cancel(r) PROVE IInv'
<1>1. req[r].status = "requested"
  BY DEF Approve, Cancel
<1>2. transfer[r] = "none"
  BY <1>1 DEF IInv, TransfersHaveRows, Underway, Followed
<1>3. req[r].obl \in Obligations
  BY <1>1, RowType DEF IInv, Rows
<1>4. CASE Approve(r)
  <2>1. /\ Move(r, "approved") /\ beneficiary[req[r].ben] = "verified"
        /\ UNCHANGED <<obligation, beneficiary, hooks, total, begun, transfer, sess>>
    BY <1>4 DEF Approve
  <2> QED
    BY <1>1, <1>2, <2>1, RowMoves
    DEF IInv, TypeOK, ObligationStatuses, Statuses, Active, Underway, Followed
<1>5. CASE Cancel(r)
  <2>1. /\ Move(r, "cancelled") /\ obligation[req[r].obl] = "reserved"
        /\ obligation' = [obligation EXCEPT ![req[r].obl] = "available"]
        /\ UNCHANGED <<beneficiary, hooks, total, begun, transfer, sess>>
    BY <1>5 DEF Cancel
  <2>2. obligation' \in [Obligations -> ObligationStatuses]
    BY <2>1 DEF IInv, TypeOK, ObligationStatuses
  <2>3. \A o \in Obligations : obligation[o] = "disputed" => obligation'[o] = "disputed"
    BY <2>1, <1>3 DEF IInv, TypeOK
  <2> QED
    BY <1>1, <1>2, <2>1, <2>2, <2>3, RowMoves
    DEF IInv, TypeOK, Statuses, Underway, Followed, InFlight
<1> QED  BY <1>4, <1>5

LEMMA BeginKeeps ==
  ASSUME IInv, NEW s \in Sessions, NEW r \in Requests, Begin(s, r) PROVE IInv'
<1> DEFINE x == [at |-> "begun", req |-> r, got |-> "none"]
<1>1. /\ sess' = [sess EXCEPT ![s] = x] /\ beneficiary[req[r].ben] = "verified"
      /\ req[r].status \in {"approved", "processing", "pending"}
      /\ UNCHANGED <<obligation, beneficiary, hooks, transfer>>
  BY DEF Begin
<1>2. x \in Calls /\ x.req = r /\ x.at = "begun" /\ x.got = "none"
  BY DEF Calls
<1>3. req[r].obl \in Obligations
  BY <1>1, RowType DEF IInv, Rows
<1> HIDE DEF x
<1>4. CASE req[r].status = "approved"
  <2>1. /\ Move(r, "processing") /\ total' = total + Amount[req[r].obl]
        /\ begun' = begun \cup {r}
    BY <1>4 DEF Begin
  <2>2. total' \in Int /\ begun' \subseteq Requests
    BY <1>3, <2>1, AmountAssumption DEF IInv, TypeOK
  <2>3. \A c \in Sessions : sess'[c] = IF c = s THEN x ELSE sess[c]
    BY <1>1 DEF IInv, TypeOK
  <2>4. DOMAIN sess' = Sessions
    BY <1>1 DEF IInv, TypeOK
  <2>5. "processing" \in Statuses /\ "processing" \in Underway /\ "approved" \notin Underway
    BY DEF Statuses, Active, Underway, Followed
  <2>6. /\ obligation' \in [Obligations -> ObligationStatuses]
        /\ hooks' \in [Requests -> SUBSET Reports]
    BY <1>1 DEF IInv, TypeOK, ObligationStatuses
  <2> QED
    BY <1>1, <1>2, <1>4, <2>1, <2>2, <2>3, <2>4, <2>5, <2>6, RowMoves
<1>5. CASE req[r].status # "approved"
  <2>1. UNCHANGED <<total, begun, req>>
    BY <1>5 DEF Begin
  <2>2. req[r].status \in Underway
    BY <1>1, <1>5 DEF Underway, Followed
  <2> QED  BY <1>1, <1>2, <2>1, <2>2, OneCallMoves
<1> QED  BY <1>4, <1>5

(* The provider's side: a transfer is taken, settles, or comes back. *)
LEMMA TransferMoves ==
  ASSUME IInv, NEW r \in Requests, NEW t \in {"pending"} \cup Reports,
         transfer' = [transfer EXCEPT ![r] = t],
         \/ t = transfer[r]
         \/ transfer[r] = "none" /\ t = "pending" /\ req[r].status \in Underway
         \/ transfer[r] = "pending" /\ t \in {"success", "failed"}
         \/ transfer[r] = "success" /\ t = "reversed",
         DOMAIN sess' = Sessions,
         \A s \in Sessions :
           \/ sess'[s] = sess[s]
           \/ /\ sess'[s] \in Calls /\ sess'[s].at = "answered"
              /\ sess'[s].req = r /\ req[r].status \in Underway,
         UNCHANGED <<obligation, beneficiary, req, hooks, total, begun>>
  PROVE  IInv'
<1>1. \A q \in Requests : transfer'[q] = IF q = r THEN t ELSE transfer[q]
  BY DEF IInv, TypeOK
<1>2. TypeOK'
  <2>1. \A s \in Sessions : sess'[s] \in {Idle} \cup Calls
    BY CallType DEF IInv
  <2>2. transfer' \in [Requests -> {"none", "pending"} \cup Reports]
    BY DEF IInv, TypeOK
  <2> QED  BY <2>1, <2>2 DEF IInv, TypeOK, Calls
<1>3. StatusHasBeenTrue'
  BY <1>1 DEF IInv, StatusHasBeenTrue
<1>4. DisputeIsShared'
  BY DEF IInv, DisputeIsShared
<1>5. TransfersHaveRows'
  BY <1>1 DEF IInv, TransfersHaveRows, Reports
<1>6. CallsAreTrue'
  <2> SUFFICES ASSUME NEW s \in Sessions
               PROVE  /\ sess'[s] # Idle => req[sess'[s].req].status \in Underway
                      /\ sess'[s].at = "answered" => transfer'[sess'[s].req] # "none"
                      /\ sess'[s].at = "polled" => sess'[s].got \in Reported(transfer'[sess'[s].req])
    BY DEF CallsAreTrue
  <2>1. t # "none"
    BY DEF Reports
  <2>2. CASE sess'[s] = sess[s] /\ sess[s] # Idle
    <3>1. sess[s].req \in Requests
      BY <2>2, CallType DEF IInv, Calls
    <3>2. \A e : e \in Reported(transfer[sess[s].req]) => e \in Reported(transfer'[sess[s].req])
      BY <1>1, <3>1 DEF Reported
    <3> QED  BY <1>1, <2>1, <2>2, <3>1, <3>2 DEF IInv, CallsAreTrue
  <2>3. CASE sess'[s] = Idle
    BY <2>3 DEF Idle
  <2>4. CASE /\ sess'[s] \in Calls /\ sess'[s].at = "answered"
             /\ sess'[s].req = r /\ req[r].status \in Underway
    BY <1>1, <2>1, <2>4
  <2> QED  BY <2>2, <2>3, <2>4
<1>7. OneLive'
  <2>1. \A q \in Requests : Live(q)' => Live(q)
    BY <1>1 DEF Live, IInv, TypeOK, Reports
  <2> QED  BY <2>1 DEF IInv, OneLive
<1>8. PayeeIsVerified'
  BY <1>1 DEF IInv, PayeeIsVerified, Reports
<1> QED  BY <1>2, <1>3, <1>4, <1>5, <1>6, <1>7, <1>8 DEF IInv

LEMMA SubmitKeeps == ASSUME IInv, NEW s \in Sessions, Submit(s) PROVE IInv'
<1> DEFINE r == sess[s].req
           t == IF transfer[r] = "none" THEN "pending" ELSE transfer[r]
           x == [sess[s] EXCEPT !.at = "answered", !.got = t]
<1>1. sess[s].at = "begun" /\ sess[s] \in Calls /\ r \in Requests
  BY CallType DEF Submit, IInv, Calls
<1>2. req[r].status \in Underway
  BY <1>1 DEF IInv, CallsAreTrue, Idle
<1>3. t \in {"pending"} \cup Reports
  BY <1>1 DEF IInv, TypeOK
<1>4. x \in Calls /\ x.at = "answered" /\ x.req = r
  BY <1>1, <1>3 DEF Calls
<1>5. /\ transfer' = [transfer EXCEPT ![r] = t] /\ sess' = [sess EXCEPT ![s] = x]
      /\ UNCHANGED <<obligation, beneficiary, req, hooks, total, begun>>
  BY DEF Submit, IInv, TypeOK
<1>6. /\ \A c \in Sessions : sess'[c] = IF c = s THEN x ELSE sess[c]
      /\ DOMAIN sess' = Sessions
  BY <1>5 DEF IInv, TypeOK
<1>7. t = transfer[r] \/ (transfer[r] = "none" /\ t = "pending")
  OBVIOUS
<1> HIDE DEF x, t, r
<1> QED  BY <1>1, <1>2, <1>3, <1>4, <1>5, <1>6, <1>7, TransferMoves

LEMMA ProviderKeeps ==
  ASSUME IInv, NEW r \in Requests, SettleTransfer(r) \/ ReverseTransfer(r) PROVE IInv'
<1>1. /\ UNCHANGED <<obligation, beneficiary, req, hooks, total, begun, sess>>
      /\ DOMAIN sess' = Sessions
  BY DEF SettleTransfer, ReverseTransfer, IInv, TypeOK
<1>2. CASE SettleTransfer(r)
  <2>1. PICK t \in {"success", "failed"} : transfer' = [transfer EXCEPT ![r] = t]
    BY <1>2 DEF SettleTransfer
  <2>2. transfer[r] = "pending" /\ t \in Reports
    BY <1>2 DEF SettleTransfer, Reports
  <2> QED  BY <1>1, <2>1, <2>2, TransferMoves
<1>3. CASE ReverseTransfer(r)
  <2>1. /\ transfer' = [transfer EXCEPT ![r] = "reversed"] /\ transfer[r] = "success"
        /\ "reversed" \in Reports
    BY <1>3 DEF ReverseTransfer, Reports
  <2> QED  BY <1>1, <2>1, TransferMoves
<1> QED  BY <1>2, <1>3

LEMMA RecordKeeps == ASSUME IInv, NEW s \in Sessions, Record(s) PROVE IInv'
<1> DEFINE r == sess[s].req
<1>1. sess[s].at = "answered" /\ sess[s] \in Calls /\ r \in Requests
  BY CallType DEF Record, IInv, Calls
<1>2. transfer[r] # "none"
  BY <1>1 DEF IInv, CallsAreTrue
<1>3. /\ sess' = [sess EXCEPT ![s] = Idle]
      /\ UNCHANGED <<obligation, beneficiary, hooks, total, begun, transfer>>
  BY DEF Record
<1>4. /\ \A c \in Sessions : sess'[c] = sess[c] \/ sess'[c] = Idle
      /\ DOMAIN sess' = Sessions
  BY <1>3 DEF IInv, TypeOK
<1>5. CASE UNCHANGED req
  <2>1. Idle.at = "idle"
    BY DEF Idle
  <2> QED  BY <1>3, <1>5, <2>1, OneCallMoves
<1>6. CASE req[r].status \in {"processing", "pending"} /\ Move(r, "pending")
  <2>1. "pending" \in Statuses /\ "pending" \in Underway
    BY DEF Statuses, Active, Underway, Followed
  <2>2. /\ obligation' \in [Obligations -> ObligationStatuses]
        /\ hooks' \in [Requests -> SUBSET Reports]
        /\ total' \in Int /\ begun' \subseteq Requests
    BY <1>3 DEF IInv, TypeOK, ObligationStatuses
  <2> HIDE DEF r
  <2> QED  BY <1>1, <1>2, <1>3, <1>4, <1>6, <2>1, <2>2, RowMoves
<1> QED  BY <1>5, <1>6 DEF Record

--------------------------------------------------------------------------------
(* What a report does, with the calls as they were or one of them ended. *)
LEMMA ConcludeKeeps ==
  ASSUME IInv, NEW r \in Requests, NEW e \in Reported(transfer[r]), Conclude(r, e),
         DOMAIN sess' = Sessions,
         \A s \in Sessions : sess'[s] = sess[s] \/ sess'[s] = Idle,
         hooks' \in [Requests -> SUBSET Reports],
         UNCHANGED <<beneficiary, total, begun, transfer>>
  PROVE  IInv'
<1> DEFINE o == req[r].obl
<1>1. /\ e \in Reports
      /\ e = "success"  => transfer[r] \in {"success", "reversed"}
      /\ e = "failed"   => transfer[r] = "failed"
      /\ e = "reversed" => transfer[r] = "reversed"
      /\ transfer[r] # "none"
  BY DEF Reported, Reports
<1>2. req[r].status \in Underway /\ req[r] \in Rows /\ o \in Obligations
  BY <1>1, RowType DEF IInv, TransfersHaveRows, Underway, Followed, Rows
<1>3. /\ total' \in Int /\ begun' \subseteq Requests
      /\ obligation \in [Obligations -> ObligationStatuses]
  BY DEF IInv, TypeOK, ObligationStatuses
<1>4. CASE UNCHANGED <<req, obligation>>
  <2>1. TypeOK'
    BY <1>3, <1>4, CallType DEF IInv, TypeOK, Calls
  <2>2. CallsAreTrue'
    BY <1>4 DEF IInv, CallsAreTrue, Idle
  <2>3. StatusHasBeenTrue' /\ DisputeIsShared' /\ TransfersHaveRows' /\ OneLive' /\ PayeeIsVerified'
    BY <1>4 DEF IInv, StatusHasBeenTrue, DisputeIsShared, TransfersHaveRows, OneLive,
                Live, PayeeIsVerified
  <2> QED  BY <2>1, <2>2, <2>3 DEF IInv
<1>5. CASE /\ Move(r, Outcome(e))
           /\ obligation' = [obligation EXCEPT ![o] =
                IF e = "success" /\ @ = "reserved" THEN "paid"
                ELSE IF e = "reversed" /\ req[r].status = "paid" /\ @ = "paid" THEN "reversed"
                ELSE @]
  <2>1. obligation' \in [Obligations -> ObligationStatuses]
    BY <1>3, <1>5 DEF ObligationStatuses
  <2>2. \A p \in Obligations : obligation[p] = "disputed" => obligation'[p] = "disputed"
    BY <1>3, <1>5
  <2>3. /\ Outcome(e) \in {"paid", "failed", "reversed"}
        /\ Outcome(e) = "paid" => e = "success"
        /\ Outcome(e) = "failed" => e = "failed"
        /\ Outcome(e) = "reversed" => e = "reversed"
    BY <1>1 DEF Outcome, Reports
  <2>4. Outcome(e) \in Statuses /\ Outcome(e) \in Underway
    BY <2>3 DEF Statuses, Active, Underway, Followed
  <2>5. req[r].status \notin {"none", "cancelled"}
    BY <1>2 DEF Underway, Followed
  <2> DEFINE st == Outcome(e)
  <2>6. Move(r, st) /\ st \in Statuses /\ st \in Underway
    BY <1>5, <2>4
  <2>7. /\ st \notin {"disputed", "pending"}
        /\ st = "paid" => transfer[r] \in {"success", "reversed"}
        /\ st = "failed" => transfer[r] = "failed"
        /\ st = "reversed" => transfer[r] = "reversed"
    BY <1>1, <2>3
  <2> HIDE DEF st
  <2> QED  BY <1>1, <1>3, <2>1, <2>2, <2>5, <2>6, <2>7, RowMoves
<1>6. CASE /\ req' = [q \in Requests |-> IF q = r \/ q \in Rivals(r)
                                         THEN [req[q] EXCEPT !.status = "disputed"]
                                         ELSE req[q]]
           /\ obligation' = [obligation EXCEPT ![o] = "disputed"]
  <2> DEFINE D == {r} \cup Rivals(r)
  <2>1. \A q \in D : /\ q \in Requests /\ req[q].obl = o /\ req[q] \in Rows
                     /\ req[q].status \in Active \cup Underway
    BY <1>2, RowType DEF Rivals, IInv, Active
  <2>2. \A q \in D : /\ req'[q] \in Rows /\ req'[q].status = "disputed"
                     /\ req'[q].obl = o /\ req'[q].ben = req[q].ben
    BY <1>6, <2>1 DEF Rows, Statuses, InFlight
  <2>3. \A q \in Requests \ D : req'[q] = req[q]
    BY <1>6
  <2> HIDE DEF D
  <2>4. /\ obligation'[o] = "disputed"
        /\ \A p \in Obligations : obligation[p] = "disputed" => obligation'[p] = "disputed"
        /\ obligation' \in [Obligations -> ObligationStatuses]
    BY <1>2, <1>3, <1>6 DEF ObligationStatuses
  <2>5. TypeOK'
    <3>1. \A q \in Requests : req'[q] \in {NoRow} \cup Rows
      BY <2>2, <2>3, RowType DEF IInv
    <3>2. DOMAIN req' = Requests
      BY <1>6
    <3>3. \A s \in Sessions : sess'[s] \in {Idle} \cup Calls
      BY CallType DEF IInv
    <3> QED
      BY <1>3, <2>4, <3>1, <3>2, <3>3
      DEF IInv, TypeOK, Rows, Statuses, Calls, ObligationStatuses
  <2>6. StatusHasBeenTrue'
    BY <2>2, <2>3 DEF IInv, StatusHasBeenTrue
  <2>7. DisputeIsShared'
    <3> SUFFICES ASSUME NEW q \in Requests, req'[q].status = "disputed"
                 PROVE  obligation'[req'[q].obl] = "disputed"
      BY DEF DisputeIsShared
    <3>1. CASE q \in D
      BY <2>2, <2>4, <3>1
    <3>2. CASE q \notin D
      <4>1. req'[q] = req[q] /\ obligation[req[q].obl] = "disputed"
        BY <2>3, <3>2 DEF IInv, DisputeIsShared
      <4>2. req[q].obl \in Obligations
        BY <4>1, RowType DEF IInv, Rows
      <4> QED  BY <2>4, <4>1, <4>2
    <3> QED  BY <3>1, <3>2
  <2>8. TransfersHaveRows'
    BY <2>2, <2>3 DEF IInv, TransfersHaveRows, Underway
  <2>9. CallsAreTrue'
    <3> SUFFICES ASSUME NEW s \in Sessions, sess'[s] = sess[s], sess[s] # Idle
                 PROVE  req'[sess[s].req].status \in Underway
      BY DEF CallsAreTrue, IInv, Idle
    <3>1. sess[s].req \in Requests
      BY CallType DEF IInv, Calls
    <3>2. req[sess[s].req].status \in Underway
      BY DEF IInv, CallsAreTrue
    <3> QED  BY <2>2, <2>3, <3>1, <3>2 DEF Underway
  <2>10. OneLive'
    <3>1. \A q \in Requests : Live(q)' => Live(q)
      BY <2>1, <2>2, <2>3 DEF Live, Active, Underway, Followed
    <3>2. \A q \in Requests : req'[q].obl = req[q].obl
      BY <2>1, <2>2, <2>3
    <3> QED  BY <3>1, <3>2 DEF IInv, OneLive
  <2>11. PayeeIsVerified'
    <3> SUFFICES ASSUME NEW q \in D, transfer[q] = "none"
                 PROVE  beneficiary[req[q].ben] = "verified"
      BY <2>2, <2>3 DEF IInv, PayeeIsVerified
    <3>1. q \in Requests /\ req[q].status # "paid" /\ req[q].status \notin {"failed", "reversed"}
      BY <2>1 DEF IInv, StatusHasBeenTrue
    <3>2. req[q].status \in InFlight
      BY <2>1, <3>1 DEF Active, Underway, Followed, InFlight
    <3> QED  BY <3>1, <3>2 DEF IInv, PayeeIsVerified
  <2> QED  BY <2>5, <2>6, <2>7, <2>8, <2>9, <2>10, <2>11 DEF IInv
<1> QED  BY <1>4, <1>5, <1>6 DEF Conclude

LEMMA WebhookKeeps ==
  ASSUME IInv, NEW r \in Requests, NEW e \in Reports, Webhook(r, e) PROVE IInv'
<1>1. /\ e \in Reported(transfer[r]) /\ Conclude(r, e)
      /\ UNCHANGED <<beneficiary, total, begun, transfer, sess>>
      /\ hooks' = [hooks EXCEPT ![r] = @ \cup {e}]
  BY DEF Webhook
<1>2. hooks' \in [Requests -> SUBSET Reports] /\ DOMAIN sess' = Sessions
  BY <1>1 DEF IInv, TypeOK
<1> QED  BY <1>1, <1>2, ConcludeKeeps

LEMMA ReadKeeps ==
  ASSUME IInv, NEW s \in Sessions, NEW r \in Requests, Read(s, r) PROVE IInv'
<1> DEFINE x == [at |-> "read", req |-> r, got |-> "none"]
<1>1. x \in Calls /\ x.at = "read" /\ x.req = r
  BY DEF Calls
<1>2. /\ sess' = [sess EXCEPT ![s] = x] /\ req[r].status \in Underway
      /\ UNCHANGED <<obligation, beneficiary, req, hooks, total, begun, transfer>>
  BY DEF Read, Underway
<1> HIDE DEF x
<1> QED  BY <1>1, <1>2, OneCallMoves

LEMMA PollKeeps == ASSUME IInv, NEW s \in Sessions, Poll(s) PROVE IInv'
<1> DEFINE t == transfer[sess[s].req]
           y == [sess[s] EXCEPT !.at = "polled", !.got = t]
<1>1. sess[s].at = "read" /\ sess[s] \in Calls /\ sess[s].req \in Requests /\ sess[s] # Idle
  BY CallType DEF Poll, IInv, Calls, Idle
<1>2. UNCHANGED <<obligation, beneficiary, req, hooks, total, begun, transfer>>
  BY DEF Poll
<1>3. req[sess[s].req].status \in Underway
  BY <1>1 DEF IInv, CallsAreTrue
<1>4. CASE t \in Reports
  <2>1. sess' = [sess EXCEPT ![s] = y]
    BY <1>4 DEF Poll, IInv, TypeOK
  <2>2. y \in Calls /\ y.at = "polled" /\ y.got = t /\ y.req = sess[s].req
    BY <1>1, <1>4 DEF Calls
  <2>3. t \in Reported(t)
    BY <1>4 DEF Reported, Reports
  <2> HIDE DEF y
  <2> QED  BY <1>2, <1>3, <2>1, <2>2, <2>3, OneCallMoves
<1>5. CASE t \notin Reports
  <2>1. sess' = [sess EXCEPT ![s] = Idle]
    BY <1>5 DEF Poll, IInv, TypeOK
  <2>2. Idle.at = "idle"
    BY DEF Idle
  <2> QED  BY <1>2, <2>1, <2>2, OneCallMoves
<1> QED  BY <1>4, <1>5

LEMMA ApplyKeeps == ASSUME IInv, NEW s \in Sessions, Apply(s) PROVE IInv'
<1>1. /\ sess[s].at = "polled" /\ sess' = [sess EXCEPT ![s] = Idle]
      /\ UNCHANGED <<beneficiary, hooks, total, begun, transfer>>
  BY DEF Apply
<1>2. sess[s].req \in Requests
  BY <1>1, CallType DEF IInv, Calls
<1>3. sess[s].got \in Reported(transfer[sess[s].req])
  BY <1>1 DEF IInv, CallsAreTrue
<1>4. /\ DOMAIN sess' = Sessions /\ hooks' \in [Requests -> SUBSET Reports]
      /\ \A c \in Sessions : sess'[c] = sess[c] \/ sess'[c] = Idle
  BY <1>1 DEF IInv, TypeOK
<1>5. CASE Conclude(sess[s].req, sess[s].got)
  BY <1>1, <1>2, <1>3, <1>4, <1>5, ConcludeKeeps
<1>6. CASE UNCHANGED <<req, obligation>>
  <2>1. Idle.at = "idle"
    BY DEF Idle
  <2> QED  BY <1>1, <1>6, <2>1, OneCallMoves
<1> QED  BY <1>5, <1>6 DEF Apply

LEMMA LoseKeeps == ASSUME IInv, NEW s \in Sessions, Lose(s) PROVE IInv'
<1>1. Idle.at = "idle"
  BY DEF Idle
<1> QED  BY <1>1, OneCallMoves DEF Lose

LEMMA ResolveKeeps == ASSUME IInv, NEW r \in Requests, Resolve(r) PROVE IInv'
<1>1. /\ req[r].status \in {"failed", "reversed"}
      /\ obligation[req[r].obl] \in {"reserved", "reversed"}
      /\ obligation' = [obligation EXCEPT ![req[r].obl] = "available"]
      /\ UNCHANGED <<beneficiary, req, hooks, total, begun, transfer, sess>>
  BY DEF Resolve
<1>2. req[r].obl \in Obligations
  BY <1>1, RowType DEF IInv, Rows
<1>3. TypeOK'
  BY <1>1 DEF IInv, TypeOK
<1>4. DisputeIsShared'
  BY <1>1, <1>2, RowType DEF IInv, DisputeIsShared, TypeOK, Rows
<1>5. StatusHasBeenTrue' /\ TransfersHaveRows' /\ CallsAreTrue' /\ OneLive' /\ PayeeIsVerified'
  BY <1>1 DEF IInv, StatusHasBeenTrue, TransfersHaveRows, CallsAreTrue, OneLive, Live,
              PayeeIsVerified
<1> QED  BY <1>3, <1>4, <1>5 DEF IInv

LEMMA MidnightKeeps == ASSUME IInv, Midnight \/ UNCHANGED vars PROVE IInv'
<1>1. UNCHANGED <<obligation, beneficiary, req, hooks, transfer, sess>>
  BY DEF Midnight, vars
<1>2. TypeOK'
  BY <1>1 DEF Midnight, vars, IInv, TypeOK
<1>3. /\ StatusHasBeenTrue' /\ DisputeIsShared' /\ TransfersHaveRows'
      /\ CallsAreTrue' /\ OneLive' /\ PayeeIsVerified'
  BY <1>1 DEF IInv, StatusHasBeenTrue, DisputeIsShared, TransfersHaveRows, CallsAreTrue,
              OneLive, Live, PayeeIsVerified
<1> QED  BY <1>2, <1>3 DEF IInv

LEMMA NextIInv == IInv /\ [Next]_vars => IInv'
<1> SUFFICES ASSUME IInv, [Next]_vars PROVE IInv'
  OBVIOUS
<1>1. ASSUME NEW o \in Obligations, RecordObligation(o) PROVE IInv'
  BY <1>1, RecordObligationKeeps
<1>2. ASSUME NEW b \in Beneficiaries, Register(b) \/ Disable(b) PROVE IInv'
  BY <1>2, BeneficiaryKeeps
<1>3. ASSUME NEW r \in Requests, NEW o \in Obligations, NEW b \in Beneficiaries,
             Request(r, o, b)
      PROVE  IInv'
  BY <1>3, RequestKeeps
<1>4. ASSUME NEW r \in Requests, Approve(r) \/ Cancel(r) PROVE IInv'
  BY <1>4, ReviewKeeps
<1>5. ASSUME NEW r \in Requests, Resolve(r) PROVE IInv'
  BY <1>5, ResolveKeeps
<1>6. ASSUME NEW r \in Requests, NEW e \in Reports, Webhook(r, e) PROVE IInv'
  BY <1>6, WebhookKeeps
<1>7. ASSUME NEW r \in Requests, SettleTransfer(r) \/ ReverseTransfer(r) PROVE IInv'
  BY <1>7, ProviderKeeps
<1>8. ASSUME NEW r \in Requests, NEW s \in Sessions, Begin(s, r) PROVE IInv'
  BY <1>8, BeginKeeps
<1>9. ASSUME NEW r \in Requests, NEW s \in Sessions, Read(s, r) PROVE IInv'
  BY <1>9, ReadKeeps
<1>10. ASSUME NEW s \in Sessions, Submit(s) PROVE IInv'
  BY <1>10, SubmitKeeps
<1>11. ASSUME NEW s \in Sessions, Record(s) PROVE IInv'
  BY <1>11, RecordKeeps
<1>12. ASSUME NEW s \in Sessions, Poll(s) PROVE IInv'
  BY <1>12, PollKeeps
<1>13. ASSUME NEW s \in Sessions, Apply(s) PROVE IInv'
  BY <1>13, ApplyKeeps
<1>14. ASSUME NEW s \in Sessions, Lose(s) PROVE IInv'
  BY <1>14, LoseKeeps
<1>15. CASE Midnight \/ UNCHANGED vars
  BY <1>15, MidnightKeeps
<1> QED
  BY <1>1, <1>2, <1>3, <1>4, <1>5, <1>6, <1>7, <1>8, <1>9, <1>10, <1>11, <1>12, <1>13,
     <1>14, <1>15
  DEF Next

LEMMA Invariance == Spec => []IInv
  BY InitIInv, NextIInv, PTL DEF Spec

--------------------------------------------------------------------------------
(* Every row, call and counter has its type, in every instance. *)
THEOREM TypeCorrect == Spec => []TypeOK
<1>1. IInv => TypeOK
  BY DEF IInv
<1> QED  BY <1>1, Invariance, PTL

(***************************************************************************)
(* Of all the requests an obligation ever had, at most one has a transfer  *)
(* that is under way or has succeeded.                                     *)
(***************************************************************************)
THEOREM PaidOnce == Spec => []OneTransferAtATime
<1>1. IInv => OneTransferAtATime
  <2> SUFFICES ASSUME IInv, NEW r \in Requests, Outstanding(r) PROVE Live(r)
    BY DEF OneTransferAtATime, IInv, OneLive
  <2>1. req[r].status \in Underway
    BY DEF Outstanding, IInv, TransfersHaveRows
  <2> QED  BY <2>1 DEF Outstanding, Live, Underway, Followed
<1> QED  BY <1>1, Invariance, PTL

(* A request's status, once final, has been its transfer's. *)
THEOREM StatusTrue == Spec => []StatusHasBeenTrue
<1>1. IInv => StatusHasBeenTrue
  BY DEF IInv
<1> QED  BY <1>1, Invariance, PTL

(***************************************************************************)
(* Money leaves only for a request that is being processed, or was until   *)
(* it came into dispute, and to a beneficiary that is verified.            *)
(***************************************************************************)
THEOREM MoneyGoesRight == Spec => MoneyGoesWhereItShould
<1>1. IInv /\ [Next]_vars =>
        [\A r \in Requests :
           transfer[r] = "none" /\ transfer'[r] # "none" =>
             /\ req[r].status \in {"processing", "disputed"}
             /\ beneficiary[req[r].ben] = "verified"]_vars
  <2> SUFFICES ASSUME IInv, [Next]_vars, NEW r \in Requests,
                      transfer[r] = "none", transfer'[r] # "none"
               PROVE  /\ req[r].status \in {"processing", "disputed"}
                      /\ beneficiary[req[r].ben] = "verified"
    OBVIOUS
  <2>1. \E s \in Sessions : Submit(s) /\ sess[s].req = r
    <3>1. \A q \in Requests : ~ (SettleTransfer(q) \/ ReverseTransfer(q))
      BY DEF SettleTransfer, ReverseTransfer, IInv, TypeOK
    <3>2. PICK s \in Sessions : Submit(s)
      BY <3>1 DEF Next, vars, RecordObligation, Register, Disable, Request, Approve, Cancel,
                  Resolve, Webhook, Begin, Read, Record, Poll, Apply, Lose, Midnight
    <3>3. sess[s].req = r
      BY <3>2 DEF Submit, IInv, TypeOK
    <3> QED  BY <3>2, <3>3
  <2>2. PICK s \in Sessions : Submit(s) /\ sess[s].req = r
    BY <2>1
  <2>3. req[r].status \in Underway
    BY <2>2 DEF Submit, IInv, CallsAreTrue, Idle
  <2>4. req[r].status \in {"processing", "disputed"}
    BY <2>3 DEF IInv, StatusHasBeenTrue, TransfersHaveRows, Underway, Followed
  <2> QED  BY <2>4 DEF IInv, PayeeIsVerified, InFlight
<1> QED  BY <1>1, Invariance, PTL DEF MoneyGoesWhereItShould, Spec

--------------------------------------------------------------------------------
(* Totals (see Totals): the facts this module needs of them. *)

(* The units of a row are as many as its amount, or none. *)
LEMMA RowUnits ==
  ASSUME NEW x, NEW n \in Int
  PROVE  /\ IsFiniteSet({x} \X (1..n))
         /\ Cardinality({x} \X (1..n)) = IF n > 0 THEN n ELSE 0
<1>1. IsFiniteSet({x}) /\ Cardinality({x}) = 1
  BY FS_Singleton
<1>2. IsFiniteSet(1..n) /\ Cardinality(1..n) = IF n > 0 THEN n ELSE 0
  BY FS_Interval
<1>3. /\ IsFiniteSet({x} \X (1..n))
      /\ Cardinality({x} \X (1..n)) = Cardinality({x}) * Cardinality(1..n)
  BY <1>1, <1>2, FS_Product
<1> QED
  BY <1>1, <1>2, <1>3

(* Finitely many rows have finitely many units. *)
LEMMA UnitsFinite ==
  ASSUME NEW S, IsFiniteSet(S), NEW f \in [S -> Int]
  PROVE  IsFiniteSet(Units(f))
<1> DEFINE cells == {{x} \X (1..f[x]) : x \in S}
           F     == [x \in S |-> {x} \X (1..f[x])]
<1>1. F \in Surjection(S, cells)
  BY DEF Surjection
<1>2. IsFiniteSet(cells)
  BY <1>1, FS_Surjection
<1>3. \A x \in S : f[x] \in Int
  OBVIOUS
<1>4. \A x \in S : IsFiniteSet({x} \X (1..f[x]))
  BY <1>3, RowUnits
<1>5. \A T \in cells : IsFiniteSet(T)
  BY <1>4
<1> QED
  BY <1>2, <1>5, FS_UNION DEF Units

(* One row more: as many units more as it has. *)
LEMMA UnitsAdd ==
  ASSUME NEW S, IsFiniteSet(S), NEW x, x \notin S,
         NEW f \in [S -> Int], NEW g \in [S \cup {x} -> Int], \A y \in S : f[y] = g[y]
  PROVE  /\ Cardinality(Units(f)) \in Nat
         /\ Cardinality(Units(g)) = Cardinality(Units(f)) + (IF g[x] > 0 THEN g[x] ELSE 0)
<1>1. IsFiniteSet(Units(f))
  BY UnitsFinite
<1>2. Units(g) = Units(f) \cup ({x} \X (1..g[x]))
  BY DEF Units
<1>3. Units(f) \cap ({x} \X (1..g[x])) = {}
  BY DEF Units
<1>4. /\ IsFiniteSet({x} \X (1..g[x]))
      /\ Cardinality({x} \X (1..g[x])) = IF g[x] > 0 THEN g[x] ELSE 0
  BY RowUnits
<1>5. Cardinality(Units(f)) \in Nat
  BY <1>1, FS_CardinalityType
<1>6. Cardinality(Units(g)) =
        Cardinality(Units(f)) + Cardinality({x} \X (1..g[x])) - Cardinality({})
  BY <1>1, <1>2, <1>3, <1>4, FS_Union
<1> QED
  BY <1>4, <1>5, <1>6, FS_EmptySet

(* Where there is nothing to add, the total is zero. *)
LEMMA TotalNothing == ASSUME NEW f, \A x \in DOMAIN f : f[x] = 0 PROVE Total(f) = 0
<1>1. Units(f) = {} /\ Units([x \in DOMAIN f |-> -f[x]]) = {}
  BY DEF Units
<1> QED
  BY <1>1, FS_EmptySet DEF Total

(* A row more adds its amount, whatever its sign. *)
LEMMA TotalAdd ==
  ASSUME NEW S, IsFiniteSet(S), NEW x, x \notin S,
         NEW f \in [S -> Int], NEW g \in [S \cup {x} -> Int], \A y \in S : f[y] = g[y]
  PROVE  Total(f) \in Int /\ Total(g) = Total(f) + g[x]
<1>1. Cardinality(Units(f)) \in Nat
  BY UnitsAdd
<1>2. Cardinality(Units(g)) = Cardinality(Units(f)) + (IF g[x] > 0 THEN g[x] ELSE 0)
  BY UnitsAdd
<1> DEFINE m == [y \in S |-> -f[y]]
           n == [y \in S \cup {x} |-> -g[y]]
<1>3. m \in [S -> Int] /\ n \in [S \cup {x} -> Int] /\ n[x] = -g[x] /\ \A y \in S : m[y] = n[y]
  OBVIOUS
<1>4. /\ Cardinality(Units(m)) \in Nat
      /\ Cardinality(Units(n)) = Cardinality(Units(m)) + (IF n[x] > 0 THEN n[x] ELSE 0)
  BY <1>3, UnitsAdd
<1>5. /\ Total(f) = Cardinality(Units(f)) - Cardinality(Units(m))
      /\ Total(g) = Cardinality(Units(g)) - Cardinality(Units(n))
  BY DEF Total
<1>6. g[x] \in Int
  OBVIOUS
<1> HIDE DEF m, n
<1> QED
  BY <1>1, <1>2, <1>3, <1>4, <1>5, <1>6

--------------------------------------------------------------------------------
(***************************************************************************)
(* The day's requests are finitely many and have all been begun, so none   *)
(* of them is made again for another obligation while it is counted.       *)
(***************************************************************************)
DayInv ==
  /\ IsFiniteSet(begun)
  /\ \A r \in begun : req[r].status \in Underway
  /\ DailyTotalCountsOnce

(* A request that was begun stays begun, and keeps its obligation. *)
LEMMA BegunStays ==
  ASSUME IInv, [Next]_vars, NEW r \in Requests, req[r].status \in Underway
  PROVE  req'[r].status \in Underway /\ req'[r].obl = req[r].obl
<1>1. req[r] \in Rows /\ req[r].status \notin {"none", "requested", "approved"}
  BY RowType DEF IInv, Underway, Followed
<1>2. ASSUME NEW q \in Requests, NEW st \in Underway, Move(q, st)
      PROVE  req'[r].status \in Underway /\ req'[r].obl = req[r].obl
  BY <1>1, <1>2 DEF Move, IInv, TypeOK, Rows
<1>3. ASSUME NEW q \in Requests, NEW e \in Reports, Conclude(q, e)
      PROVE  req'[r].status \in Underway /\ req'[r].obl = req[r].obl
  <2>1. CASE UNCHANGED req
    BY <2>1
  <2>2. CASE Move(q, Outcome(e))
    <3>1. Outcome(e) \in Underway
      BY DEF Outcome, Reports, Underway, Followed
    <3> QED  BY <1>2, <2>2, <3>1
  <2>3. CASE req' = [p \in Requests |-> IF p = q \/ p \in Rivals(q)
                                        THEN [req[p] EXCEPT !.status = "disputed"]
                                        ELSE req[p]]
    BY <1>1, <2>3 DEF Rows, Underway
  <2> QED  BY <1>3, <2>1, <2>2, <2>3 DEF Conclude
<1>4. CASE UNCHANGED req
  BY <1>4
<1>5. CASE ~ UNCHANGED req
  <2>1. ASSUME NEW q \in Requests, NEW o \in Obligations, NEW b \in Beneficiaries,
               Request(q, o, b)
        PROVE  req'[r].status \in Underway /\ req'[r].obl = req[r].obl
    BY <1>1, <2>1 DEF Request, IInv, TypeOK
  <2>2. ASSUME NEW q \in Requests, Approve(q) \/ Cancel(q)
        PROVE  req'[r].status \in Underway /\ req'[r].obl = req[r].obl
    BY <1>1, <2>2 DEF Approve, Cancel, Move, IInv, TypeOK
  <2>3. ASSUME NEW q \in Requests, NEW e \in Reports, Webhook(q, e)
        PROVE  req'[r].status \in Underway /\ req'[r].obl = req[r].obl
    BY <1>3, <2>3 DEF Webhook
  <2>4. ASSUME NEW q \in Requests, NEW s \in Sessions, Begin(s, q)
        PROVE  req'[r].status \in Underway /\ req'[r].obl = req[r].obl
    BY <1>2, <1>5, <2>4 DEF Begin, Underway, Followed
  <2>5. ASSUME NEW s \in Sessions, Record(s)
        PROVE  req'[r].status \in Underway /\ req'[r].obl = req[r].obl
    <3>1. sess[s].req \in Requests /\ Move(sess[s].req, "pending")
      BY <1>5, <2>5, CallType DEF Record, IInv, Calls
    <3> QED  BY <1>2, <3>1 DEF Underway, Followed
  <2>6. ASSUME NEW s \in Sessions, Apply(s)
        PROVE  req'[r].status \in Underway /\ req'[r].obl = req[r].obl
    <3>1. sess[s].at = "polled" /\ sess[s] \in Calls /\ sess[s].req \in Requests
      BY <2>6, CallType DEF Apply, IInv, Calls
    <3>2. sess[s].got \in Reports
      BY <3>1 DEF IInv, CallsAreTrue, Reported, Reports
    <3>3. Conclude(sess[s].req, sess[s].got)
      BY <1>5, <2>6 DEF Apply
    <3> QED  BY <1>3, <3>1, <3>2, <3>3
  <2> QED
    BY <1>5, <2>1, <2>2, <2>3, <2>4, <2>5, <2>6
    DEF Next, vars, RecordObligation, Register, Disable, Resolve, SettleTransfer,
        ReverseTransfer, Read, Submit, Poll, Lose, Midnight
<1> QED  BY <1>4, <1>5

(* The amounts of the day's requests, whose rows keep their obligations. *)
LEMMA DayAmounts ==
  ASSUME IInv, DayInv
  PROVE  [r \in begun |-> Amount[req[r].obl]] \in [begun -> Int]
<1> SUFFICES ASSUME NEW r \in begun PROVE Amount[req[r].obl] \in Int
  OBVIOUS
<1>1. r \in Requests /\ req[r].status \in Underway
  BY DEF IInv, TypeOK, DayInv
<1>2. req[r].obl \in Obligations
  BY <1>1, RowType DEF IInv, Underway, Followed, Rows
<1> QED  BY <1>2, AmountAssumption

LEMMA NextDayInv == IInv /\ DayInv /\ [Next]_vars => DayInv'
<1> SUFFICES ASSUME IInv, DayInv, [Next]_vars PROVE DayInv'
  OBVIOUS
<1> DEFINE f == [r \in begun |-> Amount[req[r].obl]]
           g == [r \in begun' |-> Amount[req'[r].obl]]
<1>1. \A r \in begun : /\ r \in Requests
                       /\ req'[r].status \in Underway /\ req'[r].obl = req[r].obl
  BY BegunStays DEF IInv, TypeOK, DayInv
<1>2. f \in [begun -> Int] /\ total = Total(f)
  BY DayAmounts DEF DayInv, DailyTotalCountsOnce
<1>3. CASE UNCHANGED <<total, begun>>
  <2>1. f = g
    BY <1>1, <1>3
  <2> QED  BY <1>1, <1>2, <1>3, <2>1 DEF DayInv, DailyTotalCountsOnce
<1>4. CASE Midnight
  <2>1. total' = 0 /\ begun' = {}
    BY <1>4 DEF Midnight
  <2>2. Total(g) = 0
    BY <2>1, TotalNothing
  <2> QED  BY <2>1, <2>2, FS_EmptySet DEF DayInv, DailyTotalCountsOnce
<1>5. ASSUME NEW s \in Sessions, NEW q \in Requests, Begin(s, q), ~ UNCHANGED <<total, begun>>
      PROVE  DayInv'
  <2>1. /\ req[q].status = "approved" /\ Move(q, "processing")
        /\ total' = total + Amount[req[q].obl] /\ begun' = begun \cup {q}
    BY <1>5 DEF Begin
  <2>2. q \notin begun
    BY <2>1 DEF DayInv, Underway, Followed
  <2>3. req[q] \in Rows /\ req[q].obl \in Obligations
    BY <2>1, RowType DEF IInv, Rows
  <2>4. req'[q].obl = req[q].obl /\ req'[q].status = "processing"
    BY <2>1, <2>3 DEF Move, IInv, TypeOK, Rows
  <2>5. Amount[req[q].obl] \in Int
    BY <2>3, AmountAssumption
  <2>6. g \in [begun \cup {q} -> Int] /\ \A r \in begun : f[r] = g[r]
    BY <1>1, <1>2, <2>1, <2>4, <2>5
  <2>7. g[q] = Amount[req[q].obl]
    BY <2>1, <2>4
  <2>8. IsFiniteSet(begun)
    BY DEF DayInv
  <2>9. IsFiniteSet(begun')
    BY <2>1, <2>8, FS_AddElement
  <2>10. \A r \in begun' : req'[r].status \in Underway
    BY <1>1, <2>1, <2>4 DEF Underway, Followed
  <2>11. f \in [begun -> Int]
    BY <1>2
  <2> HIDE DEF f, g
  <2>12. Total(g) = Total(f) + g[q]
    BY <2>2, <2>6, <2>8, <2>11, TotalAdd
  <2>13. total' = Total(g)
    BY <1>2, <2>1, <2>7, <2>12
  <2> QED  BY <2>9, <2>10, <2>13 DEF DayInv, DailyTotalCountsOnce, g
<1> QED
  BY <1>3, <1>4, <1>5
  DEF Next, vars, RecordObligation, Register, Disable, Request, Approve, Cancel, Resolve,
      Webhook, SettleTransfer, ReverseTransfer, Read, Submit, Record, Poll, Apply, Lose

(***************************************************************************)
(* Whatever is retried, reported, reconciled or disputed, the day's total  *)
(* is the sum of the amounts of the requests that took capacity that day,  *)
(* each once.                                                              *)
(***************************************************************************)
THEOREM DailyTotalIsTheSum == Spec => []DailyTotalCountsOnce
<1>1. Init => DayInv
  <2> SUFFICES ASSUME Init PROVE DayInv
    OBVIOUS
  <2>1. total = 0 /\ begun = {}
    BY DEF Init
  <2>2. Total([r \in begun |-> Amount[req[r].obl]]) = 0
    BY <2>1, TotalNothing
  <2> QED  BY <2>1, <2>2, FS_EmptySet DEF DayInv, DailyTotalCountsOnce
<1>2. DayInv => DailyTotalCountsOnce
  BY DEF DayInv
<1> QED  BY <1>1, <1>2, NextDayInv, Invariance, PTL DEF Spec

--------------------------------------------------------------------------------
(***************************************************************************)
(* The promise.  A step of a request or of the provider is one of          *)
(* BankPromise, or is not seen there; a report is only something said.     *)
(***************************************************************************)
PhaseOf(r) == Phase(req[r].status, transfer[r])
SaidOf(r)  == Said(req[r].status)

Verified == {b \in Beneficiaries : beneficiary[b] = "verified"}

(* The phase of a request that was made and not called off is its transfer's. *)
LEMMA PhaseOfTransfer ==
  ASSUME NEW st, st \notin {"none", "cancelled"}
  PROVE  /\ Phase(st, "none") = "asked"
         /\ Phase(st, "pending") = "sent"
         /\ Phase(st, "success") = "paid"
         /\ Phase(st, "failed") = "failed"
         /\ Phase(st, "reversed") = "reversed"
  BY DEF Phase

LEMMA PhaseOfNoRow ==
  ASSUME NEW t PROVE Phase("none", t) = "none" /\ Phase("cancelled", t) = "called off"
  BY DEF Phase

(* What does not change of a request when only its phase does. *)
SameRequests ==
  \A q \in Requests : /\ req'[q].obl = req[q].obl /\ req'[q].ben = req[q].ben
                      /\ Said(req'[q].status) = Said(req[q].status)

LEMMA SeenNothing ==
  ASSUME SameRequests, UNCHANGED beneficiary,
         \A q \in Requests : Phase(req'[q].status, transfer'[q]) = PhaseOf(q)
  PROVE  UNCHANGED Promise!vars
  BY DEF SameRequests, PhaseOf, Promise!vars

(* One request, r, changes its phase, to p. *)
LEMMA SeenBecomes ==
  ASSUME NEW r \in Requests, NEW p, SameRequests, UNCHANGED beneficiary,
         \A q \in Requests :
           Phase(req'[q].status, transfer'[q]) = IF q = r THEN p ELSE PhaseOf(q)
  PROVE  Promise!Becomes(r, p)
<1>1. [q \in Requests |-> Phase(req'[q].status, transfer'[q])]
        = [[q \in Requests |-> PhaseOf(q)] EXCEPT ![r] = p]
  OBVIOUS
<1> QED
  BY <1>1 DEF SameRequests, PhaseOf, Promise!Becomes

--------------------------------------------------------------------------------
(* A row moves and its transfer does not: neither phase nor news. *)
LEMMA MoveUnseen ==
  ASSUME IInv, NEW r \in Requests, NEW st,
         Move(r, st), Said(st) = Said(req[r].status),
         req[r].status \notin {"none", "cancelled"}, st \notin {"none", "cancelled"},
         UNCHANGED <<beneficiary, transfer>>
  PROVE  UNCHANGED Promise!vars
<1>1. \A q \in Requests :
        req'[q] = IF q = r THEN [req[q] EXCEPT !.status = st] ELSE req[q]
  BY DEF Move, IInv, TypeOK
<1>2. req[r] \in Rows
  BY RowType DEF IInv
<1>3. req'[r].status = st /\ req'[r].obl = req[r].obl /\ req'[r].ben = req[r].ben
  BY <1>1, <1>2 DEF Rows
<1>4. SameRequests
  BY <1>1, <1>3 DEF SameRequests
<1>5. Phase(st, transfer[r]) = Phase(req[r].status, transfer[r])
  BY DEF Phase
<1>6. \A q \in Requests : Phase(req'[q].status, transfer'[q]) = PhaseOf(q)
  BY <1>1, <1>3, <1>5 DEF PhaseOf
<1> QED  BY <1>4, <1>6, SeenNothing

LEMMA StillUnseen ==
  ASSUME UNCHANGED <<req, beneficiary, transfer>> PROVE UNCHANGED Promise!vars
<1>1. SameRequests
  BY DEF SameRequests
<1>2. \A q \in Requests : Phase(req'[q].status, transfer'[q]) = PhaseOf(q)
  BY DEF PhaseOf
<1> QED  BY <1>1, <1>2, SeenNothing

LEMMA ApproveUnseen ==
  ASSUME IInv, NEW r \in Requests, Approve(r) PROVE UNCHANGED Promise!vars
<1>1. /\ Move(r, "approved") /\ req[r].status = "requested"
      /\ UNCHANGED <<beneficiary, transfer>>
  BY DEF Approve
<1>2. Said("approved") = Said("requested")
  BY DEF Said
<1> QED  BY <1>1, <1>2, MoveUnseen

LEMMA BeginUnseen ==
  ASSUME IInv, NEW s \in Sessions, NEW r \in Requests, Begin(s, r)
  PROVE  UNCHANGED Promise!vars
<1>1. UNCHANGED <<beneficiary, transfer>>
  BY DEF Begin
<1>2. CASE UNCHANGED req
  BY <1>1, <1>2, StillUnseen
<1>3. CASE req[r].status = "approved" /\ Move(r, "processing")
  <2>1. Said("processing") = Said("approved")
    BY DEF Said
  <2> QED  BY <1>1, <1>3, <2>1, MoveUnseen
<1> QED  BY <1>2, <1>3 DEF Begin

LEMMA RecordUnseen ==
  ASSUME IInv, NEW s \in Sessions, Record(s) PROVE UNCHANGED Promise!vars
<1>1. sess[s].req \in Requests /\ UNCHANGED <<beneficiary, transfer>>
  BY CallType DEF Record, IInv, Calls
<1>2. CASE UNCHANGED req
  BY <1>1, <1>2, StillUnseen
<1>3. CASE /\ req[sess[s].req].status \in {"processing", "pending"}
           /\ Move(sess[s].req, "pending")
  <2>1. Said("pending") = Said("processing")
    BY DEF Said
  <2> QED  BY <1>1, <1>3, <2>1, MoveUnseen
<1> QED  BY <1>2, <1>3 DEF Record

--------------------------------------------------------------------------------
(* What is a step of BankPromise. *)
LEMMA SeenRegister ==
  ASSUME NEW b \in Beneficiaries, Register(b), IInv PROVE Promise!Verify(b)
<1>1. {c \in Beneficiaries : beneficiary'[c] = "verified"} = Verified \cup {b}
  BY DEF Register, IInv, TypeOK, Verified
<1> QED  BY <1>1 DEF Register, Verified, Promise!Verify

LEMMA SeenDisable ==
  ASSUME NEW b \in Beneficiaries, Disable(b), IInv PROVE Promise!Drop(b)
<1>1. {c \in Beneficiaries : beneficiary'[c] = "verified"} = Verified \ {b}
  BY DEF Disable, IInv, TypeOK, Verified
<1>2. ASSUME NEW r \in Requests, req[r].ben = b PROVE PhaseOf(r) # "asked"
  <2>1. req[r].status \notin InFlight
    BY <1>2 DEF Disable
  <2>2. CASE req[r].status \in {"none", "cancelled"}
    BY <2>2, PhaseOfNoRow DEF PhaseOf
  <2>3. CASE req[r].status \notin {"none", "cancelled"}
    <3>1. req[r].status \in {"paid", "failed", "reversed"}
      BY <2>1, <2>3, RowType DEF IInv, Statuses, Active, InFlight, Followed
    <3>2. transfer[r] \in {"success", "failed", "reversed"}
      BY <3>1 DEF IInv, StatusHasBeenTrue
    <3> QED  BY <2>3, <3>2, PhaseOfTransfer DEF PhaseOf
  <2> QED  BY <2>2, <2>3
<1> QED  BY <1>1, <1>2 DEF Disable, Verified, PhaseOf, Promise!Drop

LEMMA SeenRequest ==
  ASSUME IInv, NEW r \in Requests, NEW o \in Obligations, NEW b \in Beneficiaries,
         Request(r, o, b)
  PROVE  Promise!Ask(r, o, b)
<1> DEFINE x == [status |-> "requested", obl |-> o, ben |-> b]
<1>1. /\ req[r].status = "none" /\ beneficiary[b] = "verified"
      /\ UNCHANGED <<beneficiary, transfer>>
  BY DEF Request
<1>2. \A q \in Requests : req'[q] = IF q = r THEN x ELSE req[q]
  BY DEF Request, IInv, TypeOK
<1>3. transfer[r] = "none"
  BY <1>1 DEF IInv, TransfersHaveRows, Underway, Followed
<1>4. x.status = "requested" /\ x.obl = o /\ x.ben = b
  OBVIOUS
<1>5. Said(x.status) = Said("none") /\ Phase(x.status, "none") = "asked"
  BY <1>4, PhaseOfTransfer DEF Said
<1> HIDE DEF x
<1>6. PhaseOf(r) = "none" /\ b \in Verified
  BY <1>1, PhaseOfNoRow DEF PhaseOf, Verified
<1>7. ASSUME NEW q \in Requests, req[q].obl = o
      PROVE  PhaseOf(q) \in Promise!Over
  <2>1. ~ Live(q)
    BY <1>7, RequestFindsOthersOver
  <2>2. CASE req[q].status \in {"none", "cancelled"}
    BY <2>2, PhaseOfNoRow DEF PhaseOf, Promise!Over
  <2>3. CASE req[q].status \notin {"none", "cancelled"}
    <3>1. transfer[q] \in {"failed", "reversed"}
      BY <2>1, <2>3 DEF Live
    <3>2. PhaseOf(q) \in {"failed", "reversed"}
      BY <2>3, <3>1, PhaseOfTransfer DEF PhaseOf
    <3> QED  BY <3>2 DEF Promise!Over
  <2> QED  BY <2>2, <2>3
<1>8. [q \in Requests |-> Phase(req'[q].status, transfer'[q])]
        = [[q \in Requests |-> PhaseOf(q)] EXCEPT ![r] = "asked"]
  BY <1>1, <1>2, <1>3, <1>4, <1>5 DEF PhaseOf
<1>9. /\ [q \in Requests |-> req'[q].obl] = [[q \in Requests |-> req[q].obl] EXCEPT ![r] = o]
      /\ [q \in Requests |-> req'[q].ben] = [[q \in Requests |-> req[q].ben] EXCEPT ![r] = b]
  BY <1>2, <1>4
<1>10. [q \in Requests |-> Said(req'[q].status)] = [q \in Requests |-> Said(req[q].status)]
  BY <1>1, <1>2, <1>5
<1> QED
  BY <1>1, <1>6, <1>7, <1>8, <1>9, <1>10 DEF Verified, PhaseOf, Promise!Ask

LEMMA SeenCancel ==
  ASSUME IInv, NEW r \in Requests, Cancel(r) PROVE Promise!CallOff(r)
<1>1. /\ req[r].status = "requested" /\ Move(r, "cancelled")
      /\ UNCHANGED <<beneficiary, transfer>>
  BY DEF Cancel
<1>2. transfer[r] = "none" /\ req[r] \in Rows
  BY <1>1, RowType DEF IInv, TransfersHaveRows, Underway, Followed
<1>3. \A q \in Requests :
        req'[q] = IF q = r THEN [req[q] EXCEPT !.status = "cancelled"] ELSE req[q]
  BY <1>1 DEF Move, IInv, TypeOK
<1>4. req'[r].status = "cancelled" /\ req'[r].obl = req[r].obl /\ req'[r].ben = req[r].ben
  BY <1>2, <1>3 DEF Rows
<1>5. Said("cancelled") = Said("requested")
  BY DEF Said
<1>6. SameRequests
  BY <1>1, <1>3, <1>4, <1>5 DEF SameRequests
<1>7. PhaseOf(r) = "asked"
  BY <1>1, <1>2, PhaseOfTransfer DEF PhaseOf
<1>8. \A q \in Requests :
        Phase(req'[q].status, transfer'[q]) = IF q = r THEN "called off" ELSE PhaseOf(q)
  BY <1>1, <1>3, <1>4, PhaseOfNoRow DEF PhaseOf
<1>9. Promise!Becomes(r, "called off")
  BY <1>1, <1>6, <1>8, SeenBecomes
<1> QED  BY <1>7, <1>9 DEF PhaseOf, Promise!CallOff

(* The transfer of a request moves to t, and the request with it. *)
LEMMA SeenTransfer ==
  ASSUME IInv, NEW r \in Requests, NEW t, NEW p,
         transfer' = [transfer EXCEPT ![r] = t], Phase(req[r].status, t) = p,
         UNCHANGED <<req, beneficiary>>
  PROVE  Promise!Becomes(r, p)
<1>1. \A q \in Requests :
        Phase(req'[q].status, transfer'[q]) = IF q = r THEN p ELSE PhaseOf(q)
  BY DEF IInv, TypeOK, PhaseOf
<1>2. SameRequests
  BY DEF SameRequests
<1> QED  BY <1>1, <1>2, SeenBecomes

LEMMA SeenSubmit ==
  ASSUME IInv, NEW s \in Sessions, Submit(s)
  PROVE  UNCHANGED Promise!vars \/ \E r \in Requests : Promise!Send(r)
<1>1. PICK r \in Requests : r = sess[s].req
  BY CallType DEF Submit, IInv, Calls
<1>2. req[r].status \in Underway /\ UNCHANGED <<req, beneficiary>>
  BY <1>1 DEF Submit, IInv, CallsAreTrue, Idle
<1>3. CASE transfer[r] # "none"
  <2>1. transfer' = transfer
    BY <1>1, <1>3 DEF Submit, IInv, TypeOK
  <2> QED  BY <1>2, <2>1, StillUnseen
<1>4. CASE transfer[r] = "none"
  <2>1. req[r].status \in {"processing", "disputed"}
    BY <1>2, <1>4 DEF IInv, StatusHasBeenTrue, TransfersHaveRows, Underway, Followed
  <2>2. beneficiary[req[r].ben] = "verified"
    BY <1>4, <2>1 DEF IInv, PayeeIsVerified, InFlight
  <2>3. req[r].ben \in Verified
    BY <2>1, <2>2, RowType DEF IInv, Rows, Verified
  <2>4. transfer' = [transfer EXCEPT ![r] = "pending"]
    BY <1>1, <1>4 DEF Submit
  <2>5. PhaseOf(r) = "asked" /\ Phase(req[r].status, "pending") = "sent"
    BY <1>4, <2>1, PhaseOfTransfer DEF PhaseOf
  <2>6. Promise!Becomes(r, "sent")
    BY <1>2, <2>4, <2>5, SeenTransfer
  <2> QED  BY <2>3, <2>5, <2>6 DEF PhaseOf, Verified, Promise!Send
<1> QED  BY <1>3, <1>4

LEMMA SeenProvider ==
  ASSUME IInv, NEW r \in Requests, SettleTransfer(r) \/ ReverseTransfer(r)
  PROVE  Promise!Settle(r) \/ Promise!Reverse(r)
<1>1. UNCHANGED <<req, beneficiary>> /\ transfer[r] \in {"pending", "success"}
  BY DEF SettleTransfer, ReverseTransfer
<1>2. req[r].status \notin {"none", "cancelled"}
  BY <1>1 DEF IInv, TransfersHaveRows, Underway, Followed
<1>3. CASE SettleTransfer(r)
  <2>1. PICK t \in {"success", "failed"} : transfer' = [transfer EXCEPT ![r] = t]
    BY <1>3 DEF SettleTransfer
  <2>2. PhaseOf(r) = "sent"
    BY <1>2, <1>3, PhaseOfTransfer DEF SettleTransfer, PhaseOf
  <2>3. Promise!Becomes(r, "paid") \/ Promise!Becomes(r, "failed")
    <3>1. CASE t = "success"
      BY <1>1, <1>2, <2>1, <3>1, PhaseOfTransfer, SeenTransfer
    <3>2. CASE t = "failed"
      BY <1>1, <1>2, <2>1, <3>2, PhaseOfTransfer, SeenTransfer
    <3> QED  BY <3>1, <3>2
  <2> QED  BY <2>2, <2>3 DEF PhaseOf, Promise!Settle
<1>4. CASE ReverseTransfer(r)
  <2>1. transfer' = [transfer EXCEPT ![r] = "reversed"]
    BY <1>4 DEF ReverseTransfer
  <2>2. PhaseOf(r) = "paid"
    BY <1>2, <1>4, PhaseOfTransfer DEF ReverseTransfer, PhaseOf
  <2>3. Promise!Becomes(r, "reversed")
    BY <1>1, <1>2, <2>1, PhaseOfTransfer, SeenTransfer
  <2> QED  BY <2>2, <2>3 DEF PhaseOf, Promise!Reverse
<1> QED  BY <1>3, <1>4

(***************************************************************************)
(* A report changes what is said, of several requests in a dispute, and    *)
(* what is said is true because it is in the state reached.                *)
(***************************************************************************)
LEMMA SeenReport ==
  ASSUME IInv, IInv', NEW r \in Requests, NEW e \in Reported(transfer[r]), Conclude(r, e),
         UNCHANGED <<beneficiary, transfer>>
  PROVE  Promise!Tell
<1> DEFINE moved(q) == /\ req[q].status \notin {"none", "cancelled"}
                       /\ req'[q].status \notin {"none", "cancelled"}
                       /\ req'[q].obl = req[q].obl /\ req'[q].ben = req[q].ben
<1>1. \A q \in Requests : req'[q] = req[q] \/ moved(q)
  <2>1. transfer[r] # "none" /\ e \in Reports
    BY DEF Reported, Reports
  <2>2. req[r] \in Rows /\ req[r].status \notin {"none", "cancelled"}
    BY <2>1, RowType DEF IInv, TransfersHaveRows, Underway, Followed
  <2>3. CASE UNCHANGED req
    BY <2>3
  <2>4. CASE Move(r, Outcome(e))
    <3>1. Outcome(e) \notin {"none", "cancelled"}
      BY <2>1 DEF Outcome, Reports
    <3>2. \A q \in Requests :
            req'[q] = IF q = r THEN [req[q] EXCEPT !.status = Outcome(e)] ELSE req[q]
      BY <2>4 DEF Move, IInv, TypeOK
    <3> QED  BY <2>2, <3>1, <3>2 DEF Rows
  <2>5. CASE req' = [q \in Requests |-> IF q = r \/ q \in Rivals(r)
                                        THEN [req[q] EXCEPT !.status = "disputed"]
                                        ELSE req[q]]
    <3>1. \A q \in Rivals(r) : req[q] \in Rows /\ req[q].status \notin {"none", "cancelled"}
      BY RowType DEF IInv, Rivals, Active
    <3> QED  BY <2>2, <2>5, <3>1 DEF Rows
  <2> QED  BY <2>3, <2>4, <2>5 DEF Conclude
<1>2. \A q \in Requests : Phase(req'[q].status, transfer'[q]) = PhaseOf(q)
  BY <1>1 DEF Phase, PhaseOf
<1>3. \A q \in Requests : req'[q].obl = req[q].obl /\ req'[q].ben = req[q].ben
  BY <1>1
<1> HIDE DEF moved
<1>4. \A q \in Requests : Said(req'[q].status) \in Promise!Truths(PhaseOf(q))
  <2> SUFFICES ASSUME NEW q \in Requests
               PROVE  Said(req'[q].status) \in Promise!Truths(PhaseOf(q))
    OBVIOUS
  <2>1. PhaseOf(q) = Phase(req'[q].status, transfer[q])
    BY <1>2
  <2>2. CASE req'[q].status = "paid"
    <3>1. transfer[q] \in {"success", "reversed"}
      BY <2>2 DEF IInv, StatusHasBeenTrue
    <3> QED  BY <2>1, <2>2, <3>1, PhaseOfTransfer DEF Said, Promise!Truths
  <2>3. CASE req'[q].status \in {"failed", "reversed"}
    <3>1. transfer[q] = req'[q].status
      BY <2>3 DEF IInv, StatusHasBeenTrue
    <3> QED  BY <2>1, <2>3, <3>1, PhaseOfTransfer DEF Said, Promise!Truths
  <2>4. CASE req'[q].status \notin {"paid", "failed", "reversed"}
    BY <2>4 DEF Said, Promise!Truths
  <2> QED  BY <2>2, <2>3, <2>4
<1> QED
  BY <1>2, <1>3, <1>4 DEF PhaseOf, Promise!Tell

--------------------------------------------------------------------------------
(***************************************************************************)
(* Every step of a request, a call, an operator or the provider is one of  *)
(* BankPromise or is not seen there: the others are over when a request is *)
(* made, the payee is verified when money goes, and what is said is true.  *)
(***************************************************************************)
LEMMA StepIsPromised == IInv /\ IInv' /\ [Next]_vars => [Promise!Next]_(Promise!vars)
<1> SUFFICES ASSUME IInv, IInv', [Next]_vars
             PROVE  Promise!Next \/ UNCHANGED Promise!vars
  OBVIOUS
<1>1. ASSUME NEW b \in Beneficiaries, Register(b) \/ Disable(b)
      PROVE  Promise!Next
  BY <1>1, SeenRegister, SeenDisable DEF Promise!Next
<1>2. ASSUME NEW r \in Requests, NEW o \in Obligations, NEW b \in Beneficiaries,
             Request(r, o, b)
      PROVE  Promise!Next
  BY <1>2, SeenRequest DEF Promise!Next
<1>3. ASSUME NEW r \in Requests, Cancel(r) PROVE Promise!Next
  BY <1>3, SeenCancel DEF Promise!Next
<1>4. ASSUME NEW r \in Requests, SettleTransfer(r) \/ ReverseTransfer(r)
      PROVE  Promise!Next
  BY <1>4, SeenProvider DEF Promise!Next
<1>5. ASSUME NEW s \in Sessions, Submit(s)
      PROVE  Promise!Next \/ UNCHANGED Promise!vars
  BY <1>5, SeenSubmit DEF Promise!Next
<1>6. ASSUME NEW r \in Requests, NEW e \in Reports, Webhook(r, e) PROVE Promise!Next
  <2>1. e \in Reported(transfer[r]) /\ Conclude(r, e) /\ UNCHANGED <<beneficiary, transfer>>
    BY <1>6 DEF Webhook
  <2> QED  BY <2>1, SeenReport DEF Promise!Next
<1>7. ASSUME NEW s \in Sessions, Apply(s) PROVE Promise!Next \/ UNCHANGED Promise!vars
  <2>1. sess[s].at = "polled" /\ UNCHANGED <<beneficiary, transfer>>
    BY <1>7 DEF Apply
  <2>2. sess[s].req \in Requests /\ sess[s].got \in Reported(transfer[sess[s].req])
    BY <2>1, CallType DEF IInv, CallsAreTrue, Calls
  <2>3. CASE Conclude(sess[s].req, sess[s].got)
    BY <2>1, <2>2, <2>3, SeenReport DEF Promise!Next
  <2>4. CASE UNCHANGED req
    BY <2>1, <2>4, StillUnseen
  <2> QED  BY <1>7, <2>3, <2>4 DEF Apply
<1>8. ASSUME NEW r \in Requests, Approve(r) PROVE UNCHANGED Promise!vars
  BY <1>8, ApproveUnseen
<1>9. ASSUME NEW s \in Sessions, NEW r \in Requests, Begin(s, r)
      PROVE  UNCHANGED Promise!vars
  BY <1>9, BeginUnseen
<1>10. ASSUME NEW s \in Sessions, Record(s) PROVE UNCHANGED Promise!vars
  BY <1>10, RecordUnseen
<1>11. CASE UNCHANGED <<req, beneficiary, transfer>>
  BY <1>11, StillUnseen
<1>12. ASSUME NEW o \in Obligations, RecordObligation(o)
       PROVE  UNCHANGED <<req, beneficiary, transfer>>
  BY <1>12 DEF RecordObligation
<1>13. ASSUME NEW r \in Requests, NEW s \in Sessions, Read(s, r)
       PROVE  UNCHANGED <<req, beneficiary, transfer>>
  BY <1>13 DEF Read
<1>14. ASSUME NEW r \in Requests, Resolve(r)
       PROVE  UNCHANGED <<req, beneficiary, transfer>>
  BY <1>14 DEF Resolve
<1>15. ASSUME NEW s \in Sessions, Poll(s) \/ Lose(s)
       PROVE  UNCHANGED <<req, beneficiary, transfer>>
  BY <1>15 DEF Poll, Lose
<1>16. CASE Midnight \/ UNCHANGED vars
  <2>1. UNCHANGED <<req, beneficiary, transfer>>
    BY <1>16 DEF Midnight, vars
  <2> QED  BY <1>11, <2>1
<1> QED
  BY <1>1, <1>2, <1>3, <1>4, <1>5, <1>6, <1>7, <1>8, <1>9, <1>10, <1>11, <1>12, <1>13, <1>14,
     <1>15, <1>16
  DEF Next

(***************************************************************************)
(* Whatever the order of submissions, reports, answers, disputes and       *)
(* releases, the routes and functions of bank payouts implement the        *)
(* promise, for any number of requests, obligations, payees and calls.     *)
(***************************************************************************)
THEOREM BankKeepsPromise == Spec => PromiseKept
<1>1. Init => Promise!Init
  <2> SUFFICES ASSUME Init PROVE Promise!Init
    OBVIOUS
  <2>1. \A r \in Requests : req[r] = NoRow
    BY DEF Init
  <2>2. /\ NoRow.status = "none" /\ NoRow.obl = None /\ NoRow.ben = None
        /\ \A t : Phase("none", t) = "none"
        /\ Said("none") = "nothing"
    BY PhaseOfNoRow DEF NoRow, Said
  <2>3. {b \in Beneficiaries : beneficiary[b] = "verified"} = {}
    BY DEF Init
  <2> QED  BY <2>1, <2>2, <2>3 DEF Promise!Init
<1> QED  BY <1>1, StepIsPromised, Invariance, PTL DEF Spec, PromiseKept, Promise!Spec
================================================================================
