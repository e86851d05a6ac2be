--------------------------- MODULE Membership_proofs ---------------------------
(***************************************************************************)
(* For any number of intents, purchases and invocations: a payment is      *)
(* granted its term once.  The event journal is what makes it so: it names *)
(* exactly the intents that were granted, whatever the row says by then,   *)
(* and no renewal between its check and its insertion is overtaken by      *)
(* another, because the user's lock admits one at a time.                  *)
(***************************************************************************)
EXTENDS Membership, FiniteSetTheorems, TLAPS

JournalIsGranted ==
  \A i \in Intents : terms[i] = IF i \in journal THEN 1 ELSE 0

RowIsJournalled == row.intent \in journal \cup {None}

Inserting(h) == sess[h].at = "insert"

InsertsNew ==
  \A h \in Handlers : Inserting(h) => sess[h].id \in Intents \ journal

OneInserts ==
  \A h, g \in Handlers : Inserting(h) /\ Inserting(g) => h = g

IdsFit ==
  \A h \in Handlers :
    /\ sess[h].at \in {"renew", "insert", "confirm"} => sess[h].id \in Intents
    /\ sess[h].at = "buy" => sess[h].id \in Refs

IInv == TypeOK /\ JournalIsGranted /\ RowIsJournalled /\ InsertsNew /\ OneInserts /\ IdsFit

(* The type of an invocation. *)
Invocation ==
  [at : {"idle", "renew", "list", "insert", "confirm", "buy"},
   op : {"none", "grant", "status", "expired"},
   id : Intents \cup Refs \cup {None}, time : Nat, ans : {"none", "unavailable"}]

Rows == [tier : {"none", "free", "vip", "vvip"}, until : Nat,
         intent : Intents \cup {None}, ref : Intents \cup Refs \cup {None}]

(* The type invariant, one variable at a time. *)
LEMMA TypeFromParts ==
  ASSUME row' \in Rows, sess' \in [Handlers -> Invocation], debits' \subseteq Refs,
         now' \in 0..MaxTime, journal' \subseteq Intents, completed' \in Seq(Intents),
         fulfilled' \subseteq Intents, terms' \in [Intents -> Nat]
  PROVE  TypeOK'
  BY DEF TypeOK, Rows, Invocation

(* Nothing is granted at first. *)
LEMMA InitIInv == Init => IInv
  BY TermAssumption
  DEF Init, IInv, TypeOK, JournalIsGranted, RowIsJournalled, InsertsNew, OneInserts,
      IdsFit, Inserting, NoRow, Idle

(***************************************************************************)
(* A step of one invocation that changes neither row, journal nor terms,   *)
(* and does not bring it to the insertion.                                 *)
(***************************************************************************)
LEMMA OneInvocationMoves ==
  ASSUME IInv, NEW h \in Handlers, NEW x \in Invocation,
         sess' = [sess EXCEPT ![h] = x],
         x.at # "insert",
         x.at \in {"renew", "confirm"} => x.id \in Intents,
         x.at = "buy" => x.id \in Refs,
         now' \in 0..MaxTime, fulfilled' \subseteq Intents, completed' \in Seq(Intents),
         debits' \subseteq Refs, UNCHANGED <<row, journal, terms>>
  PROVE  IInv'
<1>1. TypeOK'
  BY DEF IInv, TypeOK, Invocation
<1>2. \A g \in Handlers : sess'[g] = IF g = h THEN x ELSE sess[g]
  BY DEF IInv, TypeOK
<1>3. JournalIsGranted' /\ RowIsJournalled'
  BY DEF IInv, JournalIsGranted, RowIsJournalled
<1>4. InsertsNew' /\ OneInserts' /\ IdsFit'
  BY <1>2 DEF IInv, InsertsNew, OneInserts, IdsFit, Inserting
<1> QED  BY <1>1, <1>3, <1>4 DEF IInv

(***************************************************************************)
(* The row is rewritten with the intent it has: the event that the trigger *)
(* writes names an intent that is in the journal already.                  *)
(***************************************************************************)
LEMMA RowKeepsIntent ==
  ASSUME IInv, NEW e \in Rows, e.intent = row.intent, row' = e, Journal(e),
         terms' = terms, completed' = completed, fulfilled' = fulfilled,
         now' = now, debits' \subseteq Refs,
         sess' = sess \/ \E h \in Handlers : sess' = [sess EXCEPT ![h] = Idle]
  PROVE  IInv'
<1>1. journal' = journal
  BY DEF IInv, RowIsJournalled, Journal
<1>2. Idle \in Invocation
  BY DEF Idle, Invocation
<1>3. TypeOK'
  <2>1. sess \in [Handlers -> Invocation]
    BY DEF IInv, TypeOK, Invocation
  <2>2. sess' \in [Handlers -> Invocation]
    BY <1>2, <2>1
  <2>3. row' \in Rows /\ debits' \subseteq Refs
    OBVIOUS
  <2>4. /\ now' \in 0..MaxTime /\ journal' \subseteq Intents /\ completed' \in Seq(Intents)
        /\ fulfilled' \subseteq Intents /\ terms' \in [Intents -> Nat]
    BY <1>1 DEF IInv, TypeOK
  <2> QED  BY <2>2, <2>3, <2>4, TypeFromParts
<1>4. JournalIsGranted' /\ RowIsJournalled'
  BY <1>1 DEF IInv, JournalIsGranted, RowIsJournalled
<1>5. \A g \in Handlers : sess'[g] = sess[g] \/ sess'[g] = Idle
  BY DEF IInv, TypeOK
<1>6. InsertsNew' /\ OneInserts' /\ IdsFit'
  BY <1>1, <1>5 DEF IInv, InsertsNew, OneInserts, IdsFit, Inserting, Idle
<1> QED  BY <1>3, <1>4, <1>6 DEF IInv

(* A term is put on the row for an intent that the journal does not know. *)
LEMMA TermIsPut ==
  ASSUME IInv, NEW h \in Handlers, NEW i \in Intents \ journal, NEW e \in Rows,
         Put(i, e), Go(h, "confirm"), sess[h].id = i,
         \A g \in Handlers \ {h} : ~ Inserting(g),
         UNCHANGED <<now, completed, fulfilled, debits>>
  PROVE  IInv'
<1>1. Begins(e) \in Nat
  BY DEF Begins, Rows, IInv, TypeOK
<1>2. Tier[i] \in {"vip", "vvip"} /\ Term[i] \in Nat /\ i # None
  BY TermAssumption
<1>3. row' \in Rows /\ row'.intent = i
  BY <1>1, <1>2 DEF Put, Renewed, Rows
<1>4. journal' = journal \cup {i}
  BY <1>2, <1>3 DEF Put, Journal
<1>5. terms' = [terms EXCEPT ![i] = @ + 1]
  BY DEF Put
<1>6. \A g \in Handlers :
        sess'[g] = IF g = h THEN [sess[g] EXCEPT !.at = "confirm"] ELSE sess[g]
  BY DEF Go, IInv, TypeOK
<1>7. \A g \in Handlers : sess[g] \in Invocation
  BY DEF IInv, TypeOK, Invocation
<1>8. \A g \in Handlers : sess'[g] \in Invocation
  <2>1. [sess[h] EXCEPT !.at = "confirm"] \in Invocation
    BY <1>7 DEF Invocation
  <2> QED  BY <1>6, <1>7, <2>1
<1>9. TypeOK'
  <2>1. sess' \in [Handlers -> Invocation]
    BY <1>8 DEF Go, IInv, TypeOK
  <2>2. terms' \in [Intents -> Nat]
    BY <1>5 DEF IInv, TypeOK
  <2> QED  BY <1>3, <1>4, <2>1, <2>2 DEF IInv, TypeOK, Rows, Invocation
<1>10. JournalIsGranted' /\ RowIsJournalled'
  BY <1>3, <1>4, <1>5 DEF IInv, JournalIsGranted, RowIsJournalled, TypeOK
<1>11. \A g \in Handlers : ~ sess'[g].at = "insert"
  BY <1>6, <1>7 DEF Inserting, Invocation
<1>12. InsertsNew' /\ OneInserts'
  BY <1>11 DEF InsertsNew, OneInserts, Inserting
<1>13. IdsFit'
  <2> DEFINE x == [sess[h] EXCEPT !.at = "confirm"]
  <2>1. x.at = "confirm" /\ x.id \in Intents
    BY <1>7 DEF Invocation
  <2>2. \A g \in Handlers : sess'[g] = IF g = h THEN x ELSE sess[g]
    BY <1>6
  <2> HIDE DEF x
  <2> QED  BY <2>1, <2>2 DEF IdsFit, IInv
<1> QED  BY <1>9, <1>10, <1>12, <1>13 DEF IInv

LEMMA CompleteKeeps == ASSUME IInv, NEW i \in Intents, Complete(i) PROVE IInv'
<1>1. completed' \in Seq(Intents)
  BY DEF Complete, IInv, TypeOK
<1> QED
  BY <1>1 DEF Complete, IInv, TypeOK, JournalIsGranted, RowIsJournalled, InsertsNew,
              OneInserts, IdsFit, Inserting

LEMMA GrantKeeps ==
  ASSUME IInv, NEW h \in Handlers, NEW i \in Intents,
         Grant(h, i) \/ Fulfill(h, i) \/ Activate(h, i)
  PROVE  IInv'
<1> DEFINE x == [Idle EXCEPT !.at = "renew", !.op = "grant", !.id = i]
<1>1. x \in Invocation /\ x.at = "renew" /\ x.id = i
  BY DEF Invocation, Idle
<1>2. sess' = [sess EXCEPT ![h] = x]
  BY DEF Grant, Fulfill, Activate, Start
<1>3. /\ fulfilled' \subseteq Intents
      /\ now' \in 0..MaxTime /\ completed' \in Seq(Intents) /\ debits' \subseteq Refs
      /\ UNCHANGED <<row, journal, terms>>
  BY DEF Grant, Fulfill, Activate, IInv, TypeOK
<1> HIDE DEF x
<1> QED  BY <1>1, <1>2, <1>3, OneInvocationMoves

LEMMA BuyKeeps == ASSUME IInv, NEW h \in Handlers, NEW k \in Refs, Buy(h, k) PROVE IInv'
<1> DEFINE x == [Idle EXCEPT !.at = "buy", !.id = k, !.time = now]
<1>1. x \in Invocation /\ x.at = "buy" /\ x.id = k
  <2>1. now \in Nat
    BY TermAssumption DEF IInv, TypeOK
  <2> QED  BY <2>1 DEF Invocation, Idle
<1>2. sess' = [sess EXCEPT ![h] = x]
  BY DEF Buy
<1>3. /\ now' \in 0..MaxTime /\ completed' \in Seq(Intents) /\ debits' \subseteq Refs
      /\ fulfilled' \subseteq Intents /\ UNCHANGED <<row, journal, terms>>
  BY DEF Buy, IInv, TypeOK
<1> HIDE DEF x
<1> QED  BY <1>1, <1>2, <1>3, OneInvocationMoves

(* The steps of an invocation that only read, and its end. *)
LEMMA ReadsKeep ==
  ASSUME IInv, NEW h \in Handlers,
         Status(h) \/ List(h) \/ Confirm(h) \/ Stop(h)
  PROVE  IInv'
<1>1. /\ now' \in 0..MaxTime /\ completed' \in Seq(Intents) /\ debits' \subseteq Refs
      /\ fulfilled' \subseteq Intents /\ UNCHANGED <<row, journal, terms>>
  BY DEF Status, List, Confirm, Stop, IInv, TypeOK
<1>2. sess[h] \in Invocation
  BY DEF IInv, TypeOK, Invocation
<1>3. \E x \in Invocation :
        /\ sess' = [sess EXCEPT ![h] = x]
        /\ x.at \in {"idle", "list"} \/ (x.at = "renew" /\ x.id \in Intents)
  <2>1. CASE \E a \in {"none", "unavailable"} : sess' = [sess EXCEPT ![h] = [Idle EXCEPT !.ans = a]]
    <3>1. PICK a \in {"none", "unavailable"} : sess' = [sess EXCEPT ![h] = [Idle EXCEPT !.ans = a]]
      BY <2>1
    <3>2. [Idle EXCEPT !.ans = a] \in Invocation /\ [Idle EXCEPT !.ans = a].at = "idle"
      BY DEF Invocation, Idle
    <3> QED  BY <3>1, <3>2
  <2>2. CASE \E o \in {"status", "expired"} :
               sess' = [sess EXCEPT ![h] = [Idle EXCEPT !.at = "list", !.op = o, !.id = None]]
    <3>1. PICK o \in {"status", "expired"} :
            sess' = [sess EXCEPT ![h] = [Idle EXCEPT !.at = "list", !.op = o, !.id = None]]
      BY <2>2
    <3>2. /\ [Idle EXCEPT !.at = "list", !.op = o, !.id = None] \in Invocation
          /\ [Idle EXCEPT !.at = "list", !.op = o, !.id = None].at = "list"
      BY DEF Invocation, Idle
    <3> QED  BY <3>1, <3>2
  <2>3. CASE completed # <<>> /\ sess' = [sess EXCEPT ![h].at = "renew", ![h].id = completed[Len(completed)]]
    <3> DEFINE x == [sess[h] EXCEPT !.at = "renew", !.id = completed[Len(completed)]]
    <3>1. completed[Len(completed)] \in Intents
      BY <2>3 DEF IInv, TypeOK
    <3>2. x \in Invocation /\ x.at = "renew" /\ x.id \in Intents
      BY <1>2, <3>1 DEF Invocation
    <3>3. sess' = [sess EXCEPT ![h] = x]
      BY <2>3 DEF IInv, TypeOK
    <3> HIDE DEF x
    <3> QED  BY <3>2, <3>3
  <2>4. CASE sess' = [sess EXCEPT ![h] = Idle]
    <3>1. Idle \in Invocation /\ Idle.at = "idle"
      BY DEF Invocation, Idle
    <3> QED  BY <2>4, <3>1
  <2> QED
    BY <2>1, <2>2, <2>3, <2>4 DEF Status, List, Confirm, Stop, Say, Start
<1>4. PICK x \in Invocation :
        /\ sess' = [sess EXCEPT ![h] = x]
        /\ x.at \in {"idle", "list"} \/ (x.at = "renew" /\ x.id \in Intents)
  BY <1>3
<1> QED  BY <1>1, <1>4, OneInvocationMoves

LEMMA RenewKeeps == ASSUME IInv, NEW h \in Handlers, Renew(h) PROVE IInv'
<1> DEFINE i == sess[h].id
<1>1. i \in Intents /\ sess[h] \in Invocation
  BY DEF Renew, IInv, IdsFit, TypeOK, Invocation
<1>2. \A g \in Handlers : ~ Inserting(g)
  BY DEF Renew, Unlocked, Inserting
<1>3. CASE Duplicate(i)
  <2>1. Go(h, "confirm") /\ UNCHANGED <<row, journal, terms, now, completed, fulfilled, debits>>
    BY <1>3 DEF Renew
  <2> DEFINE x == [sess[h] EXCEPT !.at = "confirm"]
  <2>2. x \in Invocation /\ x.at = "confirm" /\ x.id \in Intents
    BY <1>1 DEF Invocation
  <2>3. sess' = [sess EXCEPT ![h] = x]
    BY <2>1 DEF Go, IInv, TypeOK
  <2> HIDE DEF x
  <2> QED  BY <2>1, <2>2, <2>3, OneInvocationMoves DEF IInv, TypeOK
<1>4. CASE ~ Duplicate(i) /\ row # NoRow
  <2>1. row \in Rows /\ i \notin journal
    BY <1>4 DEF IInv, TypeOK, Rows, Duplicate
  <2>2. Put(i, row) /\ Go(h, "confirm") /\ UNCHANGED <<now, completed, fulfilled, debits>>
    BY <1>4 DEF Renew
  <2> QED  BY <1>1, <1>2, <2>1, <2>2, TermIsPut
<1>5. CASE ~ Duplicate(i) /\ row = NoRow
  <2>1. /\ Go(h, "insert") /\ i \notin journal
        /\ UNCHANGED <<row, journal, terms, now, completed, fulfilled, debits>>
    BY <1>5 DEF Renew, Duplicate
  <2>2. \A g \in Handlers :
          sess'[g] = IF g = h THEN [sess[g] EXCEPT !.at = "insert"] ELSE sess[g]
    BY <2>1 DEF Go, IInv, TypeOK
  <2>3. \A g \in Handlers : sess[g] \in Invocation
    BY DEF IInv, TypeOK, Invocation
  <2>4. \A g \in Handlers : sess'[g] \in Invocation
    <3> DEFINE x == [sess[h] EXCEPT !.at = "insert"]
    <3>1. x \in Invocation
      BY <2>3 DEF Invocation
    <3>2. \A g \in Handlers : sess'[g] = IF g = h THEN x ELSE sess[g]
      BY <2>2
    <3> HIDE DEF x
    <3> QED  BY <3>1, <3>2, <2>3
  <2>5. TypeOK'
    <3>1. sess' \in [Handlers -> Invocation]
      BY <2>1, <2>4 DEF Go, IInv, TypeOK
    <3>2. /\ now' \in 0..MaxTime /\ journal' \subseteq Intents /\ completed' \in Seq(Intents)
          /\ fulfilled' \subseteq Intents /\ debits' \subseteq Refs /\ terms' \in [Intents -> Nat]
      BY <2>1 DEF IInv, TypeOK
    <3>3. row' \in Rows
      BY <2>1 DEF IInv, TypeOK, Rows
    <3> QED  BY <3>1, <3>2, <3>3 DEF TypeOK, Rows, Invocation
  <2>6. JournalIsGranted' /\ RowIsJournalled'
    BY <2>1 DEF IInv, JournalIsGranted, RowIsJournalled
  <2>7. sess'[h].id = i /\ \A g \in Handlers : (sess'[g].at = "insert" => g = h)
    BY <1>2, <2>2, <2>3 DEF Inserting, Invocation
  <2>8. InsertsNew' /\ OneInserts'
    BY <1>1, <2>1, <2>7 DEF InsertsNew, OneInserts, Inserting
  <2>9. IdsFit'
    <3> DEFINE x == [sess[h] EXCEPT !.at = "insert"]
    <3>1. x.at = "insert" /\ x.id \in Intents
      BY <1>1, <2>3 DEF Invocation
    <3>2. \A g \in Handlers : sess'[g] = IF g = h THEN x ELSE sess[g]
      BY <2>2
    <3> HIDE DEF x
    <3> QED  BY <3>1, <3>2 DEF IdsFit, IInv
  <2> QED  BY <2>5, <2>6, <2>8, <2>9 DEF IInv
<1> QED  BY <1>3, <1>4, <1>5

LEMMA InsertKeeps == ASSUME IInv, NEW h \in Handlers, Insert(h) PROVE IInv'
<1>1. Inserting(h) /\ sess[h].id \in Intents \ journal
  BY DEF Insert, Inserting, IInv, InsertsNew
<1>2. \A g \in Handlers \ {h} : ~ Inserting(g)
  BY <1>1 DEF IInv, OneInserts
<1>3. NoRow \in Rows
  BY DEF NoRow, Rows
<1>4. /\ Put(sess[h].id, NoRow) /\ Go(h, "confirm")
      /\ UNCHANGED <<now, completed, fulfilled, debits>>
  BY DEF Insert
<1> QED  BY <1>1, <1>2, <1>3, <1>4, TermIsPut

LEMMA PurchaseKeeps == ASSUME IInv, NEW h \in Handlers, Purchase(h) PROVE IInv'
<1> DEFINE k == sess[h].id
           e == Bought(k, sess[h].time + Term[k])
<1>1. k \in Refs /\ sess[h].time \in Nat /\ Tier[k] \in {"vip", "vvip"} /\ Term[k] \in Nat
  BY TermAssumption DEF Purchase, IInv, IdsFit, TypeOK
<1>2. e \in Rows /\ e.intent = row.intent
  BY <1>1 DEF Bought, Rows, IInv, TypeOK
<1>3. sess' = [sess EXCEPT ![h] = Idle]
  <2>1. [Idle EXCEPT !.ans = "none"] = Idle
    BY DEF Idle
  <2> QED  BY <2>1 DEF Purchase, Say
<1>4. CASE row' = e /\ Journal(row') /\ debits' = debits \cup {k}
  <2>1. debits' \subseteq Refs
    BY <1>1, <1>4 DEF IInv, TypeOK
  <2> HIDE DEF e
  <2> QED  BY <1>2, <1>3, <1>4, <2>1, RowKeepsIntent DEF Purchase
<1>5. CASE UNCHANGED <<row, journal, debits>>
  <2>1. Idle \in Invocation /\ Idle.at = "idle"
    BY DEF Idle, Invocation
  <2> QED
    BY <1>3, <1>5, <2>1, OneInvocationMoves DEF Purchase, IInv, TypeOK
<1> QED  BY <1>4, <1>5 DEF Purchase

LEMMA CompleteOrphanKeeps == ASSUME IInv, NEW k \in Refs, CompleteOrphan(k) PROVE IInv'
<1> DEFINE e == Bought(k, now + Term[k])
<1>1. e \in Rows /\ e.intent = row.intent
  BY TermAssumption DEF Bought, Rows, IInv, TypeOK
<1>2. /\ row' = e /\ Journal(e) /\ UNCHANGED <<now, completed, fulfilled, debits, terms, sess>>
  BY DEF CompleteOrphan
<1>3. debits' \subseteq Refs
  BY <1>2 DEF IInv, TypeOK
<1> HIDE DEF e
<1> QED  BY <1>1, <1>2, <1>3, RowKeepsIntent

LEMMA ExpireDueKeeps == ASSUME IInv, ExpireDue PROVE IInv'
<1> DEFINE e == [row EXCEPT !.tier = "free"]
<1>1. e \in Rows /\ e.intent = row.intent
  BY DEF Rows, IInv, TypeOK
<1>2. /\ row' = e /\ Journal(e) /\ UNCHANGED <<now, completed, fulfilled, debits, terms, sess>>
  BY DEF ExpireDue
<1>3. debits' \subseteq Refs
  BY <1>2 DEF IInv, TypeOK
<1> HIDE DEF e
<1> QED  BY <1>1, <1>2, <1>3, RowKeepsIntent

LEMMA TickKeeps == ASSUME IInv, Tick PROVE IInv'
<1>1. now' \in 0..MaxTime
  BY TermAssumption DEF Tick, IInv, TypeOK
<1> QED
  BY <1>1 DEF Tick, IInv, TypeOK, JournalIsGranted, RowIsJournalled, InsertsNew,
              OneInserts, IdsFit, Inserting

LEMMA StutterKeeps == ASSUME IInv, UNCHANGED vars PROVE IInv'
  BY DEF vars, IInv, TypeOK, JournalIsGranted, RowIsJournalled, InsertsNew,
         OneInserts, IdsFit, Inserting

LEMMA NextIInv == IInv /\ [Next]_vars => IInv'
<1> SUFFICES ASSUME IInv, [Next]_vars PROVE IInv'
  OBVIOUS
<1>1. ASSUME NEW i \in Intents, Complete(i) PROVE IInv'
  BY <1>1, CompleteKeeps
<1>2. ASSUME NEW h \in Handlers, NEW i \in Intents,
             Grant(h, i) \/ Fulfill(h, i) \/ Activate(h, i)
      PROVE  IInv'
  BY <1>2, GrantKeeps
<1>3. ASSUME NEW h \in Handlers, NEW k \in Refs, Buy(h, k) PROVE IInv'
  BY <1>3, BuyKeeps
<1>4. ASSUME NEW h \in Handlers, Status(h) \/ List(h) \/ Confirm(h) \/ Stop(h) PROVE IInv'
  BY <1>4, ReadsKeep
<1>5. ASSUME NEW h \in Handlers, Renew(h) PROVE IInv'
  BY <1>5, RenewKeeps
<1>6. ASSUME NEW h \in Handlers, Insert(h) PROVE IInv'
  BY <1>6, InsertKeeps
<1>7. ASSUME NEW h \in Handlers, Purchase(h) PROVE IInv'
  BY <1>7, PurchaseKeeps
<1>8. ASSUME NEW k \in Refs, CompleteOrphan(k) PROVE IInv'
  BY <1>8, CompleteOrphanKeeps
<1>9. CASE ExpireDue
  BY <1>9, ExpireDueKeeps
<1>10. CASE Tick
  BY <1>10, TickKeeps
<1>11. CASE UNCHANGED vars
  BY <1>11, StutterKeeps
<1> QED
  BY <1>1, <1>2, <1>3, <1>4, <1>5, <1>6, <1>7, <1>8, <1>9, <1>10, <1>11 DEF Next

LEMMA Invariance == Spec => []IInv
  BY InitIInv, NextIInv, PTL DEF Spec

(* Every variable of the membership has its type, in every instance. *)
THEOREM TypeCorrect == Spec => []TypeOK
<1>1. IInv => TypeOK
  BY DEF IInv
<1> QED  BY <1>1, Invariance, PTL

(***************************************************************************)
(* However many routes grant a payment, and whatever is bought, renewed or *)
(* expires in between, its term is granted once.                           *)
(***************************************************************************)
THEOREM TermGrantedOnce == Spec => []OneTermPerIntent
<1>1. IInv => OneTermPerIntent
  BY DEF IInv, JournalIsGranted, OneTermPerIntent
<1> QED  BY <1>1, Invariance, PTL

(***************************************************************************)
(* What the journal names has been granted, and nothing else: a renewal    *)
(* that finds its intent there may answer duplicate and be right.          *)
(***************************************************************************)
THEOREM JournalIsTrue == Spec => []JournalIsGranted
<1>1. IInv => JournalIsGranted
  BY DEF IInv
<1> QED  BY <1>1, Invariance, PTL

--------------------------------------------------------------------------------
(* Totals (see Totals): the facts this module needs of them. *)

(* The units of a row are as many as its amount, or none. *)
LEMMA RowUnits ==
  ASSUME NEW x, NEW n \in Int
  PROVE  /\ IsFiniteSet({x} \X (1..n))
         /\ Cardinality({x} \X (1..n)) = IF n > 0 THEN n ELSE 0
<1>1. IsFiniteSet({x}) /\ Cardinality({x}) = 1
  BY FS_Singleton
<1>2. IsFiniteSet(1..n) /\ Cardinality(1..n) = IF n > 0 THEN n ELSE 0
  BY FS_Interval
<1>3. /\ IsFiniteSet({x} \X (1..n))
      /\ Cardinality({x} \X (1..n)) = Cardinality({x}) * Cardinality(1..n)
  BY <1>1, <1>2, FS_Product
<1> QED
  BY <1>1, <1>2, <1>3

(* Finitely many rows have finitely many units. *)
LEMMA UnitsFinite ==
  ASSUME NEW S, IsFiniteSet(S), NEW f \in [S -> Int]
  PROVE  IsFiniteSet(Units(f))
<1> DEFINE cells == {{x} \X (1..f[x]) : x \in S}
           F     == [x \in S |-> {x} \X (1..f[x])]
<1>1. F \in Surjection(S, cells)
  BY DEF Surjection
<1>2. IsFiniteSet(cells)
  BY <1>1, FS_Surjection
<1>3. \A x \in S : f[x] \in Int
  OBVIOUS
<1>4. \A x \in S : IsFiniteSet({x} \X (1..f[x]))
  BY <1>3, RowUnits
<1>5. \A T \in cells : IsFiniteSet(T)
  BY <1>4
<1> QED
  BY <1>2, <1>5, FS_UNION DEF Units

(* One row more: as many units more as it has. *)
LEMMA UnitsAdd ==
  ASSUME NEW S, IsFiniteSet(S), NEW x, x \notin S,
         NEW f \in [S -> Int], NEW g \in [S \cup {x} -> Int], \A y \in S : f[y] = g[y]
  PROVE  /\ Cardinality(Units(f)) \in Nat
         /\ Cardinality(Units(g)) = Cardinality(Units(f)) + (IF g[x] > 0 THEN g[x] ELSE 0)
<1>1. IsFiniteSet(Units(f))
  BY UnitsFinite
<1>2. Units(g) = Units(f) \cup ({x} \X (1..g[x]))
  BY DEF Units
<1>3. Units(f) \cap ({x} \X (1..g[x])) = {}
  BY DEF Units
<1>4. /\ IsFiniteSet({x} \X (1..g[x]))
      /\ Cardinality({x} \X (1..g[x])) = IF g[x] > 0 THEN g[x] ELSE 0
  BY RowUnits
<1>5. Cardinality(Units(f)) \in Nat
  BY <1>1, FS_CardinalityType
<1>6. Cardinality(Units(g)) =
        Cardinality(Units(f)) + Cardinality({x} \X (1..g[x])) - Cardinality({})
  BY <1>1, <1>2, <1>3, <1>4, FS_Union
<1> QED
  BY <1>4, <1>5, <1>6, FS_EmptySet

(* Where there is nothing to add, the total is zero. *)
LEMMA TotalNothing == ASSUME NEW f, \A x \in DOMAIN f : f[x] = 0 PROVE Total(f) = 0
<1>1. Units(f) = {} /\ Units([x \in DOMAIN f |-> -f[x]]) = {}
  BY DEF Units
<1> QED
  BY <1>1, FS_EmptySet DEF Total

(* A row more adds its amount, whatever its sign. *)
LEMMA TotalAdd ==
  ASSUME NEW S, IsFiniteSet(S), NEW x, x \notin S,
         NEW f \in [S -> Int], NEW g \in [S \cup {x} -> Int], \A y \in S : f[y] = g[y]
  PROVE  Total(f) \in Int /\ Total(g) = Total(f) + g[x]
<1>1. Cardinality(Units(f)) \in Nat
  BY UnitsAdd
<1>2. Cardinality(Units(g)) = Cardinality(Units(f)) + (IF g[x] > 0 THEN g[x] ELSE 0)
  BY UnitsAdd
<1> DEFINE m == [y \in S |-> -f[y]]
           n == [y \in S \cup {x} |-> -g[y]]
<1>3. m \in [S -> Int] /\ n \in [S \cup {x} -> Int] /\ n[x] = -g[x] /\ \A y \in S : m[y] = n[y]
  OBVIOUS
<1>4. /\ Cardinality(Units(m)) \in Nat
      /\ Cardinality(Units(n)) = Cardinality(Units(m)) + (IF n[x] > 0 THEN n[x] ELSE 0)
  BY <1>3, UnitsAdd
<1>5. /\ Total(f) = Cardinality(Units(f)) - Cardinality(Units(m))
      /\ Total(g) = Cardinality(Units(g)) - Cardinality(Units(n))
  BY DEF Total
<1>6. g[x] \in Int
  OBVIOUS
<1> HIDE DEF m, n
<1> QED
  BY <1>1, <1>2, <1>3, <1>4, <1>5, <1>6

(* The terms of a set of payments. *)
TermsOf(S) == Total([x \in S |-> Term[x]])

(* A term is as long as it is, and one more payment adds its term. *)
LEMMA TermsAdd ==
  ASSUME NEW S \in SUBSET (Intents \cup Refs), IsFiniteSet(S),
         NEW x \in (Intents \cup Refs) \ S
  PROVE  TermsOf(S \cup {x}) = TermsOf(S) + Term[x]
<1> DEFINE f == [y \in S |-> Term[y]]
           g == [y \in S \cup {x} |-> Term[y]]
<1>1. f \in [S -> Int] /\ g \in [S \cup {x} -> Int] /\ \A y \in S : f[y] = g[y]
  BY TermAssumption
<1>2. g[x] = Term[x]
  OBVIOUS
<1> HIDE DEF f, g
<1>3. Total(g) = Total(f) + g[x]
  BY <1>1, TotalAdd
<1> QED  BY <1>2, <1>3 DEF TermsOf, f, g

(* Of two sets of payments the larger has the more terms. *)
LEMMA TermsGrow ==
  ASSUME NEW T \in SUBSET (Intents \cup Refs), IsFiniteSet(T), NEW S \in SUBSET T
  PROVE  TermsOf(S) \in Nat /\ TermsOf(T) \in Nat /\ TermsOf(S) <= TermsOf(T)
<1> DEFINE f == [y \in S |-> Term[y]]
           g == [y \in T |-> Term[y]]
<1>1. f \in [S -> Nat] /\ g \in [T -> Nat] /\ \A y \in S : f[y] = g[y]
  BY TermAssumption
<1>2. f \in [S -> Int] /\ g \in [T -> Int] /\ IsFiniteSet(S)
  BY <1>1, FS_Subset
<1>3. Units([y \in DOMAIN f |-> -f[y]]) = {} /\ Units([y \in DOMAIN g |-> -g[y]]) = {}
  BY <1>1 DEF Units
<1>4. Units(f) \in SUBSET Units(g)
  BY <1>1 DEF Units
<1> HIDE DEF f, g
<1>5. IsFiniteSet(Units(f)) /\ IsFiniteSet(Units(g))
  BY <1>2, UnitsFinite
<1>6. /\ Cardinality(Units(f)) \in Nat /\ Cardinality(Units(g)) \in Nat
      /\ Cardinality(Units(f)) <= Cardinality(Units(g))
  BY <1>4, <1>5, FS_CardinalityType, FS_Subset
<1>7. Total(f) = Cardinality(Units(f)) /\ Total(g) = Cardinality(Units(g))
  <2>1. Cardinality({}) = 0
    BY FS_EmptySet
  <2> QED  BY <1>3, <1>6, <2>1 DEF Total
<1> QED  BY <1>6, <1>7 DEF TermsOf, f, g

(* No payment, no term; each payment of a set is among its terms. *)
LEMMA TermsOfOne ==
  ASSUME NEW T \in SUBSET (Intents \cup Refs), IsFiniteSet(T)
  PROVE  /\ TermsOf({}) = 0
         /\ \A x \in T : TermsOf({x}) = Term[x] /\ Term[x] <= TermsOf(T)
<1>1. TermsOf({}) = 0
  BY TotalNothing DEF TermsOf
<1>2. ASSUME NEW x \in T PROVE TermsOf({x}) = Term[x] /\ Term[x] <= TermsOf(T)
  <2>1. {} \cup {x} = {x} /\ {x} \in SUBSET T
    OBVIOUS
  <2>2. TermsOf({} \cup {x}) = TermsOf({}) + Term[x]
    BY FS_EmptySet, TermsAdd
  <2>3. TermsOf({x}) <= TermsOf(T)
    BY <2>1, TermsGrow
  <2>4. Term[x] \in Nat
    BY TermAssumption
  <2> QED  BY <1>1, <2>1, <2>2, <2>3, <2>4
<1> QED  BY <1>1, <1>2

--------------------------------------------------------------------------------
(***************************************************************************)
(* What the row's date is made of.  Only completed payments are renewed by,*)
(* a purchase was computed before it is written, a membership that is not  *)
(* one any more has its date behind it, and until there is a row nothing   *)
(* was granted; as long as nothing was bought with GHC, a renewal that saw *)
(* no row inserts the first.                                               *)
(***************************************************************************)
Honest(h) ==
  /\ sess[h].at \in {"renew", "insert"} => IsCompleted(sess[h].id)
  /\ sess[h].at = "buy" => sess[h].time <= now

CompletedFirst ==
  /\ \A i \in journal : IsCompleted(i)
  /\ \A h \in Handlers : Honest(h)

LapsedIsPast == row.tier \notin {"vip", "vvip"} => row.until <= now

NoRowYet ==
  /\ row = NoRow => journal = {}
  /\ debits = {} /\ (\E h \in Handlers : Inserting(h)) => row = NoRow

NothingMadeUp == row.until <= now + TermsOf(journal \cup debits)

NothingLost == debits = {} => row.until >= TermsOf(journal)

TermInv ==
  /\ IsFiniteSet(Paid) /\ CompletedFirst /\ LapsedIsPast /\ NoRowYet
  /\ NothingMadeUp /\ NothingLost

(* What has been granted or bought has been paid, and is finite. *)
LEMMA GrantedIsPaid ==
  ASSUME IInv, TermInv
  PROVE  /\ journal \cup debits \subseteq Paid /\ Paid \subseteq Intents \cup Refs
         /\ IsFiniteSet(journal \cup debits) /\ IsFiniteSet(journal)
         /\ TermsOf(journal \cup debits) \in Nat /\ TermsOf(journal) \in Nat
         /\ TermsOf(journal \cup debits) <= TermsOf(Paid)
<1>1. journal \cup debits \subseteq Paid /\ Paid \subseteq Intents \cup Refs
  BY DEF IInv, TypeOK, TermInv, CompletedFirst, Paid
<1>2. journal \in SUBSET Paid /\ journal \cup debits \in SUBSET Paid
  BY <1>1
<1>3. IsFiniteSet(Paid)
  BY DEF TermInv
<1>4. IsFiniteSet(journal \cup debits) /\ IsFiniteSet(journal)
  BY <1>2, <1>3, FS_Subset
<1>5. Paid \in SUBSET (Intents \cup Refs)
  BY <1>1
<1> QED  BY <1>1, <1>2, <1>3, <1>4, <1>5, TermsGrow

(* The row rewritten for the intent it has leaves the journal as it is. *)
LEMMA SameIntent ==
  ASSUME IInv, row'.intent = row.intent, Journal(row')
  PROVE  journal' = journal
  BY DEF IInv, RowIsJournalled, Journal

(* A completed payment stays completed; completing one adds it to the paid. *)
LEMMA CompletingAdds ==
  ASSUME IInv, NEW i \in Intents, Complete(i)
  PROVE  \A j \in Intents : IsCompleted(j)' <=> IsCompleted(j) \/ j = i
<1>1. completed \in Seq(Intents) /\ completed' = Append(completed, i)
  BY DEF Complete, IInv, TypeOK
<1>2. /\ Len(completed') = Len(completed) + 1 /\ Len(completed) \in Nat
      /\ completed'[Len(completed) + 1] = i
      /\ \A n \in 1..Len(completed) : completed'[n] = completed[n]
  BY <1>1
<1> QED  BY <1>2 DEF IsCompleted

LEMMA CompletedStays ==
  ASSUME IInv, [Next]_vars
  PROVE  /\ completed' = completed \/ \E i \in Intents : Complete(i)
         /\ \A j \in Intents : IsCompleted(j) => IsCompleted(j)'
<1>1. completed' = completed \/ \E i \in Intents : Complete(i)
  BY DEF Next, vars, Grant, Fulfill, Activate, Buy, Status, List, Renew, Insert, Confirm,
         Purchase, Stop, CompleteOrphan, ExpireDue, Tick
<1>2. CASE completed' = completed
  BY <1>1, <1>2 DEF IsCompleted
<1>3. CASE \E i \in Intents : Complete(i)
  BY <1>1, <1>3, CompletingAdds
<1> QED  BY <1>1, <1>2, <1>3

(* One payment at a time is made, so there are never infinitely many. *)
LEMMA PaidStaysFinite ==
  ASSUME IInv, TermInv, [Next]_vars
  PROVE  IsFiniteSet(Paid')
<1>1. IsFiniteSet(Paid)
  BY DEF TermInv
<1>2. ASSUME NEW i \in Intents, Complete(i) PROVE IsFiniteSet(Paid')
  <2>1. Paid' = Paid \cup {i}
    BY <1>2, CompletingAdds DEF Paid, Complete
  <2> QED  BY <1>1, <2>1, FS_AddElement
<1>3. CASE completed' = completed
  <2>1. debits' = debits \/ \E k : debits' = debits \cup {k}
    BY DEF Next, vars, Complete, Grant, Fulfill, Activate, Buy, Status, List, Renew, Insert,
           Confirm, Purchase, Stop, CompleteOrphan, ExpireDue, Tick
  <2>2. Paid' = Paid \/ \E k : Paid' = Paid \cup {k}
    BY <1>3, <2>1 DEF Paid, IsCompleted
  <2> QED  BY <1>1, <2>2, FS_AddElement
<1> QED  BY <1>2, <1>3, CompletedStays

(* Every step of an invocation leaves it honest. *)
LEMMA InvocationsStayHonest ==
  ASSUME IInv, CompletedFirst, [Next]_vars, NEW h \in Handlers
  PROVE  Honest(h)'
<1>1. /\ sess[h] \in Invocation /\ now \in Int /\ now' \in Int /\ now <= now'
      /\ Honest(h)
  <2>1. now' = now \/ now' = now + 1
    BY DEF Next, vars, Complete, Grant, Fulfill, Activate, Buy, Status, List, Renew, Insert,
           Confirm, Purchase, Stop, CompleteOrphan, ExpireDue, Tick
  <2> QED
    BY <2>1, TermAssumption DEF IInv, TypeOK, Invocation, CompletedFirst, Honest
<1>2. /\ sess[h].at \in {"renew", "insert"} => sess[h].id \in Intents
      /\ sess[h].at = "buy" => sess[h].time \in Int
  BY <1>1 DEF IInv, IdsFit, Invocation
<1>3. CASE sess'[h] = sess[h]
  <2>1. sess[h].at \in {"renew", "insert"} => IsCompleted(sess[h].id)'
    <3>1. ASSUME sess[h].at \in {"renew", "insert"} PROVE completed' = completed \/ sess'[h].id \in Intents
      BY <1>2, <1>3, <3>1
    <3> QED  BY <1>1, <1>2, <1>3, CompletedStays DEF Honest
  <2> QED  BY <1>1, <1>2, <1>3, <2>1 DEF Honest
<1>4. CASE sess'[h].at \in {"idle", "confirm", "list"}
  BY <1>4 DEF Honest
<1>5. CASE \E i \in Intents : IsCompleted(i) /\ completed' = completed /\ sess'[h].id = i
                              /\ sess'[h].at \in {"renew", "insert"}
  BY <1>5 DEF IsCompleted, Honest
<1>6. CASE sess'[h].at = "buy" /\ sess'[h].time = now'
  BY <1>1, <1>6 DEF Honest
<1>7. CASE sess'[h] # sess[h]
  <2>0. ASSUME NEW g \in Handlers, NEW x, sess' = [sess EXCEPT ![g] = x] PROVE sess'[h] = x
    BY <1>7, <2>0 DEF IInv, TypeOK
  <2>1. ASSUME NEW g \in Handlers, NEW i \in Intents,
               Grant(g, i) \/ Fulfill(g, i) \/ Activate(g, i)
        PROVE  IsCompleted(i) /\ completed' = completed /\ sess'[h].id = i
               /\ sess'[h].at = "renew"
    <3>1. sess'[h] = [Idle EXCEPT !.at = "renew", !.op = "grant", !.id = i]
      BY <2>0, <2>1 DEF Grant, Fulfill, Activate, Start
    <3> QED  BY <2>1, <3>1 DEF Grant, Fulfill, Activate, Idle
  <2>2. ASSUME NEW g \in Handlers, NEW k \in Refs, Buy(g, k)
        PROVE  sess'[h].at = "buy" /\ sess'[h].time = now'
    BY <1>7, <2>2 DEF Buy, Idle, IInv, TypeOK
  <2>3. ASSUME NEW g \in Handlers,
               Status(g) \/ Insert(g) \/ Confirm(g) \/ Purchase(g) \/ Stop(g)
        PROVE  sess'[h].at \in {"idle", "confirm", "list"}
    <3>1. CASE Insert(g)
      <4>1. g = h /\ sess' = [sess EXCEPT ![h].at = "confirm"]
        BY <1>7, <3>1 DEF Insert, Go, IInv, TypeOK
      <4> QED  BY <1>1, <4>1 DEF Invocation, IInv, TypeOK
    <3>2. CASE Status(g) \/ Confirm(g) \/ Purchase(g) \/ Stop(g)
      <4>1. ASSUME NEW x, sess' = [sess EXCEPT ![g] = x], x.at \in {"idle", "list"}
            PROVE  sess'[h].at \in {"idle", "list"}
        BY <2>0, <4>1
      <4>2. ASSUME NEW a, Say(g, a) PROVE sess'[h].at \in {"idle", "list"}
        <5> DEFINE x == [Idle EXCEPT !.ans = a]
        <5>1. sess' = [sess EXCEPT ![g] = x] /\ x.at = "idle"
          BY <4>2 DEF Say, Idle
        <5> QED  BY <4>1, <5>1
      <4>3. ASSUME NEW op, NEW id, Start(g, "list", op, id)
            PROVE  sess'[h].at \in {"idle", "list"}
        <5> DEFINE x == [Idle EXCEPT !.at = "list", !.op = op, !.id = id]
        <5>1. sess' = [sess EXCEPT ![g] = x] /\ x.at = "list"
          BY <4>3 DEF Start, Idle
        <5> QED  BY <4>1, <5>1
      <4>4. CASE Stop(g)
        BY <4>1, <4>4 DEF Stop, Idle
      <4>5. CASE Status(g)
        BY <4>2, <4>3, <4>5 DEF Status
      <4>6. CASE Confirm(g) \/ Purchase(g)
        BY <4>2, <4>6 DEF Confirm, Purchase
      <4> QED  BY <3>2, <4>4, <4>5, <4>6
    <3> QED  BY <2>3, <3>1, <3>2
  <2>4. ASSUME NEW g \in Handlers, List(g)
        PROVE  \/ sess'[h].at = "idle"
               \/ \E i \in Intents : IsCompleted(i) /\ completed' = completed
                                     /\ sess'[h].id = i /\ sess'[h].at = "renew"
    <3>1. CASE completed = <<>>
      BY <1>7, <2>4, <3>1 DEF List, Say, Idle, IInv, TypeOK
    <3>2. CASE completed # <<>>
      <4>1. completed[Len(completed)] \in Intents /\ Len(completed) \in 1..Len(completed)
        BY <3>2 DEF IInv, TypeOK
      <4>2. sess'[h].id = completed[Len(completed)] /\ sess'[h].at = "renew"
        BY <1>1, <1>7, <2>4, <3>2 DEF List, IInv, TypeOK, Invocation
      <4> QED  BY <2>4, <4>1, <4>2 DEF List, IsCompleted
    <3> QED  BY <3>1, <3>2
  <2>5. ASSUME NEW g \in Handlers, Renew(g)
        PROVE  \/ sess'[h].at = "confirm"
               \/ \E i \in Intents : IsCompleted(i) /\ completed' = completed
                                     /\ sess'[h].id = i /\ sess'[h].at = "insert"
    <3>1. g = h /\ sess[h].at = "renew"
      BY <1>7, <2>5 DEF Renew, Go, IInv, TypeOK
    <3>2. /\ sess'[h].id = sess[h].id /\ sess'[h].at \in {"confirm", "insert"}
          /\ completed' = completed
      BY <1>1, <2>5, <3>1 DEF Renew, Go, IInv, TypeOK, Invocation
    <3> QED  BY <1>1, <1>2, <3>1, <3>2 DEF Honest
  <2> QED
    BY <1>4, <1>5, <1>6, <1>7, <2>1, <2>2, <2>3, <2>4, <2>5
    DEF Next, vars, Complete, CompleteOrphan, ExpireDue, Tick
<1> QED  BY <1>3, <1>7

--------------------------------------------------------------------------------
(* A renewal puts a term on the row, or the first row there is. *)
LEMMA RenewalAddsUp ==
  ASSUME IInv, TermInv, NEW i \in Intents \ journal, NEW e \in Rows, Put(i, e),
         \/ e = row /\ row # NoRow
         \/ e = NoRow /\ (debits = {} => row = NoRow),
         now' = now, debits' = debits
  PROVE  /\ LapsedIsPast' /\ NothingMadeUp' /\ NothingLost'
         /\ row' # NoRow /\ journal' = journal \cup {i}
<1>1. /\ now \in Nat /\ Grace \in Nat /\ Term[i] \in Nat /\ Tier[i] \in {"vip", "vvip"}
      /\ i # None /\ i \notin Refs /\ row \in Rows /\ e.until \in Nat
  BY TermAssumption DEF IInv, TypeOK, Rows
<1>2. /\ row'.until = Begins(e) + Term[i] /\ row'.tier = Tier[i] /\ row'.intent = i
      /\ journal' = journal \cup {i}
  BY <1>1 DEF Put, Renewed, Journal
<1>3. LapsedIsPast' /\ row' # NoRow
  BY <1>1, <1>2 DEF LapsedIsPast, NoRow
<1> DEFINE P == journal \cup debits
<1>4. /\ IsFiniteSet(P) /\ IsFiniteSet(journal) /\ P \in SUBSET (Intents \cup Refs)
      /\ journal \in SUBSET (Intents \cup Refs)
      /\ TermsOf(P) \in Nat /\ TermsOf(journal) \in Nat
  BY GrantedIsPaid DEF IInv, TypeOK
<1>5. i \in (Intents \cup Refs) \ P /\ i \in (Intents \cup Refs) \ journal
  BY <1>1 DEF IInv, TypeOK
<1>6. /\ journal' \cup debits' = P \cup {i}
      /\ TermsOf(P \cup {i}) = TermsOf(P) + Term[i]
      /\ TermsOf(journal \cup {i}) = TermsOf(journal) + Term[i]
  BY <1>2, <1>4, <1>5, TermsAdd
<1>7. row.until <= now + TermsOf(P)
  BY DEF TermInv, NothingMadeUp
<1> HIDE DEF P
<1>8. Begins(e) \in Nat /\ Begins(e) <= now + TermsOf(P)
  BY <1>1, <1>4, <1>7 DEF Begins, NoRow
<1>9. NothingMadeUp'
  <2>1. row'.until <= now + TermsOf(P \cup {i})
    BY <1>1, <1>2, <1>4, <1>6, <1>8
  <2> QED  BY <1>6, <2>1 DEF NothingMadeUp
<1>10. ASSUME debits = {} PROVE Begins(e) >= TermsOf(journal)
  <2>1. CASE e = row /\ row # NoRow
    <3>1. row.until >= TermsOf(journal)
      BY <1>10 DEF TermInv, NothingLost
    <3>2. Begins(row) >= row.until
      BY <1>1, <2>1 DEF Begins, TermInv, LapsedIsPast
    <3> QED  BY <1>1, <1>4, <1>8, <2>1, <3>1, <3>2
  <2>2. CASE row = NoRow
    <3>1. TermsOf(journal) = 0
      BY <2>2, FS_EmptySet, TermsOfOne DEF TermInv, NoRowYet
    <3> QED  BY <1>8, <3>1
  <2> QED  BY <1>10, <2>1, <2>2
<1>11. NothingLost'
  BY <1>1, <1>2, <1>4, <1>6, <1>8, <1>10 DEF NothingLost
<1> QED  BY <1>2, <1>3, <1>9, <1>11

(* A purchase writes no later a date than its own term from now. *)
LEMMA PurchaseAddsUp ==
  ASSUME IInv, TermInv, NEW k \in Refs, NEW u \in Nat, u <= now, row' = Bought(k, u + Term[k]),
         Journal(row'), now' = now, debits' = debits \cup {k}
  PROVE  /\ LapsedIsPast' /\ NothingMadeUp' /\ NothingLost'
         /\ row' # NoRow /\ journal' = journal /\ debits' # {}
<1>1. now \in Nat /\ Term[k] \in Nat /\ Tier[k] \in {"vip", "vvip"}
  BY TermAssumption DEF IInv, TypeOK
<1>2. /\ row'.until = u + Term[k] /\ row'.tier = Tier[k] /\ row'.intent = row.intent
      /\ journal' = journal
  BY SameIntent DEF Bought
<1>3. LapsedIsPast' /\ row' # NoRow /\ NothingLost' /\ debits' # {}
  BY <1>1, <1>2 DEF LapsedIsPast, NoRow, NothingLost
<1> DEFINE P == journal \cup debits
<1>4. IsFiniteSet(P) /\ P \in SUBSET (Intents \cup Refs)
  BY GrantedIsPaid DEF IInv, TypeOK
<1>5. journal' \cup debits' = P \cup {k}
  BY <1>2
<1>6. IsFiniteSet(P \cup {k}) /\ P \cup {k} \in SUBSET (Intents \cup Refs)
  BY <1>4, FS_AddElement
<1> HIDE DEF P
<1>7. Term[k] <= TermsOf(P \cup {k}) /\ TermsOf(P \cup {k}) \in Nat
  BY <1>6, TermsOfOne, TermsGrow
<1>8. NothingMadeUp'
  BY <1>1, <1>2, <1>5, <1>7 DEF NothingMadeUp
<1> QED  BY <1>2, <1>3, <1>8

LEMMA InitTermInv == Init => TermInv
<1> SUFFICES ASSUME Init PROVE TermInv
  OBVIOUS
<1>1. /\ now = 0 /\ row = NoRow /\ journal = {} /\ debits = {} /\ completed = <<>>
      /\ \A h \in Handlers : sess[h] = Idle
  BY DEF Init
<1>2. Paid = {}
  BY <1>1 DEF Paid, IsCompleted
<1>3. TermsOf({}) = 0 /\ IsFiniteSet({})
  BY FS_EmptySet, TermsOfOne
<1>4. CompletedFirst /\ LapsedIsPast /\ NoRowYet
  BY <1>1 DEF CompletedFirst, Honest, LapsedIsPast, NoRowYet, NoRow, Idle, Inserting
<1>5. NothingMadeUp /\ NothingLost
  BY <1>1, <1>3 DEF NothingMadeUp, NothingLost, NoRow
<1> QED  BY <1>2, <1>3, <1>4, <1>5 DEF TermInv

LEMMA NextTermInv == IInv /\ TermInv /\ [Next]_vars => TermInv'
<1> SUFFICES ASSUME IInv, TermInv, [Next]_vars PROVE TermInv'
  OBVIOUS
<1> DEFINE Sums == LapsedIsPast' /\ NoRowYet' /\ NothingMadeUp' /\ NothingLost'
<1>1. IsFiniteSet(Paid')
  BY PaidStaysFinite
<1>2. CompletedFirst
  BY DEF TermInv
<1>3. ASSUME journal' = journal, Sums PROVE TermInv'
  <2>1. \A j \in journal' : IsCompleted(j)'
    BY <1>2, <1>3, CompletedStays DEF CompletedFirst, IInv, TypeOK
  <2>2. \A h \in Handlers : Honest(h)'
    BY <1>2, InvocationsStayHonest
  <2>3. CompletedFirst'
    BY <2>1, <2>2 DEF CompletedFirst
  <2> QED  BY <1>1, <1>3, <2>3 DEF TermInv
<1>4. ASSUME NEW i \in Intents, IsCompleted(i), journal' = journal \cup {i}, Sums PROVE TermInv'
  <2>1. \A j \in journal' : IsCompleted(j)'
    BY <1>2, <1>4, CompletedStays DEF CompletedFirst, IInv, TypeOK
  <2>2. \A h \in Handlers : Honest(h)'
    BY <1>2, InvocationsStayHonest
  <2>3. CompletedFirst'
    BY <2>1, <2>2 DEF CompletedFirst
  <2> QED  BY <1>1, <1>4, <2>3 DEF TermInv
<1>5. CASE /\ UNCHANGED <<row, journal, debits>> /\ now' \in {now, now + 1}
           /\ \A h \in Handlers : sess'[h].at = "insert" => Inserting(h)
  <2>1. now \in Nat /\ row \in Rows /\ TermsOf(journal \cup debits) \in Nat
    BY TermAssumption, GrantedIsPaid DEF IInv, TypeOK, Rows
  <2>2. LapsedIsPast' /\ NothingMadeUp' /\ NothingLost'
    BY <1>5, <2>1 DEF Rows, TermInv, LapsedIsPast, NothingMadeUp, NothingLost
  <2>3. NoRowYet'
    BY <1>5 DEF TermInv, NoRowYet, Inserting
  <2> QED  BY <1>3, <1>5, <2>2, <2>3
<1>6. ASSUME NEW h \in Handlers, Renew(h) PROVE TermInv'
  <2> DEFINE i == sess[h].id
  <2>1. i \in Intents /\ sess[h] \in Invocation /\ IsCompleted(i)
    BY <1>2, <1>6 DEF Renew, IInv, IdsFit, TypeOK, Invocation, CompletedFirst, Honest
  <2>2. \A g \in Handlers : sess'[g].at = "insert" => g = h
    BY <1>6 DEF Renew, Go, Unlocked, IInv, TypeOK
  <2>3. CASE Duplicate(i)
    <3>1. UNCHANGED <<row, journal, debits, now>> /\ Go(h, "confirm")
      BY <1>6, <2>3 DEF Renew
    <3>2. sess'[h].at = "confirm"
      BY <2>1, <3>1 DEF Go, IInv, TypeOK, Invocation
    <3> QED  BY <1>5, <2>2, <3>1, <3>2
  <2>4. CASE ~ Duplicate(i) /\ row # NoRow
    <3>1. /\ i \in Intents \ journal /\ row \in Rows /\ Put(i, row) /\ Go(h, "confirm")
          /\ now' = now /\ debits' = debits
      BY <1>6, <2>1, <2>4 DEF Renew, Duplicate, IInv, TypeOK, Rows
    <3>2. sess'[h].at = "confirm"
      BY <2>1, <3>1 DEF Go, IInv, TypeOK, Invocation
    <3>3. \A g \in Handlers : sess'[g].at # "insert"
      BY <2>2, <3>2
    <3> HIDE DEF i
    <3>4. /\ LapsedIsPast' /\ NothingMadeUp' /\ NothingLost'
          /\ row' # NoRow /\ journal' = journal \cup {i}
      BY <2>4, <3>1, RenewalAddsUp
    <3>5. NoRowYet'
      BY <3>3, <3>4 DEF NoRowYet, Inserting
    <3> QED  BY <1>4, <2>1, <3>4, <3>5
  <2>5. CASE ~ Duplicate(i) /\ row = NoRow
    <3>1. UNCHANGED <<row, journal, debits, now>>
      BY <1>6, <2>5 DEF Renew
    <3>2. Sums
      BY <2>5, <3>1 DEF TermInv, LapsedIsPast, NoRowYet, NothingMadeUp, NothingLost
    <3> QED  BY <1>3, <3>1, <3>2
  <2> QED  BY <2>3, <2>4, <2>5
<1>7. ASSUME NEW h \in Handlers, Insert(h) PROVE TermInv'
  <2> DEFINE i == sess[h].id
  <2>1. /\ i \in Intents \ journal /\ sess[h] \in Invocation /\ IsCompleted(i)
        /\ Inserting(h) /\ NoRow \in Rows
    BY <1>2, <1>7
    DEF Insert, Inserting, InsertsNew, IInv, TypeOK, Invocation, CompletedFirst, Honest, NoRow, Rows
  <2>2. /\ Put(i, NoRow) /\ Go(h, "confirm") /\ now' = now /\ debits' = debits
    BY <1>7 DEF Insert
  <2>3. \A g \in Handlers : sess'[g].at # "insert"
    <3>1. sess'[h].at = "confirm" /\ \A g \in Handlers \ {h} : sess'[g] = sess[g]
      BY <2>1, <2>2 DEF Go, IInv, TypeOK, Invocation
    <3>2. \A g \in Handlers \ {h} : ~ Inserting(g)
      BY <2>1 DEF IInv, OneInserts
    <3> QED  BY <3>1, <3>2 DEF Inserting
  <2>4. debits = {} => row = NoRow
    BY <2>1 DEF TermInv, NoRowYet
  <2> HIDE DEF i
  <2>5. /\ LapsedIsPast' /\ NothingMadeUp' /\ NothingLost'
        /\ row' # NoRow /\ journal' = journal \cup {i}
    BY <2>1, <2>2, <2>4, RenewalAddsUp
  <2>6. NoRowYet'
    BY <2>3, <2>5 DEF NoRowYet, Inserting
  <2> QED  BY <1>4, <2>1, <2>5, <2>6
<1>8. ASSUME NEW k \in Refs, NEW u \in Nat, u <= now, row' = Bought(k, u + Term[k]),
             Journal(row'), now' = now, debits' = debits \cup {k}
      PROVE  TermInv'
  <2>1. /\ LapsedIsPast' /\ NothingMadeUp' /\ NothingLost'
        /\ row' # NoRow /\ journal' = journal /\ debits' # {}
    BY <1>8, PurchaseAddsUp
  <2>2. NoRowYet'
    BY <2>1 DEF NoRowYet
  <2> QED  BY <1>3, <2>1, <2>2
<1>9. ASSUME NEW h \in Handlers, Purchase(h) PROVE TermInv'
  <2>1. sess[h].id \in Refs /\ sess[h].time \in Nat /\ sess[h].time <= now
    BY <1>2, <1>9 DEF Purchase, IInv, IdsFit, TypeOK, CompletedFirst, Honest
  <2>2. CASE UNCHANGED <<row, journal, debits>>
    <3>1. \A g \in Handlers : sess'[g].at = "insert" => Inserting(g)
      BY <1>9 DEF Purchase, Say, Idle, Inserting, IInv, TypeOK
    <3> QED  BY <1>5, <1>9, <2>2, <3>1 DEF Purchase
  <2>3. CASE ~ UNCHANGED <<row, journal, debits>>
    <3>1. /\ row' = Bought(sess[h].id, sess[h].time + Term[sess[h].id]) /\ Journal(row')
          /\ now' = now /\ debits' = debits \cup {sess[h].id}
      BY <1>9, <2>3 DEF Purchase
    <3> QED  BY <1>8, <2>1, <3>1
  <2> QED  BY <2>2, <2>3
<1>10. ASSUME NEW k \in Refs, CompleteOrphan(k) PROVE TermInv'
  <2>1. now \in Nat /\ now <= now /\ debits' = debits \cup {k}
    BY <1>10, TermAssumption DEF CompleteOrphan, IInv, TypeOK
  <2>2. row' = Bought(k, now + Term[k]) /\ Journal(row') /\ now' = now
    BY <1>10 DEF CompleteOrphan
  <2> QED  BY <1>8, <2>1, <2>2
<1>11. CASE ExpireDue
  <2>1. /\ row \in Rows /\ row.tier \in {"vip", "vvip"} /\ row.until <= now
        /\ row' = [row EXCEPT !.tier = "free"] /\ Journal(row')
        /\ UNCHANGED <<now, debits, sess>>
    BY <1>11 DEF ExpireDue, IInv, TypeOK, Rows
  <2>2. /\ row'.until = row.until /\ row'.intent = row.intent /\ row'.tier = "free"
        /\ row' # NoRow /\ row # NoRow
    BY <2>1 DEF Rows, NoRow
  <2>3. journal' = journal
    BY <2>1, <2>2, SameIntent
  <2>4. Sums
    BY <2>1, <2>2, <2>3
    DEF TermInv, LapsedIsPast, NoRowYet, NothingMadeUp, NothingLost, Inserting
  <2> QED  BY <1>3, <2>3, <2>4
<1>12. ASSUME NEW h \in Handlers,
              \/ \E i \in Intents : Grant(h, i) \/ Fulfill(h, i) \/ Activate(h, i)
              \/ \E k \in Refs : Buy(h, k)
              \/ Status(h) \/ List(h) \/ Confirm(h) \/ Stop(h)
       PROVE  TermInv'
  <2>1. UNCHANGED <<row, journal, debits, now>>
    BY <1>12 DEF Grant, Fulfill, Activate, Buy, Status, List, Confirm, Stop
  <2>2. \A g \in Handlers : sess'[g].at = "insert" => Inserting(g)
    <3>1. sess[h] \in Invocation /\ sess \in [Handlers -> Invocation]
      BY DEF IInv, TypeOK, Invocation
    <3>2. \E x : sess' = [sess EXCEPT ![h] = x] /\ x.at # "insert"
      <4>1. CASE List(h) /\ completed # <<>>
        <5> DEFINE x == [sess[h] EXCEPT !.at = "renew", !.id = completed[Len(completed)]]
        <5>1. sess' = [sess EXCEPT ![h] = x] /\ x.at # "insert"
          BY <3>1, <4>1 DEF List, Invocation
        <5> QED  BY <5>1
      <4>2. CASE ~ (List(h) /\ completed # <<>>)
        <5>1. ASSUME NEW x, sess' = [sess EXCEPT ![h] = x], x.at # "insert"
              PROVE  \E y : sess' = [sess EXCEPT ![h] = y] /\ y.at # "insert"
          BY <5>1
        <5>2. ASSUME NEW a, Say(h, a)
              PROVE  \E y : sess' = [sess EXCEPT ![h] = y] /\ y.at # "insert"
          <6> DEFINE x == [Idle EXCEPT !.ans = a]
          <6>1. sess' = [sess EXCEPT ![h] = x] /\ x.at # "insert"
            BY <5>2 DEF Say, Idle
          <6> QED  BY <5>1, <6>1
        <5>3. ASSUME NEW at \in {"renew", "list"}, NEW op, NEW id, Start(h, at, op, id)
              PROVE  \E y : sess' = [sess EXCEPT ![h] = y] /\ y.at # "insert"
          <6> DEFINE x == [Idle EXCEPT !.at = at, !.op = op, !.id = id]
          <6>1. sess' = [sess EXCEPT ![h] = x] /\ x.at # "insert"
            BY <5>3 DEF Start, Idle
          <6> QED  BY <5>1, <6>1
        <5>4. ASSUME NEW k \in Refs, Buy(h, k)
              PROVE  \E y : sess' = [sess EXCEPT ![h] = y] /\ y.at # "insert"
          <6> DEFINE x == [Idle EXCEPT !.at = "buy", !.id = k, !.time = now]
          <6>1. sess' = [sess EXCEPT ![h] = x] /\ x.at # "insert"
            BY <5>4 DEF Buy, Idle
          <6> QED  BY <5>1, <6>1
        <5>5. CASE Stop(h)
          <6>1. sess' = [sess EXCEPT ![h] = Idle] /\ Idle.at # "insert"
            BY <5>5 DEF Stop, Idle
          <6> HIDE DEF Idle
          <6> QED  BY <5>1, <6>1
        <5>6. CASE \E i \in Intents : Grant(h, i) \/ Fulfill(h, i) \/ Activate(h, i)
          BY <5>3, <5>6 DEF Grant, Fulfill, Activate
        <5>7. CASE Status(h)
          BY <5>2, <5>3, <5>7 DEF Status
        <5>8. CASE List(h) \/ Confirm(h)
          BY <4>2, <5>2, <5>8 DEF List, Confirm
        <5> QED  BY <1>12, <5>4, <5>5, <5>6, <5>7, <5>8
      <4> QED  BY <4>1, <4>2
    <3>3. PICK x : sess' = [sess EXCEPT ![h] = x] /\ x.at # "insert"
      BY <3>2
    <3> QED  BY <3>1, <3>3 DEF Inserting
  <2> QED  BY <1>5, <2>1, <2>2
<1>13. CASE Tick \/ UNCHANGED vars \/ \E i \in Intents : Complete(i)
  <2>1. UNCHANGED <<row, journal, debits, sess>> /\ now' \in {now, now + 1}
    BY <1>13 DEF Tick, vars, Complete
  <2> QED  BY <1>5, <2>1 DEF Inserting
<1> QED
  BY <1>6, <1>7, <1>9, <1>10, <1>11, <1>12, <1>13 DEF Next

LEMMA TermInvariance == Spec => []TermInv
  BY InitTermInv, NextTermInv, Invariance, PTL DEF Spec

(***************************************************************************)
(* A membership never lasts longer than all that was paid for together,    *)
(* whatever is renewed, bought, completed by the operator or expired, and  *)
(* however many invocations stop half-way.                                 *)
(***************************************************************************)
THEOREM NoTermIsMadeUp == Spec => []TermsArePaidFor
<1>1. IInv /\ TermInv => TermsArePaidFor
  <2> SUFFICES ASSUME IInv, TermInv PROVE TermsArePaidFor
    OBVIOUS
  <2>1. /\ Paid \in SUBSET (Intents \cup Refs) /\ IsFiniteSet(Paid)
        /\ TermsOf(journal \cup debits) \in Nat
        /\ TermsOf(journal \cup debits) <= TermsOf(Paid)
    BY GrantedIsPaid DEF TermInv
  <2>2. TermsOf(Paid) \in Nat
    BY <2>1, TermsGrow
  <2>3. row.until <= now + TermsOf(journal \cup debits) /\ row.until \in Nat /\ now \in Nat
    BY TermAssumption DEF TermInv, NothingMadeUp, IInv, TypeOK
  <2>4. row.until <= now + TermsOf(Paid)
    BY <2>1, <2>2, <2>3
  <2> QED  BY <2>4 DEF TermsArePaidFor, TermsOf
<1> QED  BY <1>1, Invariance, TermInvariance, PTL

(***************************************************************************)
(* Payments granted by routes that run at the same time all count: until   *)
(* something is bought with GHC, the membership lasts at least the terms   *)
(* of all the payments granted, one after the other.                       *)
(***************************************************************************)
THEOREM GrantedTermsCount == Spec => []GrantedTermsAddUp
<1>1. IInv /\ TermInv => GrantedTermsAddUp
  <2> SUFFICES ASSUME IInv, TermInv PROVE GrantedTermsAddUp
    OBVIOUS
  <2>1. Granted = journal
    BY DEF IInv, TypeOK, JournalIsGranted, Granted
  <2> QED  BY <2>1 DEF TermInv, NothingLost, GrantedTermsAddUp, TermsOf
<1> QED  BY <1>1, Invariance, TermInvariance, PTL
================================================================================
