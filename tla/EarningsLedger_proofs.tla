------------------------- MODULE EarningsLedger_proofs -------------------------
(***************************************************************************)
(* The safety of the earnings ledger, for any users, sessions, references, *)
(* payouts, sources and amounts.                                           *)
(*                                                                         *)
(* What a transaction read before its insert stays true because it holds   *)
(* the user's lock: that is the part of the invariant TLC does not need    *)
(* and an induction does.                                                  *)
(***************************************************************************)
EXTENDS EarningsLedger, FiniteSetTheorems, TLAPS

(***************************************************************************)
(* A session about to insert holds the lock of its user, and its reading   *)
(* of the account still stands.                                            *)
(***************************************************************************)
ReadStillStands ==
  \A s \in Sessions :
    sess[s].pc = "insert" =>
      /\ lock[sess[s].user] = s
      /\ Answer(acct[sess[s].user], sess[s].ref, sess[s].call) = "insert"

(* The sums the functions read are not negative. *)
AvailableNeverNegative == \A u \in Users : acct[u].available >= 0

HeldNeverNegative == \A u \in Users : \A p \in Payouts : acct[u].held[p] >= 0

Inv ==
  /\ TypeOK
  /\ AvailableNeverNegative
  /\ HeldNeverNegative
  /\ OkMeansRecorded
  /\ ReadStillStands

--------------------------------------------------------------------------------
(* Totals (see Totals): the facts this module needs of them. *)

(* The units of a row are as many as its amount, or none. *)
LEMMA RowUnits ==
  ASSUME NEW x, NEW n \in Int
  PROVE  /\ IsFiniteSet({x} \X (1..n))
         /\ Cardinality({x} \X (1..n)) = IF n > 0 THEN n ELSE 0
<1>1. IsFiniteSet({x}) /\ Cardinality({x}) = 1
  BY FS_Singleton
<1>2. IsFiniteSet(1..n) /\ Cardinality(1..n) = IF n > 0 THEN n ELSE 0
  BY FS_Interval
<1>3. /\ IsFiniteSet({x} \X (1..n))
      /\ Cardinality({x} \X (1..n)) = Cardinality({x}) * Cardinality(1..n)
  BY <1>1, <1>2, FS_Product
<1> QED
  BY <1>1, <1>2, <1>3

(* Finitely many rows have finitely many units. *)
LEMMA UnitsFinite ==
  ASSUME NEW S, IsFiniteSet(S), NEW f \in [S -> Int]
  PROVE  IsFiniteSet(Units(f))
<1> DEFINE cells == {{x} \X (1..f[x]) : x \in S}
           F     == [x \in S |-> {x} \X (1..f[x])]
<1>1. F \in Surjection(S, cells)
  BY DEF Surjection
<1>2. IsFiniteSet(cells)
  BY <1>1, FS_Surjection
<1>3. \A x \in S : f[x] \in Int
  OBVIOUS
<1>4. \A x \in S : IsFiniteSet({x} \X (1..f[x]))
  BY <1>3, RowUnits
<1>5. \A T \in cells : IsFiniteSet(T)
  BY <1>4
<1> QED
  BY <1>2, <1>5, FS_UNION DEF Units

(* One row more: as many units more as it has. *)
LEMMA UnitsAdd ==
  ASSUME NEW S, IsFiniteSet(S), NEW x, x \notin S,
         NEW f \in [S -> Int], NEW g \in [S \cup {x} -> Int], \A y \in S : f[y] = g[y]
  PROVE  /\ Cardinality(Units(f)) \in Nat
         /\ Cardinality(Units(g)) = Cardinality(Units(f)) + (IF g[x] > 0 THEN g[x] ELSE 0)
<1>1. IsFiniteSet(Units(f))
  BY UnitsFinite
<1>2. Units(g) = Units(f) \cup ({x} \X (1..g[x]))
  BY DEF Units
<1>3. Units(f) \cap ({x} \X (1..g[x])) = {}
  BY DEF Units
<1>4. /\ IsFiniteSet({x} \X (1..g[x]))
      /\ Cardinality({x} \X (1..g[x])) = IF g[x] > 0 THEN g[x] ELSE 0
  BY RowUnits
<1>5. Cardinality(Units(f)) \in Nat
  BY <1>1, FS_CardinalityType
<1>6. Cardinality(Units(g)) =
        Cardinality(Units(f)) + Cardinality({x} \X (1..g[x])) - Cardinality({})
  BY <1>1, <1>2, <1>3, <1>4, FS_Union
<1> QED
  BY <1>4, <1>5, <1>6, FS_EmptySet

(* Where there is nothing to add, the total is zero. *)
LEMMA TotalNothing == ASSUME NEW f, \A x \in DOMAIN f : f[x] = 0 PROVE Total(f) = 0
<1>1. Units(f) = {} /\ Units([x \in DOMAIN f |-> -f[x]]) = {}
  BY DEF Units
<1> QED
  BY <1>1, FS_EmptySet DEF Total

(* A row more adds its amount, whatever its sign. *)
LEMMA TotalAdd ==
  ASSUME NEW S, IsFiniteSet(S), NEW x, x \notin S,
         NEW f \in [S -> Int], NEW g \in [S \cup {x} -> Int], \A y \in S : f[y] = g[y]
  PROVE  Total(f) \in Int /\ Total(g) = Total(f) + g[x]
<1>1. Cardinality(Units(f)) \in Nat
  BY UnitsAdd
<1>2. Cardinality(Units(g)) = Cardinality(Units(f)) + (IF g[x] > 0 THEN g[x] ELSE 0)
  BY UnitsAdd
<1> DEFINE m == [y \in S |-> -f[y]]
           n == [y \in S \cup {x} |-> -g[y]]
<1>3. m \in [S -> Int] /\ n \in [S \cup {x} -> Int] /\ n[x] = -g[x] /\ \A y \in S : m[y] = n[y]
  OBVIOUS
<1>4. /\ Cardinality(Units(m)) \in Nat
      /\ Cardinality(Units(n)) = Cardinality(Units(m)) + (IF n[x] > 0 THEN n[x] ELSE 0)
  BY <1>3, UnitsAdd
<1>5. /\ Total(f) = Cardinality(Units(f)) - Cardinality(Units(m))
      /\ Total(g) = Cardinality(Units(g)) - Cardinality(Units(n))
  BY DEF Total
<1>6. g[x] \in Int
  OBVIOUS
<1> HIDE DEF m, n
<1> QED
  BY <1>1, <1>2, <1>3, <1>4, <1>5, <1>6

--------------------------------------------------------------------------------
(* What callers ask for are rows, and an insertion keeps an account one. *)
LEMMA CallsAreRows == Calls \subseteq Row
BY AmountsAssumption DEF Calls, Row, Credit, Reserve, Settle, Release, Positive

(* The account before any row is one. *)
LEMMA EmptyIsAccount == EmptyAccount \in Account
BY DEF EmptyAccount, Account

(* What a row adds to each sum is an integer. *)
LEMMA PartsAreIntegers ==
  ASSUME NEW e \in Row
  PROVE  /\ AvailablePart(e) \in Int
         /\ PaidPart(e) \in Int
         /\ \A p \in Payouts : HeldPart(e, p) \in Int
BY DEF Row, Positive, AvailablePart, PaidPart, HeldPart

(* An insertion keeps an account one. *)
LEMMA InsertedIsAccount ==
  ASSUME NEW a \in Account, NEW ref \in Refs, NEW e \in Row
  PROVE  Inserted(a, ref, e) \in Account
BY PartsAreIntegers DEF Inserted, Account

(* The four answers, and what "insert" says of the account. *)
LEMMA AnswerInsert ==
  ASSUME NEW a, NEW ref, NEW e, Answer(a, ref, e) = "insert"
  PROVE  ~ Known(a, ref) /\ Covered(a, e)
BY DEF Answer

(* A duplicate answer means the very row is recorded. *)
LEMMA AnswerDuplicate ==
  ASSUME NEW a, NEW ref, NEW e, Answer(a, ref, e) = "duplicate"
  PROVE  Known(a, ref) /\ a.row[ref] = e
BY DEF Answer

(***************************************************************************)
(* A row the account covers leaves its available balance and every payout's*)
(* held sum at zero or more.                                               *)
(***************************************************************************)
LEMMA InsertedNotNegative ==
  ASSUME NEW a \in Account, NEW ref \in Refs, NEW e \in Calls,
         Covered(a, e), a.available >= 0, \A p \in Payouts : a.held[p] >= 0
  PROVE  /\ Inserted(a, ref, e).available >= 0
         /\ \A p \in Payouts : Inserted(a, ref, e).held[p] >= 0
<1>1. e \in Row
  BY CallsAreRows
<1>2. CASE e.type = "credit"
  BY <1>1, <1>2 DEF Inserted, Account, Row, Positive, AvailablePart, HeldPart
<1>3. CASE e.type = "reserve"
  BY <1>1, <1>3 DEF Inserted, Account, Row, Positive, AvailablePart, HeldPart, Covered
<1>4. CASE e.type \in {"settle", "release_reserve"}
  <2>1. e.amt =< a.held[e.pay]
    BY <1>4 DEF Covered
  <2> QED
    BY <1>1, <1>4, <2>1
    DEF Inserted, Account, Row, Positive, AvailablePart, HeldPart
<1> QED
  BY <1>1, <1>2, <1>3, <1>4 DEF Row

(* The row goes where it was asked to go, and no other row moves. *)
LEMMA InsertedRows ==
  ASSUME NEW a \in Account, NEW ref \in Refs, NEW e
  PROVE  /\ Inserted(a, ref, e).row[ref] = e
         /\ \A r \in Refs \ {ref} : Inserted(a, ref, e).row[r] = a.row[r]
BY DEF Inserted, Account

--------------------------------------------------------------------------------
(* No session has a row to account for yet. *)
LEMMA InitInv == Init => Inv
<1> SUFFICES ASSUME Init PROVE Inv
  OBVIOUS
<1>1. TypeOK
  BY EmptyIsAccount DEF Init, TypeOK, SessionState, Idle
<1>2. AvailableNeverNegative /\ HeldNeverNegative
  BY DEF Init, AvailableNeverNegative, HeldNeverNegative, EmptyAccount
<1>3. OkMeansRecorded /\ ReadStillStands
  BY DEF Init, Idle, OkMeansRecorded, ReadStillStands
<1> QED
  BY <1>1, <1>2, <1>3 DEF Inv

(* Asking changes one session, and takes the lock when it goes on to insert. *)
LEMMA AskInv ==
  ASSUME Inv, NEW s \in Sessions, NEW u \in Users, NEW ref \in Refs, NEW e \in Calls,
         Ask(s, u, ref, e)
  PROVE  Inv'
<1>1. TypeOK'
  BY DEF Inv, TypeOK, Ask, SessionState
<1>2. AvailableNeverNegative' /\ HeldNeverNegative'
  BY DEF Inv, AvailableNeverNegative, HeldNeverNegative, Ask
<1>3. OkMeansRecorded'
  BY AnswerDuplicate DEF Inv, TypeOK, OkMeansRecorded, Ask, Idle
<1>4. ReadStillStands'
  <2> SUFFICES ASSUME NEW t \in Sessions, sess'[t].pc = "insert"
               PROVE  /\ lock'[sess'[t].user] = t
                      /\ Answer(acct[sess'[t].user], sess'[t].ref, sess'[t].call) = "insert"
    BY DEF ReadStillStands, Ask
  <2>1. CASE t = s
    BY <2>1 DEF Inv, TypeOK, Ask, Idle
  <2>2. CASE t # s
    <3>1. sess'[t] = sess[t]
      BY <2>2 DEF Inv, TypeOK, Ask
    <3>2. sess[t].user \in Users
      BY <3>1 DEF Inv, TypeOK, SessionState, Idle
    <3>3. lock[sess[t].user] = t
      BY <3>1 DEF Inv, ReadStillStands
    <3>4. sess[t].user # u
      BY <3>3, SessionsAssumption DEF Ask, LockFree
    <3> QED
      BY <3>1, <3>2, <3>3, <3>4 DEF Inv, TypeOK, ReadStillStands, Ask
  <2> QED
    BY <2>1, <2>2
<1> QED
  BY <1>1, <1>2, <1>3, <1>4 DEF Inv

(* The insert adds the row that was covered when it was read, and still is. *)
LEMMA InsertInv ==
  ASSUME Inv, NEW s \in Sessions, Insert(s)
  PROVE  Inv'
<1> DEFINE u   == sess[s].user
           ref == sess[s].ref
           e   == sess[s].call
           a   == acct[u]
<1>1. u \in Users /\ ref \in Refs /\ e \in Calls /\ a \in Account
  BY DEF Inv, TypeOK, SessionState, Idle, Insert
<1>2. lock[u] = s /\ ~ Known(a, ref) /\ Covered(a, e)
  BY AnswerInsert DEF Inv, ReadStillStands, Insert
<1>3. /\ acct' = [acct EXCEPT ![u] = Inserted(a, ref, e)]
      /\ sess' = [sess EXCEPT ![s].pc = "ok"]
      /\ lock' = [lock EXCEPT ![u] = None]
  BY <1>1, <1>2 DEF Insert, Inv, TypeOK
<1>4. e \in Row
  BY <1>1, CallsAreRows
<1> HIDE DEF u, ref, e, a
<1>5. sess'[s].pc = "ok" /\ sess'[s].user = u /\ sess'[s].ref = ref /\ sess'[s].call = e
  BY <1>3 DEF Inv, TypeOK, SessionState, Idle, Insert, u, ref, e
<1>6. \A t \in Sessions \ {s} : sess'[t] = sess[t]
  BY <1>3 DEF Inv, TypeOK
<1>7. TypeOK'
  <2>1. acct' \in [Users -> Account]
    BY <1>1, <1>3, <1>4, InsertedIsAccount DEF Inv, TypeOK
  <2>2. lock' \in [Users -> Sessions \cup {None}]
    BY <1>3 DEF Inv, TypeOK
  <2>3. sess[s] \in [pc : {"insert", "ok"}, user : Users, ref : Refs, call : Calls]
    BY DEF Inv, TypeOK, SessionState, Idle, Insert
  <2>4. [sess[s] EXCEPT !.pc = "ok"] \in SessionState
    BY <2>3 DEF SessionState
  <2>5. sess' \in [Sessions -> SessionState]
    BY <1>3, <2>4 DEF Inv, TypeOK
  <2> QED
    BY <2>1, <2>2, <2>5 DEF TypeOK
<1>8. AvailableNeverNegative' /\ HeldNeverNegative'
  <2>1. a.available >= 0 /\ \A p \in Payouts : a.held[p] >= 0
    BY <1>1 DEF Inv, AvailableNeverNegative, HeldNeverNegative, a
  <2>2. /\ Inserted(a, ref, e).available >= 0
        /\ \A p \in Payouts : Inserted(a, ref, e).held[p] >= 0
    BY <1>1, <1>2, <2>1, InsertedNotNegative
  <2> QED
    BY <1>1, <1>3, <2>2
    DEF Inv, TypeOK, AvailableNeverNegative, HeldNeverNegative
<1>9. OkMeansRecorded'
  <2> SUFFICES ASSUME NEW t \in Sessions, sess'[t].pc = "ok"
               PROVE  acct'[sess'[t].user].row[sess'[t].ref] = sess'[t].call
    BY DEF OkMeansRecorded
  <2>1. CASE t = s
    BY <1>1, <1>3, <1>5, <2>1, InsertedRows DEF Inv, TypeOK
  <2>2. CASE t # s
    <3> DEFINE w == sess[t].user
               r == sess[t].ref
    <3>1. sess'[t] = sess[t] /\ w \in Users /\ r \in Refs /\ sess[t].call \in Row
      BY <1>6, <2>2, CallsAreRows DEF Inv, TypeOK, SessionState, Idle
    <3>2. acct[w].row[r] = sess[t].call
      BY <3>1 DEF Inv, OkMeansRecorded
    <3>3. CASE w = u
      <4>1. r # ref
        BY <1>2, <3>1, <3>2, <3>3, NoneAssumption DEF Known, a
      <4>2. Inserted(a, ref, e).row[r] = a.row[r]
        BY <1>1, <3>1, <4>1, InsertedRows
      <4> QED
        BY <1>1, <1>3, <3>1, <3>2, <3>3, <4>2 DEF Inv, TypeOK, a
    <3>4. CASE w # u
      BY <1>3, <3>1, <3>2, <3>4 DEF Inv, TypeOK
    <3> QED
      BY <3>3, <3>4
  <2> QED
    BY <2>1, <2>2
<1>10. ReadStillStands'
  <2> SUFFICES ASSUME NEW t \in Sessions, sess'[t].pc = "insert"
               PROVE  /\ lock'[sess'[t].user] = t
                      /\ Answer(acct'[sess'[t].user], sess'[t].ref, sess'[t].call) = "insert"
    BY DEF ReadStillStands
  <2>1. t # s /\ sess'[t] = sess[t] /\ sess[t].user \in Users
    BY <1>5, <1>6 DEF Inv, TypeOK, SessionState, Idle
  <2>2. /\ lock[sess[t].user] = t
        /\ Answer(acct[sess[t].user], sess[t].ref, sess[t].call) = "insert"
    BY <2>1 DEF Inv, ReadStillStands
  <2>3. sess[t].user # u
    BY <1>2, <2>1, <2>2
  <2> QED
    BY <1>3, <2>1, <2>2, <2>3 DEF Inv, TypeOK
<1> QED
  BY <1>7, <1>8, <1>9, <1>10 DEF Inv

(* Rolling back changes no account. *)
LEMMA AbortInv ==
  ASSUME Inv, NEW s \in Sessions, Abort(s)
  PROVE  Inv'
<1>1. lock[sess[s].user] = s /\ sess[s].user \in Users
  BY DEF Inv, TypeOK, SessionState, Idle, ReadStillStands, Abort
<1>2. TypeOK'
  BY <1>1 DEF Inv, TypeOK, Abort, SessionState
<1>3. AvailableNeverNegative' /\ HeldNeverNegative'
  BY DEF Inv, AvailableNeverNegative, HeldNeverNegative, Abort
<1>4. OkMeansRecorded'
  BY DEF Inv, TypeOK, OkMeansRecorded, Abort, Idle
<1>5. ReadStillStands'
  <2> SUFFICES ASSUME NEW t \in Sessions, sess'[t].pc = "insert"
               PROVE  /\ lock'[sess'[t].user] = t
                      /\ Answer(acct[sess'[t].user], sess'[t].ref, sess'[t].call) = "insert"
    BY DEF ReadStillStands, Abort
  <2>1. t # s /\ sess'[t] = sess[t] /\ sess[t].user \in Users
    BY DEF Inv, TypeOK, SessionState, Idle, Abort
  <2> QED
    BY <1>1, <2>1 DEF Inv, TypeOK, ReadStillStands, Abort
<1> QED
  BY <1>2, <1>3, <1>4, <1>5 DEF Inv

(* Every step keeps the invariant. *)
LEMMA NextInv == Inv /\ [Next]_vars => Inv'
<1> SUFFICES ASSUME Inv, [Next]_vars PROVE Inv'
  OBVIOUS
<1>1. CASE Next
  BY <1>1, AskInv, InsertInv, AbortInv DEF Next
<1>2. CASE UNCHANGED vars
  BY <1>2 DEF vars, Inv, TypeOK, AvailableNeverNegative, HeldNeverNegative,
              OkMeansRecorded, ReadStillStands
<1> QED
  BY <1>1, <1>2

(***************************************************************************)
(* The ledger's three safety properties and its types hold in every        *)
(* reachable state, whatever the number of users and sessions: earnings    *)
(* are never spent twice, no payout consumes more than it reserved, and ok *)
(* always means that this very payload is recorded.                        *)
(***************************************************************************)
THEOREM LedgerInvariant == Spec => []Inv
BY InitInv, NextInv, PTL DEF Spec

(* The rows and sums of every account are well formed in every state. *)
THEOREM LedgerTypes == Spec => []TypeOK
<1>1. Inv => TypeOK
  BY DEF Inv
<1> QED
  BY <1>1, LedgerInvariant, PTL

(* A call that was answered ok finds its own payload under its reference. *)
THEOREM LedgerAnswersAreRecorded == Spec => []OkMeansRecorded
<1>1. Inv => OkMeansRecorded
  BY DEF Inv
<1> QED
  BY <1>1, LedgerInvariant, PTL

(***************************************************************************)
(* The ledger is append-only and only a new row moves a balance, for every *)
(* step of every behaviour.                                                *)
(***************************************************************************)
THEOREM LedgerAppendOnly == Spec => OnlyNewRowsMoveBalances
<1> DEFINE A == \A u \in Users :
       /\ \A ref \in Refs : Known(acct[u], ref) => acct'[u].row[ref] = acct[u].row[ref]
       /\ acct'[u] # acct[u] => \E ref \in Refs : acct'[u].row[ref] # acct[u].row[ref]
<1>1. ASSUME Inv, Next PROVE A
  <2>1. PICK s \in Sessions :
          \/ \E u \in Users, ref \in Refs, e \in Calls : Ask(s, u, ref, e)
          \/ Insert(s)
          \/ Abort(s)
    BY <1>1 DEF Next
  <2>2. CASE UNCHANGED acct
    BY <2>2
  <2>3. CASE Insert(s) /\ ~ UNCHANGED acct
    <3> DEFINE u   == sess[s].user
               ref == sess[s].ref
               e   == sess[s].call
    <3>1. u \in Users /\ ref \in Refs /\ e \in Row /\ acct[u] \in Account
      BY <1>1, <2>3, CallsAreRows DEF Inv, TypeOK, SessionState, Idle, Insert
    <3>2. ~ Known(acct[u], ref) /\ acct' = [acct EXCEPT ![u] = Inserted(acct[u], ref, e)]
      BY <1>1, <2>3, <3>1 DEF Insert, Inv, TypeOK
    <3> HIDE DEF u, ref, e
    <3>3. \A v \in Users \ {u} : acct'[v] = acct[v]
      BY <1>1, <3>2 DEF Inv, TypeOK
    <3>4. acct'[u] = Inserted(acct[u], ref, e)
      BY <1>1, <3>1, <3>2 DEF Inv, TypeOK
    <3>5. /\ acct'[u].row[ref] = e
          /\ \A r \in Refs \ {ref} : acct'[u].row[r] = acct[u].row[r]
      BY <3>1, <3>4, InsertedRows
    <3>6. acct[u].row[ref] = None /\ e # None
      BY <3>1, <3>2, NoneAssumption DEF Known
    <3> QED
      BY <3>1, <3>2, <3>3, <3>5, <3>6
  <2> QED
    BY <2>1, <2>2, <2>3 DEF Ask, Abort
<1>2. ASSUME UNCHANGED vars PROVE [A]_vars
  BY <1>2
<1>3. Inv /\ [Next]_vars => [A]_vars
  BY <1>1
<1> HIDE DEF A
<1>4. Spec => [][A]_vars
  BY <1>3, LedgerInvariant, PTL DEF Spec
<1> QED
  BY <1>4 DEF A, OnlyNewRowsMoveBalances
--------------------------------------------------------------------------------
(***************************************************************************)
(* Every account's sums are sums over its rows, of which there are finitely*)
(* many: an insert adds one, under a reference that had none.              *)
(***************************************************************************)
SumsOverRows(a) ==
  /\ a.available = Total([ref \in Rows(a) |-> AvailablePart(a.row[ref])])
  /\ a.paid = Total([ref \in Rows(a) |-> PaidPart(a.row[ref])])
  /\ \A p \in Payouts : a.held[p] = Total([ref \in Rows(a) |-> HeldPart(a.row[ref], p)])

SumsInv == \A u \in Users : IsFiniteSet(Rows(acct[u])) /\ SumsOverRows(acct[u])

(* An inserted row adds its part to each sum, and to the total over the rows. *)
LEMMA InsertedSums ==
  ASSUME NEW a \in Account, NEW ref \in Refs, NEW e \in Row, ~ Known(a, ref),
         IsFiniteSet(Rows(a)), SumsOverRows(a)
  PROVE  LET b == Inserted(a, ref, e)
         IN  IsFiniteSet(Rows(b)) /\ SumsOverRows(b)
<1> DEFINE b == Inserted(a, ref, e)
           R == Rows(a)
<1>1. /\ b.row[ref] = e /\ e # None
      /\ \A r \in Refs \ {ref} : b.row[r] = a.row[r]
  BY InsertedRows, NoneAssumption
<1>2. ref \notin R /\ Rows(b) = R \cup {ref} /\ \A r \in R : b.row[r] = a.row[r]
  BY <1>1 DEF Rows, Known
<1>3. IsFiniteSet(R) /\ IsFiniteSet(R \cup {ref})
  BY FS_AddElement
<1>4. \A r \in R : a.row[r] \in Row
  BY DEF Rows, Known, Account
<1>5. /\ b.available = a.available + AvailablePart(e)
      /\ b.paid = a.paid + PaidPart(e)
      /\ \A p \in Payouts : b.held[p] = a.held[p] + HeldPart(e, p)
  BY DEF Inserted
<1> HIDE DEF b, R
<1>6. b.available = Total([r \in R \cup {ref} |-> AvailablePart(b.row[r])])
  <2> DEFINE f == [r \in R |-> AvailablePart(a.row[r])]
             g == [r \in R \cup {ref} |-> AvailablePart(b.row[r])]
  <2>1. f \in [R -> Int] /\ g \in [R \cup {ref} -> Int] /\ \A r \in R : f[r] = g[r]
    BY <1>1, <1>2, <1>4, PartsAreIntegers
  <2>2. g[ref] = AvailablePart(e)
    BY <1>1
  <2>3. a.available = Total(f)
    BY DEF SumsOverRows, R
  <2> HIDE DEF f, g
  <2>4. Total(g) = Total(f) + g[ref]
    BY <1>2, <1>3, <2>1, TotalAdd
  <2>5. b.available = Total(g)
    BY <1>5, <2>2, <2>3, <2>4
  <2> QED
    BY <2>5 DEF g
<1>7. b.paid = Total([r \in R \cup {ref} |-> PaidPart(b.row[r])])
  <2> DEFINE f == [r \in R |-> PaidPart(a.row[r])]
             g == [r \in R \cup {ref} |-> PaidPart(b.row[r])]
  <2>1. f \in [R -> Int] /\ g \in [R \cup {ref} -> Int] /\ \A r \in R : f[r] = g[r]
    BY <1>1, <1>2, <1>4, PartsAreIntegers
  <2>2. g[ref] = PaidPart(e)
    BY <1>1
  <2>3. a.paid = Total(f)
    BY DEF SumsOverRows, R
  <2> HIDE DEF f, g
  <2>4. Total(g) = Total(f) + g[ref]
    BY <1>2, <1>3, <2>1, TotalAdd
  <2>5. b.paid = Total(g)
    BY <1>5, <2>2, <2>3, <2>4
  <2> QED
    BY <2>5 DEF g
<1>8. ASSUME NEW p \in Payouts
      PROVE  b.held[p] = Total([r \in R \cup {ref} |-> HeldPart(b.row[r], p)])
  <2> DEFINE f == [r \in R |-> HeldPart(a.row[r], p)]
             g == [r \in R \cup {ref} |-> HeldPart(b.row[r], p)]
  <2>1. f \in [R -> Int] /\ g \in [R \cup {ref} -> Int] /\ \A r \in R : f[r] = g[r]
    BY <1>1, <1>2, <1>4, PartsAreIntegers
  <2>2. g[ref] = HeldPart(e, p)
    BY <1>1
  <2>3. a.held[p] = Total(f)
    BY DEF SumsOverRows, R
  <2> HIDE DEF f, g
  <2>4. Total(g) = Total(f) + g[ref]
    BY <1>2, <1>3, <2>1, TotalAdd
  <2>5. b.held[p] = Total(g)
    BY <1>5, <2>2, <2>3, <2>4
  <2> QED
    BY <2>5 DEF g
<1>9. IsFiniteSet(Rows(b)) /\ SumsOverRows(b)
  BY <1>2, <1>3, <1>6, <1>7, <1>8 DEF SumsOverRows
<1> QED
  BY <1>9 DEF b

(* The carried sums stand for the sums over the rows, which is what lets   *)
(* the model carry them.                                                   *)
LEMMA CarriedSums == Spec => []SumsInv
<1>1. Init => SumsInv
  <2> SUFFICES ASSUME Init, NEW u \in Users
               PROVE  IsFiniteSet(Rows(acct[u])) /\ SumsOverRows(acct[u])
    BY DEF SumsInv
  <2>1. acct[u] = EmptyAccount /\ Rows(acct[u]) = {}
    BY DEF Init, Rows, Known, EmptyAccount
  <2> DEFINE a == acct[u]
  <2>2. /\ Total([ref \in Rows(a) |-> AvailablePart(a.row[ref])]) = 0
        /\ Total([ref \in Rows(a) |-> PaidPart(a.row[ref])]) = 0
        /\ \A p \in Payouts : Total([ref \in Rows(a) |-> HeldPart(a.row[ref], p)]) = 0
    BY <2>1, TotalNothing
  <2>3. a.available = 0 /\ a.paid = 0 /\ \A p \in Payouts : a.held[p] = 0
    BY <2>1 DEF EmptyAccount
  <2> HIDE DEF a
  <2>4. SumsOverRows(a)
    BY <2>2, <2>3 DEF SumsOverRows
  <2> QED
    BY <2>1, <2>4, FS_EmptySet DEF a
<1>2. Inv /\ SumsInv /\ [Next]_vars => SumsInv'
  <2> SUFFICES ASSUME Inv, SumsInv, [Next]_vars PROVE SumsInv'
    OBVIOUS
  <2>1. CASE UNCHANGED acct
    BY <2>1 DEF SumsInv, SumsOverRows, Rows, Known
  <2>2. CASE ~ UNCHANGED acct
    <3>1. PICK s \in Sessions : Insert(s)
      BY <2>2 DEF Next, vars, Ask, Abort
    <3> DEFINE u   == sess[s].user
               ref == sess[s].ref
               e   == sess[s].call
    <3>2. u \in Users /\ ref \in Refs /\ e \in Row /\ acct[u] \in Account
      BY <3>1, CallsAreRows DEF Inv, TypeOK, SessionState, Idle, Insert
    <3>3. ~ Known(acct[u], ref) /\ acct' = [acct EXCEPT ![u] = Inserted(acct[u], ref, e)]
      BY <2>2, <3>1, <3>2 DEF Insert, Inv, TypeOK
    <3> HIDE DEF u, ref, e
    <3>4. /\ \A v \in Users \ {u} : acct'[v] = acct[v]
          /\ acct'[u] = Inserted(acct[u], ref, e)
      BY <3>2, <3>3 DEF Inv, TypeOK
    <3>5. IsFiniteSet(Rows(acct'[u])) /\ SumsOverRows(acct'[u])
      BY <3>2, <3>3, <3>4, InsertedSums DEF SumsInv
    <3>6. \A v \in Users : IsFiniteSet(Rows(acct'[v])) /\ SumsOverRows(acct'[v])
      BY <3>4, <3>5 DEF SumsInv
    <3> QED
      BY <3>6 DEF SumsInv, SumsOverRows, Rows, Known
  <2> QED
    BY <2>1, <2>2
<1> QED
  BY <1>1, <1>2, LedgerInvariant, PTL DEF Spec

(***************************************************************************)
(* No interleaving of calls drives what a user's rows sum to, or what they *)
(* hold for a payout, below zero.                                          *)
(***************************************************************************)
THEOREM LedgerNeverOverdrawn == Spec => []NothingOverdrawn
<1>1. Inv /\ SumsInv => NothingOverdrawn
  BY DEF Inv, AvailableNeverNegative, HeldNeverNegative, SumsInv, SumsOverRows,
         NothingOverdrawn, Balance, HeldFor
<1> QED
  BY <1>1, LedgerInvariant, CarriedSums, PTL
--------------------------------------------------------------------------------
(***************************************************************************)
(* Refinement.  An insert is the one step of LedgerPromise a call takes:   *)
(* what the session read before still stands, so the entry is judged by    *)
(* the funds it meets.  All other steps leave the accounts alone, and who  *)
(* was told ok, of what, is OkMeansRecorded.                               *)
(***************************************************************************)

(* What each kind of call adds to the available and the held sums. *)
LEMMA PartsOfCalls ==
  ASSUME NEW e \in Calls
  PROVE  /\ e.type \in {"credit", "reserve", "settle", "release_reserve"}
         /\ e.type = "credit" => /\ AvailablePart(e) = IF e.status = "available" THEN e.amt ELSE 0
                                 /\ \A p \in Payouts : HeldPart(e, p) = 0
         /\ e.type # "credit" => e.pay \in Payouts
         /\ e.type = "reserve" => /\ AvailablePart(e) = -e.amt
                                  /\ \A p \in Payouts : HeldPart(e, p) = IF p = e.pay THEN e.amt ELSE 0
         /\ e.type \in {"settle", "release_reserve"} =>
              \A p \in Payouts : HeldPart(e, p) = IF p = e.pay THEN -e.amt ELSE 0
         /\ e.type = "settle" => AvailablePart(e) = 0
         /\ e.type = "release_reserve" => AvailablePart(e) = e.amt
<1>1. CASE e.type = "credit"
  BY <1>1 DEF Calls, Credit, Reserve, Settle, Release, AvailablePart, HeldPart
<1>2. CASE e.type = "reserve"
  BY <1>2 DEF Calls, Credit, Reserve, Settle, Release, AvailablePart, HeldPart
<1>3. CASE e.type = "settle"
  BY <1>3 DEF Calls, Credit, Reserve, Settle, Release, AvailablePart, HeldPart
<1>4. CASE e.type = "release_reserve"
  BY <1>4 DEF Calls, Credit, Reserve, Settle, Release, AvailablePart, HeldPart
<1> QED
  BY <1>1, <1>2, <1>3, <1>4 DEF Calls, Credit, Reserve, Settle, Release

(* An entry the account covers is recorded as the promise says. *)
LEMMA PromiseRecord ==
  ASSUME Inv, NEW u \in Users, NEW ref \in Refs, NEW e \in Calls,
         ~ Known(acct[u], ref), Covered(acct[u], e),
         acct' = [acct EXCEPT ![u] = Inserted(acct[u], ref, e)]
  PROVE  Promise!Record(u, ref, e)
<1> DEFINE rows == [v \in Users |-> acct[v].row]
           free == [v \in Users |-> acct[v].available]
           hold == [v \in Users |-> acct[v].held]
<1>1. acct[u] \in Account /\ e \in Row /\ e.amt \in Int
  BY CallsAreRows DEF Inv, TypeOK, Row, Positive
<1>i. acct'[u] = Inserted(acct[u], ref, e) /\ \A v \in Users \ {u} : acct'[v] = acct[v]
  BY DEF Inv, TypeOK
<1>2. /\ rows' = [rows EXCEPT ![u][ref] = e]
      /\ free' = [free EXCEPT ![u] = @ + AvailablePart(e)]
      /\ hold' = [hold EXCEPT ![u] = [p \in Payouts |-> hold[u][p] + HeldPart(e, p)]]
  <2>1. acct'[u].row = [acct[u].row EXCEPT ![ref] = e]
    BY <1>i DEF Inserted
  <2>2. acct'[u].available = acct[u].available + AvailablePart(e)
    BY <1>i DEF Inserted
  <2>3. acct'[u].held = [p \in Payouts |-> acct[u].held[p] + HeldPart(e, p)]
    BY <1>i DEF Inserted
  <2>4. rows' = [rows EXCEPT ![u][ref] = e]
    <3>1. \A v \in Users : acct'[v].row = IF v = u THEN [acct[u].row EXCEPT ![ref] = e]
                                              ELSE acct[v].row
      BY <1>i, <2>1
    <3> QED
      BY <3>1
  <2>5. free' = [free EXCEPT ![u] = @ + AvailablePart(e)]
    <3>1. \A v \in Users : acct'[v].available = IF v = u THEN acct[u].available + AvailablePart(e)
                                              ELSE acct[v].available
      BY <1>i, <2>2
    <3> QED
      BY <3>1
  <2>6. hold' = [hold EXCEPT ![u] = [p \in Payouts |-> hold[u][p] + HeldPart(e, p)]]
    <3>1. \A v \in Users : acct'[v].held = IF v = u THEN [p \in Payouts |-> acct[u].held[p] + HeldPart(e, p)]
                                              ELSE acct[v].held
      BY <1>i, <2>3
    <3> QED
      BY <3>1
  <2> QED
    BY <2>4, <2>5, <2>6
<1>3. /\ rows[u][ref] = None
      /\ free \in [Users -> Int] /\ free[u] = acct[u].available
      /\ hold \in [Users -> [Payouts -> Int]] /\ hold[u] = acct[u].held
  BY DEF Inv, TypeOK, Account, Known
<1> HIDE DEF rows, free, hold
<1>4. CASE e.type = "credit"
  <2>1. free' = IF e.status = "available" THEN [free EXCEPT ![u] = @ + e.amt] ELSE free
    <3>1. CASE e.status = "available"
      <4>1. AvailablePart(e) = e.amt
        BY <1>4, <3>1 DEF AvailablePart
      <4> QED
        BY <1>2, <3>1, <4>1
    <3>2. CASE e.status # "available"
      <4>1. AvailablePart(e) = 0
        BY <1>4, <3>2 DEF AvailablePart
      <4>2. [free EXCEPT ![u] = @ + 0] = free
        BY <1>3
      <4> QED
        BY <1>2, <3>2, <4>1, <4>2
    <3> QED
      BY <3>1, <3>2
  <2>2. hold' = hold
    <3>1. [p \in Payouts |-> hold[u][p] + HeldPart(e, p)] = hold[u]
      BY <1>3, <1>4, PartsOfCalls
    <3> QED
      BY <1>2, <1>3, <3>1
  <2> QED
    BY <1>2, <1>3, <1>4, <2>1, <2>2 DEF Promise!Record, Promise!Earn, rows, free, hold
<1>5. CASE e.type # "credit"
  <2>1. e.pay \in Payouts
    BY <1>5, PartsOfCalls
  <2>2. ASSUME NEW n \in Int, \A p \in Payouts : HeldPart(e, p) = IF p = e.pay THEN n ELSE 0
        PROVE  hold' = [hold EXCEPT ![u][e.pay] = @ + n]
    <3>1. [p \in Payouts |-> hold[u][p] + HeldPart(e, p)] = [hold[u] EXCEPT ![e.pay] = @ + n]
      BY <1>3, <2>1, <2>2
    <3> QED
      BY <1>2, <3>1
  <2>3. CASE e.type = "reserve"
    <3>1. free' = [free EXCEPT ![u] = @ - e.amt]
      BY <1>1, <1>2, <1>3, <2>3, PartsOfCalls
    <3>2. hold' = [hold EXCEPT ![u][e.pay] = @ + e.amt]
      BY <1>1, <2>2, <2>3, PartsOfCalls
    <3>3. e.amt \in MinPayout..MaxPayout /\ e.amt <= free[u]
      BY <1>1, <1>3, <2>3, PolicyAssumption DEF Covered
    <3> QED
      BY <1>2, <1>3, <2>3, <3>1, <3>2, <3>3 DEF Promise!Record, Promise!Hold, rows, free, hold
  <2>4. ASSUME e.type \in {"settle", "release_reserve"}
        PROVE  hold' = [hold EXCEPT ![u][e.pay] = @ - e.amt] /\ e.amt <= hold[u][e.pay]
    <3>1. hold' = [hold EXCEPT ![u][e.pay] = @ + -e.amt]
      BY <1>1, <2>2, <2>4, PartsOfCalls
    <3>2. hold[u][e.pay] \in Int
      BY <1>3, <2>1
    <3>3. hold[u][e.pay] + -e.amt = hold[u][e.pay] - e.amt
      BY <1>1, <3>2
    <3>4. e.amt <= acct[u].held[e.pay]
      BY <2>4 DEF Covered
    <3> QED
      BY <1>3, <2>1, <3>1, <3>3, <3>4
  <2>5. CASE e.type = "settle"
    <3>1. free' = free
      BY <1>2, <1>3, <2>5, PartsOfCalls
    <3> QED
      BY <1>2, <1>3, <2>4, <2>5, <3>1 DEF Promise!Record, Promise!PayOut, rows, free, hold
  <2>6. CASE e.type = "release_reserve"
    <3>1. free' = [free EXCEPT ![u] = @ + e.amt]
      BY <1>2, <2>6, PartsOfCalls
    <3> QED
      BY <1>2, <1>3, <2>4, <2>6, <3>1 DEF Promise!Record, Promise!GiveBack, rows, free, hold
  <2> QED
    BY <1>5, <2>3, <2>5, <2>6, PartsOfCalls
<1> QED
  BY <1>4, <1>5

(* Who was told ok of what is what the promise allows to be heard. *)
LEMMA PromiseHeard ==
  ASSUME Inv'
  PROVE  \A ok \in Heard' : ([u \in Users |-> acct[u].row]')[ok.user][ok.ref] = ok.call
<1> SUFFICES ASSUME NEW s \in Sessions, sess'[s].pc = "ok"
             PROVE  ([u \in Users |-> acct[u].row]')[sess'[s].user][sess'[s].ref] = sess'[s].call
  BY DEF Heard
<1>1. sess'[s].user \in Users
  BY DEF Inv, TypeOK, SessionState, Idle
<1>2. acct'[sess'[s].user].row[sess'[s].ref] = sess'[s].call
  BY DEF Inv, OkMeansRecorded
<1> QED
  BY <1>1, <1>2

(***************************************************************************)
(* The ledger keeps its promise: however its sessions interleave, abort    *)
(* and repeat calls, it behaves as if one call were carried out at a time. *)
(***************************************************************************)
THEOREM LedgerKeepsPromise == Spec => PromiseKept
<1>1. Init => Promise!Init
  <2> SUFFICES ASSUME Init PROVE Promise!Init
    OBVIOUS
  <2>1. Heard = {}
    BY DEF Init, Heard, Idle
  <2> QED
    BY <2>1 DEF Init, Promise!Init, EmptyAccount
<1>2. Inv /\ Inv' /\ [Next]_vars => [Promise!Next]_(Promise!vars)
  <2> SUFFICES ASSUME Inv, Inv', Next PROVE Promise!Next
    BY DEF vars, Promise!vars, Heard
  <2>1. CASE UNCHANGED acct
    BY <2>1, PromiseHeard DEF Promise!Next
  <2>2. CASE ~ UNCHANGED acct
    <3>1. PICK s \in Sessions : Insert(s)
      BY <2>2 DEF Next, Ask, Abort
    <3>2. /\ sess[s].user \in Users /\ sess[s].ref \in Refs /\ sess[s].call \in Calls
          /\ Answer(acct[sess[s].user], sess[s].ref, sess[s].call) = "insert"
      BY <3>1 DEF Inv, TypeOK, SessionState, Idle, ReadStillStands, Insert
    <3>3. PICK u \in Users, ref \in Refs, e \in Calls :
            /\ ~ Known(acct[u], ref) /\ Covered(acct[u], e)
            /\ acct' = [acct EXCEPT ![u] = Inserted(acct[u], ref, e)]
      BY <3>1, <3>2, AnswerInsert DEF Insert, Inv, TypeOK
    <3>4. Promise!Record(u, ref, e)
      BY <3>3, PromiseRecord
    <3> QED
      BY <3>4, PromiseHeard DEF Promise!Next
  <2> QED
    BY <2>1, <2>2
<1> QED
  BY <1>1, <1>2, LedgerInvariant, PTL DEF Spec, PromiseKept, Promise!Spec
================================================================================
