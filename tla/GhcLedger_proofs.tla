---------------------------- MODULE GhcLedger_proofs ----------------------------
(***************************************************************************)
(* Proofs about GhcLedger, for any users, sessions, references, amounts    *)
(* and calls.  The inductive invariant IInv says what a session knows once *)
(* it has decided: what it read still holds, since nobody changes it but   *)
(* under a lock the session holds.                                         *)
(***************************************************************************)
EXTENDS GhcLedger, FiniteSetTheorems, SequenceTheorems, TLAPS

--------------------------------------------------------------------------------
(* The plans. *)
LEMMA BothFacts ==
  ASSUME NEW u \in Users, NEW v \in Users, u # v
  PROVE  /\ Len(BothBalances(u, v)) = 2
         /\ \E x, y \in Users : /\ {x, y} = {u, v} /\ x < y
                                /\ BothBalances(u, v) = <<Balance(x), Balance(y)>>
BY UsersAssumption DEF BothBalances

LEMMA PrependToPair ==
  ASSUME NEW a, NEW b, NEW c
  PROVE  <<a>> \o <<b, c>> = <<a, b, c>>
<1>. DEFINE abc == <<a>> \o <<b, c>>
            S == {a, b, c}
<1>1. <<a>> \in Seq(S) /\ <<b, c>> \in Seq(S) /\ <<a, b, c>> \in Seq(S)
  OBVIOUS
<1>2. abc \in Seq(S) /\ Len(abc) = 3
  BY <1>1, ConcatProperties
<1>3. \A i \in 1..3 : abc[i] = <<a, b, c>>[i]
  BY <1>1, ConcatProperties
<1>4. Len(<<a, b, c>>) = 3
  OBVIOUS
<1>. QED BY <1>1, <1>2, <1>3, <1>4, SeqEqual

(* A plan by operation; of a transfer, the lower balance lock comes first. *)
LEMMA PlanFacts ==
  ASSUME NEW c \in AllCalls
  PROVE  /\ c.op \in {"spend", "withdraw"} => Plan(c) = <<Balance(c.user)>>
         /\ c.op = "settle" => Plan(c) = <<<<"withdrawal", c.user, c.ref>>, Balance(c.user)>>
         /\ c.op = "give" => Plan(c) = <<<<"social", c.user, c.to>>>>
         /\ c.op = "send" =>
              \E x, y \in Users : /\ {x, y} = {c.user, c.to} /\ x < y
                                  /\ Plan(c) = <<Balance(x), Balance(y)>>
         /\ c.op = "accept" =>
              \E x, y \in Users : /\ {x, y} = {c.user, c.to} /\ x < y
                                  /\ Plan(c) = <<<<"ask", c.ref>>, Balance(x), Balance(y)>>
<1>1. CASE c.op \in {"send", "accept"}
  <2>1. c.user \in Users /\ c.to \in Users /\ c.user # c.to
    BY <1>1 DEF AllCalls, Pairs
  <2>2. PICK x, y \in Users : /\ {x, y} = {c.user, c.to} /\ x < y
                              /\ BothBalances(c.user, c.to) = <<Balance(x), Balance(y)>>
    BY <2>1, BothFacts
  <2>3. <<<<"ask", c.ref>>>> \o <<Balance(x), Balance(y)>>
          = <<<<"ask", c.ref>>, Balance(x), Balance(y)>>
    BY PrependToPair
  <2>. QED BY <1>1, <2>2, <2>3 DEF Plan
<1>2. CASE c.op \notin {"send", "accept"}
  BY <1>2 DEF Plan
<1>. QED BY <1>1, <1>2

LEMMA CallType ==
  ASSUME NEW c \in AllCalls
  PROVE  /\ c.op \in {"spend", "send", "accept", "give", "withdraw", "settle"}
         /\ c # NoCall
         /\ c.user \in Users
         /\ c.op \in {"send", "accept", "give"} => c.to \in Users /\ c.user # c.to
         /\ c.op = "spend" => c.ref \in Refs /\ c.amount \in Amounts
         /\ c.op \in {"send", "accept"} => c.ref \in Refs /\ c.amount \in Amounts
         /\ c.op = "give" => c.amount = Share
         /\ c.op \in {"withdraw", "settle"} => c.ref \in Withdrawals /\ c.amount = Reserve
         /\ c.amount \in Nat \ {0}
<1>1. c.amount \in Amounts \cup {Reserve, Share}
  BY DEF AllCalls
<1>2. c.amount \in Nat \ {0}
  BY <1>1, AmountAssumption
<1>. QED BY <1>2 DEF AllCalls, Pairs, NoCall

LEMMA NoPlan == Plan(NoCall) = << >> /\ Len(Plan(NoCall)) = 0
BY DEF Plan, NoCall

(* Between one and three locks. *)
LEMMA PlanLength ==
  ASSUME NEW c \in AllCalls
  PROVE  Len(Plan(c)) \in 1..3
<1>1. CASE c.op = "send"
  BY <1>1, PlanFacts
<1>2. CASE c.op = "accept"
  BY <1>2, PlanFacts
<1>3. CASE c.op \notin {"send", "accept"}
  BY <1>3, PlanFacts, CallType
<1>. QED BY <1>1, <1>2, <1>3

--------------------------------------------------------------------------------
(* Sessions and their locks. *)
Full(s) == sess[s].got = Len(Plan(sess[s].call))

SessOK(s) ==
  /\ sess[s].call = NoCall => sess[s] = Idle
  /\ sess[s].call # NoCall =>
       sess[s].call \in Calls /\ sess[s].got \in 1..Len(Plan(sess[s].call))
  /\ sess[s].due # "nothing" => sess[s].call # NoCall /\ Full(s)

Exclusive == \A s, t \in Sessions : s # t => Held(s) \cap Held(t) = {}

(* With all its locks, a session holds these. *)
LEMMA FullHolds ==
  ASSUME NEW s \in Sessions, sess[s].call \in AllCalls, Full(s)
  PROVE  LET c == sess[s].call
         IN  /\ c.op \in {"spend", "withdraw", "settle", "send", "accept"} =>
                  Balance(c.user) \in Held(s)
             /\ c.op \in {"send", "accept"} => Balance(c.to) \in Held(s)
             /\ c.op = "accept" => <<"ask", c.ref>> \in Held(s)
             /\ c.op = "settle" => <<"withdrawal", c.user, c.ref>> \in Held(s)
<1>. DEFINE c == sess[s].call
<1>1. \A i \in 1..Len(Plan(c)) : Plan(c)[i] \in Held(s)
  BY DEF Full, Held
<1>2. CASE c.op = "send"
  <2>1. PICK x, y \in Users : {x, y} = {c.user, c.to} /\ Plan(c) = <<Balance(x), Balance(y)>>
    BY <1>2, PlanFacts
  <2>2. Balance(x) \in Held(s) /\ Balance(y) \in Held(s)
    <3>1. Len(Plan(c)) = 2 /\ Plan(c)[1] = Balance(x) /\ Plan(c)[2] = Balance(y)
      BY <2>1
    <3>. QED BY <3>1, <1>1
  <2>. QED BY <2>1, <2>2, <1>2
<1>3. CASE c.op = "accept"
  <2>1. PICK x, y \in Users : /\ {x, y} = {c.user, c.to}
                              /\ Plan(c) = <<<<"ask", c.ref>>, Balance(x), Balance(y)>>
    BY <1>3, PlanFacts
  <2>2. Balance(x) \in Held(s) /\ Balance(y) \in Held(s) /\ <<"ask", c.ref>> \in Held(s)
    <3>1. /\ Len(Plan(c)) = 3 /\ Plan(c)[1] = <<"ask", c.ref>>
          /\ Plan(c)[2] = Balance(x) /\ Plan(c)[3] = Balance(y)
      BY <2>1
    <3>. QED BY <3>1, <1>1
  <2>. QED BY <2>1, <2>2, <1>3
<1>4. CASE c.op = "settle"
  <2>1. Plan(c) = <<<<"withdrawal", c.user, c.ref>>, Balance(c.user)>>
    BY <1>4, PlanFacts
  <2>. QED BY <2>1, <1>1, <1>4
<1>5. CASE c.op \in {"spend", "withdraw"}
  <2>1. Plan(c) = <<Balance(c.user)>>
    BY <1>5, PlanFacts
  <2>. QED BY <2>1, <1>1, <1>5
<1>6. CASE c.op = "give"
  BY <1>6
<1>. QED BY <1>2, <1>3, <1>4, <1>5, <1>6, CallType

--------------------------------------------------------------------------------
(* The locks are exclusive, and a session decides only with all it needs. *)
SessType == sess \in [Sessions -> [call : Calls \cup {NoCall}, got : 0..3,
                                   due : {"nothing", "insert", "mark"}]]

LocksOK == SessType /\ Exclusive /\ \A s \in Sessions : SessOK(s)

(* What a step does to sess: nothing, one session further, or one idle. *)
Advances(s) ==
  \/ \E c \in Calls : Begin(s, c)
  \/ Acquire(s)
  \/ Decide(s)

Releases(s) == sess' = [sess EXCEPT ![s] = Idle]

LEMMA SessSteps ==
  ASSUME Next
  PROVE  \/ sess' = sess
         \/ \E s \in Sessions : Advances(s) \/ Releases(s)
BY DEF Next, Advances, Releases, Closed, Abort, Insert, Commit, Spend, Send, Accept,
       MarkAccepted, Withdraw, Settle, Give, DailyClaim, Redeem, Reject, CreateAsk, CloseAsk

LEMMA HeldSame ==
  ASSUME NEW s \in Sessions, sess'[s].call = sess[s].call, sess'[s].got = sess[s].got
  PROVE  Held(s)' = Held(s)
BY DEF Held

LEMMA ReleaseKeepsLocks ==
  ASSUME LocksOK, NEW s \in Sessions, Releases(s)
  PROVE  LocksOK'
<1>1. SessType'
  BY DEF LocksOK, SessType, Releases, Idle
<1>2. sess'[s] = Idle /\ \A t \in Sessions \ {s} : sess'[t] = sess[t]
  BY DEF LocksOK, SessType, Releases
<1>3. Held(s)' = {}
  BY <1>2, NoPlan DEF Held, Idle
<1>4. \A t \in Sessions \ {s} : Held(t)' = Held(t)
  BY <1>2, HeldSame
<1>5. Exclusive'
  BY <1>3, <1>4 DEF Exclusive, LocksOK
<1>6. \A t \in Sessions : SessOK(t)'
  BY <1>2 DEF LocksOK, SessOK, Full, Idle
<1>. QED BY <1>1, <1>5, <1>6 DEF LocksOK

LEMMA BeginKeepsLocks ==
  ASSUME LocksOK, NEW s \in Sessions, NEW c \in Calls, Begin(s, c)
  PROVE  LocksOK'
<1>1. c \in AllCalls /\ Len(Plan(c)) \in 1..3 /\ c # NoCall
  BY CallsAssumption, PlanLength, CallType
<1>2. /\ sess'[s] = [call |-> c, got |-> 1, due |-> "nothing"]
      /\ \A t \in Sessions \ {s} : sess'[t] = sess[t]
  BY DEF LocksOK, SessType, Begin
<1>3. SessType'
  BY DEF LocksOK, SessType, Begin
<1>4. Held(s)' = {Plan(c)[1]}
  BY <1>2, <1>1 DEF Held
<1>5. \A t \in Sessions \ {s} : Held(t)' = Held(t)
  BY <1>2, HeldSame
<1>6. Exclusive'
  BY <1>4, <1>5 DEF Exclusive, LocksOK, Begin, Free
<1>7. \A t \in Sessions : SessOK(t)'
  <2>1. SessOK(s)'
    BY <1>1, <1>2 DEF SessOK
  <2>2. ASSUME NEW t \in Sessions \ {s} PROVE SessOK(t)'
    BY <1>2, SessOK(t) DEF LocksOK, SessOK, Full
  <2>. QED BY <2>1, <2>2
<1>. QED BY <1>3, <1>6, <1>7 DEF LocksOK

LEMMA AcquireKeepsLocks ==
  ASSUME LocksOK, NEW s \in Sessions, Acquire(s)
  PROVE  LocksOK'
<1>. DEFINE c == sess[s].call
            n == sess[s].got
<1>1. c \in AllCalls /\ Len(Plan(c)) \in 1..3 /\ c # NoCall /\ n \in 0..3
  <2>1. c \in Calls \cup {NoCall} /\ n \in 0..3 /\ n < Len(Plan(c))
    BY DEF Acquire, LocksOK, SessType
  <2>2. c # NoCall
    BY <2>1, NoPlan
  <2>. QED BY <2>1, <2>2, CallsAssumption, PlanLength
<1>2. /\ sess'[s] = [sess[s] EXCEPT !.got = n + 1]
      /\ \A t \in Sessions \ {s} : sess'[t] = sess[t]
  BY DEF LocksOK, SessType, Acquire
<1>3. n < Len(Plan(c)) /\ n + 1 \in 1..3
  BY <1>1 DEF Acquire
<1>4. sess'[s].call = c /\ sess'[s].got = n + 1 /\ sess'[s].due = sess[s].due
  BY <1>2 DEF LocksOK, SessType
<1>5. SessType'
  <2>1. sess'[s] \in [call : Calls \cup {NoCall}, got : 0..3, due : {"nothing", "insert", "mark"}]
    BY <1>2, <1>3 DEF LocksOK, SessType
  <2>. QED BY <2>1 DEF LocksOK, SessType, Acquire
<1>6. Held(s)' = Held(s) \cup {Plan(c)[n + 1]}
  <2>1. Held(s)' = {Plan(c)[i] : i \in 1..(n + 1)}
    BY <1>4 DEF Held
  <2>2. 1..(n + 1) = 1..n \cup {n + 1}
    BY <1>1
  <2>. QED BY <2>1, <2>2 DEF Held
<1>7. \A t \in Sessions \ {s} : Held(t)' = Held(t)
  BY <1>2, HeldSame
<1>8. Exclusive'
  BY <1>6, <1>7 DEF Exclusive, LocksOK, Acquire, Free
<1>9. \A t \in Sessions : SessOK(t)'
  <2>1. SessOK(s)'
    <3>1. c \in Calls /\ sess[s].due = "nothing"
      BY <1>1, <1>3 DEF LocksOK, SessType, SessOK, Full
    <3>. QED BY <3>1, <1>1, <1>3, <1>4 DEF SessOK
  <2>2. ASSUME NEW t \in Sessions \ {s} PROVE SessOK(t)'
    BY <1>2, SessOK(t) DEF LocksOK, SessOK, Full
  <2>. QED BY <2>1, <2>2
<1>. QED BY <1>5, <1>8, <1>9 DEF LocksOK

LEMMA DecideKeepsLocks ==
  ASSUME LocksOK, NEW s \in Sessions, Decide(s)
  PROVE  LocksOK'
<1>1. CASE Answer(sess[s].call) \notin {"insert", "mark"}
  <2>1. Releases(s)
    BY <1>1 DEF Decide, Releases
  <2>. QED BY <2>1, ReleaseKeepsLocks
<1>2. CASE Answer(sess[s].call) \in {"insert", "mark"}
  <2>1. PICK a \in {"insert", "mark"} : a = Answer(sess[s].call)
    BY <1>2
  <2>2. sess' = [sess EXCEPT ![s].due = a]
    BY <2>1 DEF Decide
  <2>3. SessType'
    BY <2>2 DEF LocksOK, SessType
  <2>4. /\ sess'[s].call = sess[s].call /\ sess'[s].got = sess[s].got
        /\ \A t \in Sessions \ {s} : sess'[t] = sess[t]
    BY <2>2 DEF LocksOK, SessType
  <2>5. \A t \in Sessions : Held(t)' = Held(t)
    BY <2>4, HeldSame
  <2>6. \A t \in Sessions : SessOK(t)'
    BY <2>4 DEF LocksOK, SessOK, Full, Decide, Ready
  <2>. QED BY <2>3, <2>5, <2>6 DEF LocksOK, Exclusive
<1>. QED BY <1>1, <1>2

LEMMA LocksInductive ==
  ASSUME LocksOK, [Next]_vars
  PROVE  LocksOK'
<1>1. CASE sess' = sess
  <2>1. \A t \in Sessions : Held(t)' = Held(t)
    BY <1>1, HeldSame
  <2>. QED BY <1>1, <2>1 DEF LocksOK, SessType, Exclusive, SessOK, Full
<1>2. CASE \E s \in Sessions : Advances(s) \/ Releases(s)
  BY <1>2, ReleaseKeepsLocks, BeginKeepsLocks, AcquireKeepsLocks, DecideKeepsLocks DEF Advances
<1>3. sess' = sess \/ \E s \in Sessions : Advances(s) \/ Releases(s)
  BY SessSteps DEF vars
<1>. QED BY <1>1, <1>2, <1>3

LEMMA LocksInit ==
  ASSUME Init
  PROVE  LocksOK
<1>1. SessType
  BY DEF Init, SessType, Idle
<1>2. \A s \in Sessions : Held(s) = {}
  BY NoPlan DEF Init, Held, Idle
<1>3. \A s \in Sessions : SessOK(s)
  BY DEF Init, SessOK, Idle
<1>. QED BY <1>1, <1>2, <1>3 DEF LocksOK, Exclusive

--------------------------------------------------------------------------------
(* What a user's open withdrawals reserve. *)
LEMMA OpenFinite ==
  ASSUME NEW u \in Users
  PROVE  IsFiniteSet(Open(u)) /\ Cardinality(Open(u)) \in Nat
BY SetsAssumption, FS_Subset, FS_CardinalityType DEF Open

LEMMA ReserveType == Reserve \in Nat \ {0} /\ Share \in Nat \ {0} /\ Claim \in Nat \ {0}
BY AmountAssumption

LEMMA ReservedType ==
  ASSUME NEW u \in Users
  PROVE  Reserved(u) \in Nat
BY OpenFinite, ReserveType DEF Reserved

LEMMA ReservedTypePrime ==
  ASSUME NEW u \in Users
  PROVE  Reserved(u)' \in Nat
<1>1. IsFiniteSet(Open(u)')
  BY SetsAssumption, FS_Subset DEF Open
<1>2. Cardinality(Open(u)') \in Nat
  BY <1>1, FS_CardinalityType
<1>. QED BY <1>2, ReserveType DEF Reserved

LEMMA ReservedSame ==
  ASSUME NEW u \in Users, wd'[u] = wd[u]
  PROVE  Reserved(u)' = Reserved(u)
BY DEF Reserved, Open

WdType == wd \in [Users -> [Withdrawals -> {"none", "open", "completed", "rejected"}]]

LEMMA ReservedMore ==
  ASSUME WdType, NEW u \in Users, NEW w \in Withdrawals, wd[u][w] # "open",
         wd' = [wd EXCEPT ![u][w] = "open"]
  PROVE  /\ Reserved(u)' = Reserved(u) + Reserve
         /\ \A v \in Users \ {u} : Reserved(v)' = Reserved(v)
<1>1. Open(u)' = Open(u) \cup {w} /\ w \notin Open(u)
  BY DEF Open, WdType
<1>2. Cardinality(Open(u)') = Cardinality(Open(u)) + 1
  BY <1>1, OpenFinite, FS_AddElement
<1>3. Reserved(u)' = Reserve * (Cardinality(Open(u)) + 1)
  BY <1>2 DEF Reserved
<1>4. Reserve * (Cardinality(Open(u)) + 1) = Reserve * Cardinality(Open(u)) + Reserve
  BY OpenFinite, ReserveType
<1>5. \A v \in Users \ {u} : wd'[v] = wd[v]
  BY DEF WdType
<1>. QED BY <1>3, <1>4, <1>5, ReservedSame DEF Reserved

LEMMA ReservedLess ==
  ASSUME WdType, NEW u \in Users, NEW w \in Withdrawals, NEW x, x # "open", wd[u][w] = "open",
         wd' = [wd EXCEPT ![u][w] = x]
  PROVE  /\ Reserved(u) = Reserved(u)' + Reserve
         /\ \A v \in Users \ {u} : Reserved(v)' = Reserved(v)
         /\ Reserve * Cardinality(Open(u) \ {w}) = Reserved(u)'
<1>1. Open(u)' = Open(u) \ {w} /\ w \in Open(u)
  BY DEF Open, WdType
<1>2. Cardinality(Open(u) \ {w}) = Cardinality(Open(u)) - 1 /\ Cardinality(Open(u) \ {w}) \in Nat
  BY <1>1, OpenFinite, FS_RemoveElement, FS_CardinalityType
<1>3. Reserved(u)' = Reserve * Cardinality(Open(u) \ {w})
  BY <1>1 DEF Reserved
<1>4. Reserve * (Cardinality(Open(u) \ {w}) + 1) = Reserve * Cardinality(Open(u) \ {w}) + Reserve
  BY <1>2, ReserveType
<1>5. Cardinality(Open(u)) = Cardinality(Open(u) \ {w}) + 1
  BY <1>2, OpenFinite
<1>6. \A v \in Users \ {u} : wd'[v] = wd[v]
  BY DEF WdType
<1>7. Reserved(u) = Reserve * Cardinality(Open(u) \ {w}) + Reserve
  BY <1>4, <1>5 DEF Reserved
<1>. QED BY <1>3, <1>6, <1>7, ReservedSame

--------------------------------------------------------------------------------
(***************************************************************************)
(* What a session has read before it decided, and still relies on.         *)
(***************************************************************************)
Asked(c, x) == [status |-> x, payer |-> c.user, requester |-> c.to, amount |-> c.amount]

CallOK(s) ==
  sess[s].call.op = "accept" =>
    \E x \in {"PENDING", "ACCEPTED", "CLOSED"} :
      ask[sess[s].call.ref] = Asked(sess[s].call, x)

Untouched(u) == \A v \in Users : u \notin given[v]

CanPay(u, a) == given[u] = {} => posted[u] - Reserved(u) >= a

CanMove(c) ==
  /\ sent[c.user][c.ref] = NoRow
  /\ CanPay(c.user, c.amount)
  /\ given[c.user] = {} => today[c.user].out + c.amount =< DailySend
  /\ Untouched(c.to) => today[c.to].in + c.amount =< DailyReceive

Relies(s) ==
  LET c == sess[s].call
  IN  /\ sess[s].due = "insert" =>
           /\ c.op = "spend" => spent[c.user][c.ref] = 0 /\ CanPay(c.user, c.amount)
           /\ c.op \in {"send", "accept"} => CanMove(c)
           /\ c.op = "accept" => ask[c.ref] = Asked(c, "PENDING")
           /\ c.op = "withdraw" => wd[c.user][c.ref] = "none" /\ CanPay(c.user, c.amount)
           /\ c.op = "settle" => wd[c.user][c.ref] = "open"
      /\ sess[s].due = "mark" =>
           /\ c.op = "accept"
           /\ ask[c.ref] = Asked(c, "PENDING")
           /\ sent[c.user][c.ref] = [to |-> c.to, amount |-> c.amount]

IInv ==
  /\ TypeOK
  /\ LocksOK
  /\ \A s \in Sessions : CallOK(s) /\ Relies(s)
  /\ ReservationsCovered
  /\ LimitsKept
  /\ AcceptedMeansMoved

(***************************************************************************)
(* What others leave as it is for whoever holds u's balance lock: money    *)
(* may come in and curation may end the promise, nothing else happens.     *)
(***************************************************************************)
Kept(u) ==
  /\ given[u] # {} => given'[u] # {}
  /\ given'[u] = {} => /\ posted'[u] - Reserved(u)' >= posted[u] - Reserved(u)
                       /\ today'[u].out = today[u].out
  /\ Untouched(u)' => Untouched(u) /\ today'[u].in = today[u].in
  /\ spent'[u] = spent[u] /\ sent'[u] = sent[u]
  /\ \A w \in Withdrawals : wd[u][w] = "none" => wd'[u][w] = "none"

KeptFor(t) ==
  /\ \A u \in Users : Balance(u) \in Held(t) => Kept(u)
  /\ \A k \in Refs : <<"ask", k>> \in Held(t) /\ ask[k].status = "PENDING" => ask'[k] = ask[k]
  /\ \A u \in Users, w \in Withdrawals :
       <<"withdrawal", u, w>> \in Held(t) /\ wd[u][w] = "open" => wd'[u][w] = "open"

(* A user's balance lock covers what a decided call relies on. *)
LEMMA PayKept ==
  ASSUME NEW u \in Users, NEW a \in Int, Kept(u), CanPay(u, a),
         posted[u] \in Int, posted'[u] \in Int, Reserved(u) \in Int, Reserved(u)' \in Int
  PROVE  CanPay(u, a)'
BY DEF Kept, CanPay

LEMMA MoveKept ==
  ASSUME TypeOK, TypeOK', NEW c \in AllCalls, c.op \in {"send", "accept"},
         Kept(c.user), Kept(c.to), CanMove(c)
  PROVE  CanMove(c)'
<1>1. c.user \in Users /\ c.to \in Users /\ c.ref \in Refs /\ c.amount \in Int
  BY CallType
<1>2. CanPay(c.user, c.amount)'
  <2>1. Reserved(c.user) \in Int /\ Reserved(c.user)' \in Int
    BY <1>1, ReservedType, ReservedTypePrime
  <2>. QED BY <1>1, <2>1, PayKept DEF CanMove, TypeOK
<1>. QED BY <1>1, <1>2 DEF CanMove, Kept

LEMMA ReliesKept ==
  ASSUME TypeOK, TypeOK', LocksOK, NEW t \in Sessions, sess'[t] = sess[t],
         Relies(t), KeptFor(t)
  PROVE  Relies(t)'
<1>. DEFINE c == sess[t].call
<1>. SUFFICES ASSUME sess[t].due # "nothing" PROVE Relies(t)'
  BY DEF Relies
<1>1. c \in AllCalls /\ Full(t)
  BY CallsAssumption DEF LocksOK, SessOK
<1>2. c.user \in Users /\ c.amount \in Int
  BY <1>1, CallType
<1>3. Reserved(c.user) \in Int /\ Reserved(c.user)' \in Int /\ posted[c.user] \in Int /\ posted'[c.user] \in Int
  BY <1>2, ReservedType, ReservedTypePrime DEF TypeOK
<1>4. CASE c.op = "spend"
  <2>1. Kept(c.user)
    BY <1>1, <1>2, <1>4, FullHolds DEF KeptFor
  <2>2. sess[t].due = "insert" => spent'[c.user][c.ref] = 0 /\ CanPay(c.user, c.amount)'
    BY <1>2, <1>3, <1>4, <2>1, PayKept DEF Relies, Kept
  <2>. QED BY <1>4, <2>2 DEF Relies
<1>5. CASE c.op = "withdraw"
  <2>1. Kept(c.user)
    BY <1>1, <1>2, <1>5, FullHolds DEF KeptFor
  <2>2. sess[t].due = "insert" => wd'[c.user][c.ref] = "none" /\ CanPay(c.user, c.amount)'
    BY <1>1, <1>2, <1>3, <1>5, <2>1, PayKept, CallType DEF Relies, Kept
  <2>. QED BY <1>5, <2>2 DEF Relies
<1>6. CASE c.op = "settle"
  <2>1. sess[t].due = "insert" => wd'[c.user][c.ref] = "open"
    BY <1>1, <1>2, <1>6, FullHolds, CallType DEF KeptFor, Relies
  <2>. QED BY <1>6, <2>1 DEF Relies
<1>7. CASE c.op \in {"send", "accept"}
  <2>1. c.to \in Users /\ c.ref \in Refs /\ Kept(c.user) /\ Kept(c.to)
    BY <1>1, <1>2, <1>7, FullHolds, CallType DEF KeptFor
  <2>2. sess[t].due = "insert" => CanMove(c)'
    BY <1>1, <1>7, <2>1, MoveKept DEF Relies
  <2>3. c.op = "accept" => ask'[c.ref] = ask[c.ref]
    <3>. SUFFICES ASSUME c.op = "accept" PROVE ask'[c.ref] = ask[c.ref]
      OBVIOUS
    <3>1. ask[c.ref].status = "PENDING"
      BY DEF Relies, LocksOK, SessType, Asked
    <3>2. <<"ask", c.ref>> \in Held(t)
      BY <1>1, FullHolds
    <3>. QED BY <2>1, <3>1, <3>2 DEF KeptFor
  <2>4. sent'[c.user] = sent[c.user]
    BY <2>1 DEF Kept
  <2>. QED BY <1>7, <2>2, <2>3, <2>4 DEF Relies, Asked
<1>8. CASE c.op = "give"
  BY <1>8 DEF Relies
<1>. QED BY <1>1, <1>4, <1>5, <1>6, <1>7, <1>8, CallType

--------------------------------------------------------------------------------
(* Nothing of what others rely on changes but under the locks of s. *)
Guarantees(s) ==
  /\ \A u \in Users : Balance(u) \notin Held(s) => Kept(u)
  /\ \A k \in Refs : <<"ask", k>> \notin Held(s) => ask'[k] = ask[k]
  /\ \A u \in Users, w \in Withdrawals :
       <<"withdrawal", u, w>> \notin Held(s) /\ wd[u][w] = "open" => wd'[u][w] = "open"

(* A request keeps its parties and its amount. *)
AskKept == \A k \in Refs : ask[k].status # "none" =>
             \E x \in {"PENDING", "ACCEPTED", "CLOSED"} : ask'[k] = [ask[k] EXCEPT !.status = x]

LEMMA CallsKept ==
  ASSUME IInv, AskKept, NEW t \in Sessions, sess'[t].call = sess[t].call
  PROVE  CallOK(t)'
<1>. DEFINE c == sess[t].call
<1>. SUFFICES ASSUME c.op = "accept"
              PROVE  \E x \in {"PENDING", "ACCEPTED", "CLOSED"} : ask'[c.ref] = Asked(c, x)
  BY DEF CallOK, Asked
<1>1. c # NoCall
  BY DEF NoCall
<1>2. c \in AllCalls /\ c.ref \in Refs
  BY <1>1, CallsAssumption, CallType DEF IInv, LocksOK, SessOK
<1>3. PICK x \in {"PENDING", "ACCEPTED", "CLOSED"} : ask[c.ref] = Asked(c, x)
  BY DEF IInv, CallOK
<1>4. PICK y \in {"PENDING", "ACCEPTED", "CLOSED"} : ask'[c.ref] = [ask[c.ref] EXCEPT !.status = y]
  <2>1. ask[c.ref].status # "none"
    BY <1>3 DEF Asked
  <2>. QED BY <1>2, <2>1 DEF AskKept
<1>5. ask'[c.ref] = Asked(c, y)
  BY <1>3, <1>4 DEF Asked
<1>. QED BY <1>5

LEMMA OthersRely ==
  ASSUME IInv, TypeOK', NEW s \in Sessions, Guarantees(s),
         NEW t \in Sessions, t # s, sess'[t] = sess[t]
  PROVE  Relies(t)'
<1>1. Held(s) \cap Held(t) = {}
  BY DEF IInv, LocksOK, Exclusive
<1>2. KeptFor(t)
  BY <1>1 DEF Guarantees, KeptFor
<1>. QED BY <1>2, ReliesKept DEF IInv

(* What the sessions know after s has committed or rolled back. *)
LEMMA SessionsAfter ==
  ASSUME IInv, TypeOK', NEW s \in Sessions, Releases(s), Guarantees(s), AskKept
  PROVE  LocksOK' /\ \A t \in Sessions : CallOK(t)' /\ Relies(t)'
<1>1. sess'[s] = Idle /\ \A t \in Sessions \ {s} : sess'[t] = sess[t]
  BY DEF IInv, LocksOK, SessType, Releases
<1>2. CallOK(s)' /\ Relies(s)'
  BY <1>1 DEF CallOK, Relies, Idle, NoCall
<1>3. \A t \in Sessions \ {s} : CallOK(t)' /\ Relies(t)'
  BY <1>1, OthersRely, CallsKept
<1>4. LocksOK'
  BY ReleaseKeepsLocks DEF IInv
<1>. QED BY <1>2, <1>3, <1>4

(* A session about to insert. *)
LEMMA Inserting ==
  ASSUME IInv, NEW s \in Sessions, sess[s].due # "nothing"
  PROVE  LET c == sess[s].call
         IN  /\ c \in AllCalls /\ Full(s) /\ c.user \in Users /\ c.amount \in Nat \ {0}
             /\ c.op \in {"spend", "send", "accept"} => c.ref \in Refs /\ c.amount \in Amounts
             /\ c.op \in {"send", "accept", "give"} => c.to \in Users /\ c.to # c.user
             /\ c.op \in {"withdraw", "settle"} => c.ref \in Withdrawals /\ c.amount = Reserve
BY CallsAssumption, CallType DEF IInv, LocksOK, SessOK

LEMMA KeptSame ==
  ASSUME NEW u \in Users, given' = given, posted'[u] = posted[u], wd'[u] = wd[u],
         today'[u] = today[u], spent'[u] = spent[u], sent'[u] = sent[u], posted[u] \in Int
  PROVE  Kept(u)
<1>1. Reserved(u)' = Reserved(u) /\ Reserved(u) \in Nat
  BY ReservedSame, ReservedType
<1>. QED BY <1>1 DEF Kept, Untouched

LEMMA SpendKeeps ==
  ASSUME IInv, NEW s \in Sessions, Spend(s)
  PROVE  IInv'
<1>. DEFINE c == sess[s].call
<1>1. /\ c.op = "spend" /\ c.user \in Users /\ c.ref \in Refs /\ c.amount \in Amounts
      /\ c.amount \in Nat \ {0} /\ Balance(c.user) \in Held(s)
      /\ CanPay(c.user, c.amount)
  BY Inserting, FullHolds DEF Spend, Commit, Relies, IInv
<1>2. /\ posted' = [posted EXCEPT ![c.user] = @ - c.amount]
      /\ spent' = [spent EXCEPT ![c.user][c.ref] = c.amount]
      /\ Releases(s) /\ UNCHANGED <<claim, sent, given, today, ask, wd>>
  BY DEF Spend, Commit, Releases
<1>3. TypeOK'
  <2>1. posted' \in [Users -> Int]
    BY <1>1, <1>2 DEF IInv, TypeOK
  <2>2. spent' \in [Users -> [Refs -> Amounts \cup {0}]]
    BY <1>1, <1>2 DEF IInv, TypeOK
  <2>3. sess' \in [Sessions -> [call : Calls \cup {NoCall}, got : 0..3,
                               due : {"nothing", "insert", "mark"}]]
    BY <1>2, ReleaseKeepsLocks DEF IInv, LocksOK, SessType
  <2>. QED BY <1>2, <2>1, <2>2, <2>3 DEF IInv, TypeOK
<1>4. \A u \in Users : Balance(u) \notin Held(s) => Kept(u)
  BY <1>1, <1>2, KeptSame DEF IInv, TypeOK
<1>5. Guarantees(s) /\ AskKept
  BY <1>2, <1>4 DEF Guarantees, AskKept, IInv, TypeOK, NoAsk
<1>6. ReservationsCovered'
  <2>1. \A u \in Users : Reserved(u)' = Reserved(u) /\ Reserved(u) \in Nat
    BY <1>2, ReservedSame, ReservedType
  <2>. QED BY <1>1, <1>2, <2>1 DEF ReservationsCovered, CanPay, IInv, TypeOK
<1>7. LimitsKept' /\ AcceptedMeansMoved'
  BY <1>2 DEF IInv, LimitsKept, AcceptedMeansMoved
<1>. QED BY <1>2, <1>3, <1>5, <1>6, <1>7, SessionsAfter DEF IInv

(* A transfer, sent or accepted. *)
LEMMA TransferKeeps ==
  ASSUME IInv, NEW s \in Sessions, sess[s].due = "insert",
         sess[s].call.op \in {"send", "accept"}, Transfer(sess[s].call), Releases(s),
         LET c == sess[s].call
         IN  \/ c.op = "send" /\ ask' = ask
             \/ c.op = "accept" /\ ask' = [ask EXCEPT ![c.ref].status = "ACCEPTED"]
  PROVE  IInv'
<1>. DEFINE c == sess[s].call
            row == [to |-> c.to, amount |-> c.amount]
<1>1. /\ c.user \in Users /\ c.to \in Users /\ c.to # c.user /\ c.ref \in Refs
      /\ c.amount \in Amounts /\ c.amount \in Nat \ {0}
      /\ Balance(c.user) \in Held(s) /\ Balance(c.to) \in Held(s) /\ CanMove(c)
  BY Inserting, FullHolds DEF Relies, IInv
<1>2. /\ c.op = "accept" => ask[c.ref] = Asked(c, "PENDING") /\ <<"ask", c.ref>> \in Held(s)
      /\ c.op \in {"send", "accept"}
  BY Inserting, FullHolds DEF Relies, IInv
<1>3. /\ sent' = [sent EXCEPT ![c.user][c.ref] = row]
      /\ posted' = [posted EXCEPT ![c.user] = @ - c.amount, ![c.to] = @ + c.amount]
      /\ today' = [today EXCEPT ![c.user].out = @ + c.amount, ![c.to].in = @ + c.amount]
      /\ UNCHANGED <<claim, spent, given, wd>>
  BY DEF Transfer, Moved, Counted
<1>t. /\ posted \in [Users -> Int] /\ today \in [Users -> [out : Nat, in : Nat]]
      /\ sent \in [Users -> [Refs -> [to : Users, amount : Amounts] \cup {NoRow}]]
      /\ ask \in [Refs -> [status : {"PENDING", "ACCEPTED", "CLOSED"}, payer : Users,
                           requester : Users, amount : Amounts] \cup {NoAsk}]
  BY DEF IInv, TypeOK
<1>4. /\ posted'[c.user] = posted[c.user] - c.amount
      /\ posted'[c.to] = posted[c.to] + c.amount
      /\ \A u \in Users \ {c.user, c.to} : posted'[u] = posted[u]
  BY <1>1, <1>3, <1>t
<1>o. /\ today'[c.user] = [out |-> today[c.user].out + c.amount, in |-> today[c.user].in]
      /\ today'[c.to] = [out |-> today[c.to].out, in |-> today[c.to].in + c.amount]
      /\ \A u \in Users \ {c.user, c.to} : today'[u] = today[u]
      /\ today' = [u \in Users |-> today'[u]]
  <2>1. PICK mid : mid = [today EXCEPT ![c.user].out = @ + c.amount]
    OBVIOUS
  <2>2. today' = [mid EXCEPT ![c.to].in = @ + c.amount]
    BY <1>3, <2>1
  <2>3. /\ mid \in [Users -> [out : Nat, in : Nat]]
        /\ mid[c.user] = [out |-> today[c.user].out + c.amount, in |-> today[c.user].in]
        /\ \A u \in Users \ {c.user} : mid[u] = today[u]
    BY <1>1, <1>t, <2>1
  <2>4. /\ today'[c.to] = [mid[c.to] EXCEPT !.in = @ + c.amount]
        /\ \A u \in Users \ {c.to} : today'[u] = mid[u]
        /\ DOMAIN today' = Users /\ today' = [u \in Users |-> today'[u]]
    BY <1>1, <2>2, <2>3
  <2>5. today[c.to] = [out |-> today[c.to].out, in |-> today[c.to].in] /\ mid[c.to] = today[c.to]
    BY <1>1, <1>t, <2>3
  <2>6. today'[c.to] = [out |-> today[c.to].out, in |-> today[c.to].in + c.amount]
    BY <2>4, <2>5
  <2>. QED BY <1>1, <2>3, <2>4, <2>6
<1>5. /\ sent'[c.user][c.ref] = row
      /\ \A u \in Users : u # c.user => sent'[u] = sent[u]
      /\ \A u \in Users, k \in Refs : sent[u][k] # NoRow => sent'[u][k] = sent[u][k]
  BY <1>1, <1>3, <1>t DEF CanMove
<1>6. /\ c.op = "send" => ask' = ask
      /\ c.op = "accept" => /\ ask'[c.ref] = Asked(c, "ACCEPTED")
                            /\ \A k \in Refs \ {c.ref} : ask'[k] = ask[k]
  <2>1. c.op = "accept" => ask' = [ask EXCEPT ![c.ref].status = "ACCEPTED"]
    OBVIOUS
  <2>2. [Asked(c, "PENDING") EXCEPT !.status = "ACCEPTED"] = Asked(c, "ACCEPTED")
    BY DEF Asked
  <2>3. c.op = "accept" => ask'[c.ref] = [ask[c.ref] EXCEPT !.status = "ACCEPTED"]
    BY <1>1, <1>t, <2>1
  <2>. QED BY <1>1, <1>2, <1>t, <2>1, <2>2, <2>3
<1>7. TypeOK'
  <2>1. posted' \in [Users -> Int]
    <3>1. posted' = [u \in Users |-> posted'[u]]
      BY <1>3, <1>t
    <3>2. \A u \in Users : posted[u] \in Int
      BY <1>t
    <3>3. \A u \in Users : posted'[u] \in Int
      BY <1>1, <1>4, <3>2
    <3>. QED BY <3>1, <3>3
  <2>2. today' \in [Users -> [out : Nat, in : Nat]]
    <3>1. \A u \in Users : today'[u] \in [out : Nat, in : Nat]
      <4>1. \A u \in Users : today[u].out \in Nat /\ today[u].in \in Nat
        BY <1>t
      <4>2. today'[c.user] \in [out : Nat, in : Nat]
        BY <4>1, <1>1, <1>o
      <4>3. today'[c.to] \in [out : Nat, in : Nat]
        BY <4>1, <1>1, <1>o
      <4>. QED BY <4>2, <4>3, <1>o, <1>t
    <3>. QED BY <3>1, <1>o
  <2>3. sent' \in [Users -> [Refs -> [to : Users, amount : Amounts] \cup {NoRow}]]
    BY <1>1, <1>3 DEF IInv, TypeOK
  <2>4. ask' \in [Refs -> [status : {"PENDING", "ACCEPTED", "CLOSED"}, payer : Users,
                           requester : Users, amount : Amounts] \cup {NoAsk}]
    <3>1. Asked(c, "ACCEPTED") \in [status : {"PENDING", "ACCEPTED", "CLOSED"}, payer : Users,
                                    requester : Users, amount : Amounts]
      BY <1>1 DEF Asked
    <3>2. c.op = "accept" => ask' \in [Refs -> [status : {"PENDING", "ACCEPTED", "CLOSED"}, payer : Users,
                           requester : Users, amount : Amounts] \cup {NoAsk}]
      <4>1. ask' = [ask EXCEPT ![c.ref].status = "ACCEPTED"] \/ ask' = ask
        OBVIOUS
      <4>2. ask' = [k \in Refs |-> ask'[k]]
        BY <4>1, <1>t
      <4>3. c.op = "accept" => \A k \in Refs : ask'[k] \in [status : {"PENDING", "ACCEPTED", "CLOSED"},
              payer : Users, requester : Users, amount : Amounts] \cup {NoAsk}
        BY <1>6, <1>t, <3>1
      <4>. QED BY <4>2, <4>3
    <3>. QED BY <1>2, <1>6, <3>2 DEF IInv, TypeOK
  <2>5. sess' \in [Sessions -> [call : Calls \cup {NoCall}, got : 0..3,
                               due : {"nothing", "insert", "mark"}]]
    BY ReleaseKeepsLocks DEF IInv, LocksOK, SessType
  <2>. QED BY <1>3, <2>1, <2>2, <2>3, <2>4, <2>5 DEF IInv, TypeOK
<1>8. \A u \in Users : Balance(u) \notin Held(s) => Kept(u)
  <2>. SUFFICES ASSUME NEW u \in Users, Balance(u) \notin Held(s) PROVE Kept(u)
    OBVIOUS
  <2>1. u # c.user /\ u # c.to
    BY <1>1
  <2>. QED BY <1>3, <1>4, <1>o, <1>5, <2>1, KeptSame DEF IInv, TypeOK
<1>9. AskKept
  <2>1. ask[c.ref] = Asked(c, "PENDING") => Asked(c, "ACCEPTED") = [ask[c.ref] EXCEPT !.status = "ACCEPTED"]
    BY DEF Asked
  <2>2. \A k \in Refs : ask[k].status # "none" =>
          ask[k] = [ask[k] EXCEPT !.status = ask[k].status] /\ ask[k].status \in {"PENDING", "ACCEPTED", "CLOSED"}
    BY DEF IInv, TypeOK, NoAsk
  <2>. QED BY <1>2, <1>6, <2>1, <2>2 DEF AskKept
<1>10. Guarantees(s)
  BY <1>2, <1>3, <1>6, <1>8 DEF Guarantees
<1>11. ReservationsCovered'
  <2>1. \A u \in Users : Reserved(u)' = Reserved(u) /\ Reserved(u) \in Nat
    BY <1>3, ReservedSame, ReservedType
  <2>2. ASSUME NEW u \in Users, given[u] = {} PROVE posted'[u] >= Reserved(u)
    <3>1. posted[u] >= Reserved(u) /\ posted[u] \in Int /\ Reserved(u) \in Int
      BY <2>1, <2>2, <1>t DEF IInv, ReservationsCovered
    <3>2. CASE u = c.user
      BY <3>1, <3>2, <1>1, <1>4, <2>2 DEF CanMove, CanPay
    <3>3. CASE u = c.to
      BY <3>1, <3>3, <1>1, <1>4
    <3>4. CASE u \notin {c.user, c.to}
      BY <3>1, <3>4, <1>4
    <3>. QED BY <3>2, <3>3, <3>4
  <2>. QED BY <1>3, <2>1, <2>2 DEF ReservationsCovered
<1>12. LimitsKept'
  <2>1. ASSUME NEW u \in Users
        PROVE  /\ given[u] = {} => today'[u].out =< DailySend
               /\ Untouched(u) => today'[u].in =< DailyReceive
    <3>1. /\ given[u] = {} => today[u].out =< DailySend
          /\ Untouched(u) => today[u].in =< DailyReceive
      BY DEF IInv, LimitsKept, Untouched
    <3>2. CASE u = c.user
      BY <3>1, <3>2, <1>1, <1>o DEF CanMove
    <3>3. CASE u = c.to
      BY <3>1, <3>3, <1>1, <1>o DEF CanMove
    <3>4. CASE u \notin {c.user, c.to}
      BY <3>1, <3>4, <1>o
    <3>. QED BY <3>2, <3>3, <3>4
  <2>. QED BY <1>3, <2>1 DEF LimitsKept, Untouched
<1>13. AcceptedMeansMoved'
  <2>. SUFFICES ASSUME NEW k \in Refs, ask'[k].status = "ACCEPTED"
                PROVE  sent'[ask'[k].payer][k] = [to |-> ask'[k].requester, amount |-> ask'[k].amount]
    BY DEF AcceptedMeansMoved
  <2>1. CASE ask'[k] = ask[k]
    <3>0. ask[k].status = "ACCEPTED" /\ ask[k] # NoAsk
      BY <2>1 DEF NoAsk
    <3>1. ask[k].payer \in Users /\ ask[k].requester \in Users
      BY <3>0, <1>t
    <3>4. [to |-> ask[k].requester, amount |-> ask[k].amount] # NoRow
      BY <3>1, SetsAssumption DEF NoRow
    <3>2. sent[ask[k].payer][k] = [to |-> ask[k].requester, amount |-> ask[k].amount]
      BY <2>1 DEF IInv, AcceptedMeansMoved
    <3>. QED BY <2>1, <3>1, <3>2, <3>4, <1>5
  <2>2. CASE c.op = "accept" /\ k = c.ref
    BY <1>5, <1>6, <2>2 DEF Asked
  <2>. QED BY <1>2, <1>6, <2>1, <2>2
<1>. QED BY <1>7, <1>9, <1>10, <1>11, <1>12, <1>13, SessionsAfter DEF IInv

LEMMA MarkKeeps ==
  ASSUME IInv, NEW s \in Sessions, MarkAccepted(s)
  PROVE  IInv'
<1>. DEFINE c == sess[s].call
<1>1. /\ c.user \in Users /\ c.to \in Users /\ c.ref \in Refs /\ c.amount \in Amounts
      /\ ask[c.ref] = Asked(c, "PENDING") /\ <<"ask", c.ref>> \in Held(s)
      /\ sent[c.user][c.ref] = [to |-> c.to, amount |-> c.amount]
  BY Inserting, FullHolds DEF MarkAccepted, Relies, IInv
<1>2. /\ ask' = [ask EXCEPT ![c.ref].status = "ACCEPTED"] /\ Releases(s)
      /\ UNCHANGED <<claim, posted, spent, sent, given, today, wd>>
  BY DEF MarkAccepted, Releases
<1>3. /\ ask'[c.ref] = Asked(c, "ACCEPTED") /\ \A k \in Refs \ {c.ref} : ask'[k] = ask[k]
      /\ ask' = [k \in Refs |-> ask'[k]]
  <2>1. [Asked(c, "PENDING") EXCEPT !.status = "ACCEPTED"] = Asked(c, "ACCEPTED")
    BY DEF Asked
  <2>2. ask \in [Refs -> [status : {"PENDING", "ACCEPTED", "CLOSED"}, payer : Users,
                         requester : Users, amount : Amounts] \cup {NoAsk}]
    BY DEF IInv, TypeOK
  <2>3. ask'[c.ref] = [ask[c.ref] EXCEPT !.status = "ACCEPTED"]
    BY <1>1, <1>2, <2>2
  <2>. QED BY <1>1, <1>2, <2>1, <2>2, <2>3
<1>4. TypeOK'
  <2>1. ask' \in [Refs -> [status : {"PENDING", "ACCEPTED", "CLOSED"}, payer : Users,
                          requester : Users, amount : Amounts] \cup {NoAsk}]
    <3>1. \A k \in Refs : ask[k] \in [status : {"PENDING", "ACCEPTED", "CLOSED"}, payer : Users,
                          requester : Users, amount : Amounts] \cup {NoAsk}
      BY DEF IInv, TypeOK
    <3>2. Asked(c, "ACCEPTED") \in [status : {"PENDING", "ACCEPTED", "CLOSED"}, payer : Users,
                          requester : Users, amount : Amounts]
      BY <1>1 DEF Asked
    <3>. QED BY <1>3, <3>1, <3>2
  <2>2. sess' \in [Sessions -> [call : Calls \cup {NoCall}, got : 0..3,
                               due : {"nothing", "insert", "mark"}]]
    BY <1>2, ReleaseKeepsLocks DEF IInv, LocksOK, SessType
  <2>. QED BY <1>2, <2>1, <2>2 DEF IInv, TypeOK
<1>5. AskKept
  <2>1. Asked(c, "ACCEPTED") = [Asked(c, "PENDING") EXCEPT !.status = "ACCEPTED"]
    BY DEF Asked
  <2>2. \A k \in Refs : ask[k].status # "none" =>
          ask[k] = [ask[k] EXCEPT !.status = ask[k].status] /\ ask[k].status \in {"PENDING", "ACCEPTED", "CLOSED"}
    BY DEF IInv, TypeOK, NoAsk
  <2>. QED BY <1>1, <1>3, <2>1, <2>2 DEF AskKept
<1>6. Guarantees(s)
  BY <1>1, <1>2, <1>3, KeptSame DEF Guarantees, IInv, TypeOK
<1>7. ReservationsCovered' /\ LimitsKept'
  BY <1>2, ReservedSame DEF IInv, ReservationsCovered, LimitsKept
<1>8. AcceptedMeansMoved'
  <2>. SUFFICES ASSUME NEW k \in Refs, ask'[k].status = "ACCEPTED"
                PROVE  sent'[ask'[k].payer][k] = [to |-> ask'[k].requester, amount |-> ask'[k].amount]
    BY DEF AcceptedMeansMoved
  <2>1. CASE k = c.ref
    BY <1>1, <1>2, <1>3, <2>1 DEF Asked
  <2>2. CASE k # c.ref
    BY <1>2, <1>3, <2>2 DEF IInv, AcceptedMeansMoved
  <2>. QED BY <2>1, <2>2
<1>. QED BY <1>2, <1>4, <1>5, <1>6, <1>7, <1>8, SessionsAfter DEF IInv

(* A step that leaves the asks alone keeps them. *)
LEMMA AskSame ==
  ASSUME IInv, ask' = ask
  PROVE  AskKept
<1>1. \A k \in Refs : ask[k].status # "none" =>
        ask[k] = [ask[k] EXCEPT !.status = ask[k].status] /\ ask[k].status \in {"PENDING", "ACCEPTED", "CLOSED"}
  BY DEF IInv, TypeOK, NoAsk
<1>. QED BY <1>1 DEF AskKept

LEMMA WithdrawKeeps ==
  ASSUME IInv, NEW s \in Sessions, Withdraw(s)
  PROVE  IInv'
<1>. DEFINE c == sess[s].call
<1>0. PICK v \in Users, w \in Withdrawals : v = c.user /\ w = c.ref
  BY Inserting DEF Withdraw, Commit
<1>1. /\ Balance(v) \in Held(s)
      /\ wd[v][w] = "none" /\ CanPay(v, Reserve)
  BY <1>0, Inserting, FullHolds DEF Withdraw, Commit, Relies, IInv
<1>2. /\ wd' = [wd EXCEPT ![v][w] = "open"] /\ Releases(s)
      /\ UNCHANGED <<claim, posted, spent, sent, given, today, ask>>
  BY <1>0 DEF Withdraw, Commit, Releases
<1>t. WdType /\ posted \in [Users -> Int]
  BY DEF WdType, IInv, TypeOK
<1>3. WdType' /\ \A u \in Users \ {v} : wd'[u] = wd[u]
  BY <1>1, <1>2, <1>t DEF WdType
<1>4. TypeOK'
  <2>1. sess' \in [Sessions -> [call : Calls \cup {NoCall}, got : 0..3,
                               due : {"nothing", "insert", "mark"}]]
    BY <1>2, ReleaseKeepsLocks DEF IInv, LocksOK, SessType
  <2>. QED BY <1>2, <1>3, <2>1 DEF IInv, TypeOK, WdType
<1>5. /\ Reserved(v)' = Reserved(v) + Reserve
      /\ \A u \in Users \ {v} : Reserved(u)' = Reserved(u)
  BY <1>1, <1>2, <1>t, ReservedMore
<1>6. Guarantees(s)
  <2>1. \A u \in Users : Balance(u) \notin Held(s) => Kept(u)
    BY <1>1, <1>2, <1>3, <1>t, KeptSame
  <2>2. \A u \in Users, x \in Withdrawals : wd[u][x] = "open" => wd'[u][x] = "open"
    BY <1>1, <1>2, <1>t DEF WdType
  <2>. QED BY <1>2, <2>1, <2>2 DEF Guarantees
<1>7. ReservationsCovered'
  <2>. SUFFICES ASSUME NEW u \in Users, given[u] = {} PROVE posted[u] >= Reserved(u)'
    BY <1>2 DEF ReservationsCovered
  <2>1. posted[u] \in Int /\ Reserved(u) \in Nat /\ Reserve \in Nat
    BY <1>t, ReservedType, ReserveType
  <2>2. CASE u = v
    BY <1>1, <1>5, <2>1, <2>2 DEF CanPay
  <2>3. CASE u # v
    BY <1>5, <2>3 DEF IInv, ReservationsCovered
  <2>. QED BY <2>2, <2>3
<1>8. LimitsKept' /\ AcceptedMeansMoved'
  BY <1>2 DEF IInv, LimitsKept, AcceptedMeansMoved
<1>. QED BY <1>2, <1>4, <1>6, <1>7, <1>8, AskSame, SessionsAfter DEF IInv

LEMMA SettleKeeps ==
  ASSUME IInv, NEW s \in Sessions, Settle(s)
  PROVE  IInv'
<1>. DEFINE c == sess[s].call
<1>0. PICK v \in Users, w \in Withdrawals : v = c.user /\ w = c.ref
  BY Inserting DEF Settle, Commit
<1>1. /\ Balance(v) \in Held(s)
      /\ <<"withdrawal", v, w>> \in Held(s) /\ wd[v][w] = "open"
  BY <1>0, Inserting, FullHolds DEF Settle, Commit, Relies, IInv
<1>2. /\ wd' = [wd EXCEPT ![v][w] = "completed"] /\ Releases(s)
      /\ posted' = [posted EXCEPT ![v] = @ - Reserve]
      /\ UNCHANGED <<claim, spent, sent, given, today, ask>>
  BY <1>0 DEF Settle, Commit, Releases
<1>t. WdType /\ posted \in [Users -> Int] /\ Reserve \in Nat
  BY ReserveType DEF WdType, IInv, TypeOK
<1>3. WdType' /\ \A u \in Users \ {v} : wd'[u] = wd[u]
  BY <1>1, <1>2, <1>t DEF WdType
<1>p. posted' \in [Users -> Int]
  BY <1>1, <1>2, <1>t
<1>4. TypeOK'
  <2>1. sess' \in [Sessions -> [call : Calls \cup {NoCall}, got : 0..3,
                               due : {"nothing", "insert", "mark"}]]
    BY <1>2, ReleaseKeepsLocks DEF IInv, LocksOK, SessType
  <2>. QED BY <1>2, <1>3, <1>p, <2>1 DEF IInv, TypeOK, WdType
<1>5. /\ Reserved(v) = Reserved(v)' + Reserve
      /\ \A u \in Users \ {v} : Reserved(u)' = Reserved(u)
  BY <1>1, <1>2, <1>t, ReservedLess
<1>6. Guarantees(s)
  <2>1. \A u \in Users : Balance(u) \notin Held(s) => Kept(u)
    BY <1>1, <1>2, <1>3, <1>t, KeptSame
  <2>2. \A u \in Users, x \in Withdrawals :
          <<"withdrawal", u, x>> \notin Held(s) /\ wd[u][x] = "open" => wd'[u][x] = "open"
    BY <1>1, <1>2, <1>t DEF WdType
  <2>. QED BY <1>2, <2>1, <2>2 DEF Guarantees
<1>7. ReservationsCovered'
  <2>. SUFFICES ASSUME NEW u \in Users, given[u] = {} PROVE posted'[u] >= Reserved(u)'
    BY <1>2 DEF ReservationsCovered
  <2>1. posted[u] \in Int /\ Reserved(u) \in Nat /\ Reserved(u)' \in Nat /\ posted[u] >= Reserved(u)
    BY <1>2, <1>t, ReservedType, ReservedTypePrime DEF IInv, ReservationsCovered
  <2>2. CASE u = v
    <3>1. posted'[u] = posted[u] - Reserve
      BY <1>1, <1>2, <1>t, <2>2
    <3>. QED BY <1>5, <1>t, <2>1, <2>2, <3>1
  <2>3. CASE u # v
    BY <1>2, <1>5, <1>t, <2>1, <2>3
  <2>. QED BY <2>2, <2>3
<1>8. LimitsKept' /\ AcceptedMeansMoved'
  BY <1>2 DEF IInv, LimitsKept, AcceptedMeansMoved
<1>. QED BY <1>2, <1>4, <1>6, <1>7, <1>8, AskSame, SessionsAfter DEF IInv

(* Curation: its giver and its author are exempt from then on. *)
LEMMA GiveKeeps ==
  ASSUME IInv, NEW s \in Sessions, Give(s)
  PROVE  IInv'
<1>. DEFINE c == sess[s].call
<1>0. PICK u \in Users, v \in Users, a \in Nat \ {0} : u = c.user /\ v = c.to /\ a = c.amount /\ u # v
  BY Inserting DEF Give, Commit
<1>1. /\ given' = [given EXCEPT ![u] = @ \cup {v}] /\ Releases(s)
      /\ posted' = [posted EXCEPT ![u] = @ - a, ![v] = @ + a]
      /\ today' = [today EXCEPT ![u].out = @ + a, ![v].in = @ + a]
      /\ UNCHANGED <<claim, spent, sent, ask, wd>>
  BY <1>0 DEF Give, Commit, Releases, Moved, Counted
<1>t. /\ given \in [Users -> SUBSET Users] /\ posted \in [Users -> Int]
      /\ today \in [Users -> [out : Nat, in : Nat]]
  BY DEF IInv, TypeOK
<1>2. /\ given'[u] = given[u] \cup {v} /\ \A x \in Users \ {u} : given'[x] = given[x]
      /\ given' \in [Users -> SUBSET Users]
  BY <1>0, <1>1, <1>t
<1>3. /\ posted' \in [Users -> Int] /\ \A x \in Users \ {u} : posted'[x] >= posted[x]
  <2>1. posted' \in [Users -> Int]
    <3>1. a \in Int /\ posted' = [posted EXCEPT ![u] = @ - a, ![v] = @ + a] /\ posted \in [Users -> Int]
      BY <1>0, <1>1, <1>t
    <3>. QED BY ONLY <3>1, u \in Users, v \in Users
  <2>2. posted'[v] = posted[v] + a /\ \A x \in Users \ {u, v} : posted'[x] = posted[x]
    BY <1>0, <1>1, <1>t
  <2>. QED BY <1>0, <1>t, <2>1, <2>2
<1>4. /\ today' \in [Users -> [out : Nat, in : Nat]]
      /\ \A x \in Users \ {u} : today'[x].out = today[x].out
      /\ \A x \in Users \ {v} : today'[x].in = today[x].in
  <2>1. PICK mid : mid = [today EXCEPT ![u].out = @ + a]
    OBVIOUS
  <2>2. /\ mid \in [Users -> [out : Nat, in : Nat]]
        /\ mid[u].in = today[u].in
        /\ \A x \in Users \ {u} : mid[x] = today[x]
    BY <1>0, <1>t, <2>1
  <2>3. today' = [mid EXCEPT ![v].in = @ + a]
    BY <1>1, <2>1
  <2>4. /\ today' \in [Users -> [out : Nat, in : Nat]]
        /\ today'[v].out = mid[v].out
        /\ \A x \in Users \ {v} : today'[x] = mid[x]
    BY <1>0, <2>2, <2>3
  <2>. QED BY <1>0, <2>2, <2>4
<1>5. /\ \A x \in Users : given'[x] = {} => given[x] = {} /\ x # u
      /\ \A x \in Users : Untouched(x)' => Untouched(x) /\ x # v
  BY <1>0, <1>2 DEF Untouched
<1>6. TypeOK'
  <2>1. sess' \in [Sessions -> [call : Calls \cup {NoCall}, got : 0..3,
                               due : {"nothing", "insert", "mark"}]]
    BY <1>1, ReleaseKeepsLocks DEF IInv, LocksOK, SessType
  <2>. QED BY <1>1, <1>2, <1>3, <1>4, <2>1 DEF IInv, TypeOK
<1>7. \A x \in Users : Reserved(x)' = Reserved(x) /\ Reserved(x) \in Nat
  BY <1>1, ReservedSame, ReservedType
<1>8. Guarantees(s)
  <2>1. ASSUME NEW x \in Users PROVE Kept(x)
    <3>1. given[x] # {} => given'[x] # {}
      BY <1>2
    <3>2. given'[x] = {} => posted'[x] - Reserved(x)' >= posted[x] - Reserved(x) /\ today'[x].out = today[x].out
      BY <1>3, <1>4, <1>5, <1>7, <1>t
    <3>3. Untouched(x)' => Untouched(x) /\ today'[x].in = today[x].in
      BY <1>4, <1>5
    <3>. QED BY <1>1, <3>1, <3>2, <3>3 DEF Kept
  <2>. QED BY <1>1, <2>1 DEF Guarantees
<1>9. ReservationsCovered'
  <2>1. ASSUME NEW x \in Users, given'[x] = {} PROVE posted'[x] >= Reserved(x)'
    <3>1. posted[x] >= Reserved(x) /\ posted'[x] >= posted[x]
      BY <1>3, <1>5, <2>1 DEF IInv, ReservationsCovered
    <3>. QED BY <1>3, <1>7, <1>t, <3>1
  <2>. QED BY <2>1 DEF ReservationsCovered
<1>10. LimitsKept'
  <2>1. \A x \in Users : given'[x] = {} => today'[x].out =< DailySend
    BY <1>4, <1>5 DEF IInv, LimitsKept
  <2>2. \A x \in Users : Untouched(x)' => today'[x].in =< DailyReceive
    BY <1>4, <1>5 DEF IInv, LimitsKept, Untouched
  <2>. QED BY <2>1, <2>2 DEF LimitsKept, Untouched
<1>11. AcceptedMeansMoved'
  BY <1>1 DEF IInv, AcceptedMeansMoved
<1>. QED BY <1>1, <1>6, <1>8, <1>9, <1>10, <1>11, AskSame, SessionsAfter DEF IInv

--------------------------------------------------------------------------------
(* Steps that change no row. *)
LEMMA UnlockedKeeps ==
  ASSUME IInv, Unlocked, TypeOK', LocksOK'
  PROVE  /\ ReservationsCovered' /\ LimitsKept' /\ AcceptedMeansMoved'
         /\ \A t \in Sessions : sess'[t] = sess[t] => CallOK(t)' /\ Relies(t)'
<1>1. \A u \in Users : Reserved(u)' = Reserved(u)
  BY ReservedSame DEF Unlocked
<1>2. ReservationsCovered' /\ LimitsKept' /\ AcceptedMeansMoved'
  BY <1>1 DEF Unlocked, IInv, ReservationsCovered, LimitsKept, AcceptedMeansMoved
<1>3. ASSUME NEW t \in Sessions, sess'[t] = sess[t] PROVE CallOK(t)' /\ Relies(t)'
  <2>1. CallOK(t)'
    BY <1>3 DEF IInv, CallOK, Unlocked, Asked
  <2>2. \A u \in Users : Kept(u)
    BY KeptSame DEF Unlocked, IInv, TypeOK
  <2>3. KeptFor(t)
    BY <2>2 DEF KeptFor, Unlocked
  <2>. QED BY <1>3, <2>1, <2>3, ReliesKept DEF IInv
<1>. QED BY <1>2, <1>3

LEMMA UnlockedType ==
  ASSUME IInv, Unlocked, LocksOK'
  PROVE  TypeOK'
BY DEF IInv, TypeOK, Unlocked, LocksOK, SessType

LEMMA IdleKeeps ==
  ASSUME IInv, NEW s \in Sessions, Releases(s), Unlocked
  PROVE  IInv'
<1>1. LocksOK'
  BY ReleaseKeepsLocks DEF IInv
<1>2. TypeOK'
  BY <1>1, UnlockedType
<1>3. sess'[s] = Idle /\ \A t \in Sessions \ {s} : sess'[t] = sess[t]
  BY DEF IInv, LocksOK, SessType, Releases
<1>4. CallOK(s)' /\ Relies(s)'
  BY <1>3 DEF CallOK, Relies, Idle, NoCall
<1>. QED BY <1>1, <1>2, <1>3, <1>4, UnlockedKeeps DEF IInv

LEMMA BeginKeeps ==
  ASSUME IInv, NEW s \in Sessions, NEW c \in Calls, Begin(s, c)
  PROVE  IInv'
<1>1. LocksOK'
  BY BeginKeepsLocks DEF IInv
<1>2. Unlocked
  BY DEF Begin
<1>3. TypeOK'
  BY <1>1, <1>2, UnlockedType
<1>4. /\ sess'[s] = [call |-> c, got |-> 1, due |-> "nothing"]
      /\ \A t \in Sessions \ {s} : sess'[t] = sess[t]
  BY DEF IInv, LocksOK, SessType, Begin
<1>5. Relies(s)'
  BY <1>4 DEF Relies
<1>6. CallOK(s)'
  <2>. SUFFICES ASSUME c.op = "accept"
                PROVE  \E x \in {"PENDING", "ACCEPTED", "CLOSED"} : ask[c.ref] = Asked(c, x)
    BY <1>2, <1>4 DEF CallOK, Unlocked, Asked
  <2>1. /\ ask[c.ref].status # "none" /\ ask[c.ref].payer = c.user
        /\ ask[c.ref].requester = c.to /\ ask[c.ref].amount = c.amount
    BY DEF Begin, Possible
  <2>2. c.ref \in Refs
    BY CallsAssumption, CallType
  <2>3. ask[c.ref] \in [status : {"PENDING", "ACCEPTED", "CLOSED"}, payer : Users,
                       requester : Users, amount : Amounts]
    BY <2>1, <2>2 DEF IInv, TypeOK, NoAsk
  <2>. QED BY <2>1, <2>3 DEF Asked
<1>. QED BY <1>1, <1>2, <1>3, <1>4, <1>5, <1>6, UnlockedKeeps DEF IInv

LEMMA AcquireKeeps ==
  ASSUME IInv, NEW s \in Sessions, Acquire(s)
  PROVE  IInv'
<1>1. LocksOK'
  BY AcquireKeepsLocks DEF IInv
<1>2. Unlocked
  BY DEF Acquire
<1>3. TypeOK'
  BY <1>1, <1>2, UnlockedType
<1>4. /\ sess'[s].call = sess[s].call /\ sess'[s].due = sess[s].due
      /\ \A t \in Sessions \ {s} : sess'[t] = sess[t]
  BY DEF IInv, LocksOK, SessType, Acquire
<1>5. sess[s].due = "nothing"
  BY DEF IInv, LocksOK, SessType, SessOK, Full, Acquire
<1>6. Relies(s)'
  BY <1>4, <1>5 DEF Relies
<1>7. CallOK(s)'
  BY <1>2, <1>4 DEF IInv, CallOK, Unlocked, Asked
<1>. QED BY <1>1, <1>2, <1>3, <1>4, <1>6, <1>7, UnlockedKeeps DEF IInv

(* What an answer has read. *)
LEMMA TransferInserts ==
  ASSUME NEW c \in AllCalls, TransferAnswer(c) = "insert"
  PROVE  CanMove(c)
BY DEF TransferAnswer, WithinLimits, Spendable, CanMove, CanPay, NoRow

LEMMA TransferSame ==
  ASSUME NEW c \in AllCalls, TransferAnswer(c) = "same"
  PROVE  sent[c.user][c.ref] = [to |-> c.to, amount |-> c.amount]
BY DEF TransferAnswer

LEMMA DecideRelies ==
  ASSUME IInv, NEW s \in Sessions, Ready(s),
         NEW a \in {"insert", "mark"}, a = Answer(sess[s].call)
  PROVE  LET c == sess[s].call
         IN  /\ a = "insert" =>
                  /\ c.op = "spend" => spent[c.user][c.ref] = 0 /\ CanPay(c.user, c.amount)
                  /\ c.op \in {"send", "accept"} => CanMove(c)
                  /\ c.op = "accept" => ask[c.ref] = Asked(c, "PENDING")
                  /\ c.op = "withdraw" => wd[c.user][c.ref] = "none" /\ CanPay(c.user, c.amount)
                  /\ c.op = "settle" => wd[c.user][c.ref] = "open"
             /\ a = "mark" =>
                  /\ c.op = "accept"
                  /\ ask[c.ref] = Asked(c, "PENDING")
                  /\ sent[c.user][c.ref] = [to |-> c.to, amount |-> c.amount]
<1>. DEFINE c == sess[s].call
<1>1. c \in AllCalls
  BY CallsAssumption DEF IInv, LocksOK, SessOK, Ready
<1>2. CASE c.op = "spend"
  <2>1. a = SpendAnswer(c)
    BY <1>2 DEF Answer
  <2>2. a = "insert" /\ spent[c.user][c.ref] = 0 /\ Spendable(c.user) >= c.amount
    BY <2>1 DEF SpendAnswer
  <2>. QED BY <1>2, <2>2 DEF CanPay, Spendable
<1>3. CASE c.op = "send"
  <2>1. a = TransferAnswer(c)
    BY <1>3 DEF Answer
  <2>2. a = "insert"
    BY <2>1 DEF TransferAnswer
  <2>. QED BY <1>1, <1>3, <2>1, <2>2, TransferInserts
<1>4. CASE c.op = "accept"
  <2>1. a = AcceptAnswer(c)
    BY <1>4 DEF Answer
  <2>2. PICK x \in {"PENDING", "ACCEPTED", "CLOSED"} : ask[c.ref] = Asked(c, x)
    BY <1>4 DEF IInv, CallOK
  <2>3. ask[c.ref].status = x
    BY <2>2 DEF Asked
  <2>4. x = "PENDING"
    BY <2>1, <2>3 DEF AcceptAnswer
  <2>5. a = "insert" => TransferAnswer(c) = "insert"
    BY <2>1, <2>3, <2>4 DEF AcceptAnswer
  <2>6. a = "mark" => TransferAnswer(c) = "same"
    <3>1. TransferAnswer(c) # "mark"
      BY DEF TransferAnswer
    <3>. QED BY <2>1, <2>3, <2>4, <3>1 DEF AcceptAnswer
  <2>. QED BY <1>1, <1>4, <2>2, <2>4, <2>5, <2>6, TransferInserts, TransferSame
<1>5. CASE c.op = "withdraw"
  <2>1. a = WithdrawAnswer(c)
    BY <1>5 DEF Answer
  <2>2. a = "insert" /\ wd[c.user][c.ref] = "none" /\ Spendable(c.user) >= Reserve
    BY <2>1 DEF WithdrawAnswer
  <2>. QED BY <1>1, <1>5, <2>2, CallType DEF CanPay, Spendable
<1>6. CASE c.op = "settle"
  <2>1. a = SettleAnswer(c)
    BY <1>6 DEF Answer
  <2>2. a = "insert" /\ wd[c.user][c.ref] = "open"
    BY <2>1 DEF SettleAnswer
  <2>. QED BY <1>6, <2>2
<1>7. CASE c.op = "give"
  <2>1. a = GiveAnswer(c)
    BY <1>7 DEF Answer
  <2>2. a = "insert"
    BY <2>1 DEF GiveAnswer
  <2>. QED BY <1>7, <2>2
<1>. QED BY <1>1, <1>2, <1>3, <1>4, <1>5, <1>6, <1>7, CallType

LEMMA DecideKeeps ==
  ASSUME IInv, NEW s \in Sessions, Decide(s)
  PROVE  IInv'
<1>1. Unlocked
  BY DEF Decide
<1>2. CASE Answer(sess[s].call) \notin {"insert", "mark"}
  <2>1. Releases(s)
    BY <1>2 DEF Decide, Releases
  <2>. QED BY <1>1, <2>1, IdleKeeps
<1>3. CASE Answer(sess[s].call) \in {"insert", "mark"}
  <2>1. PICK a \in {"insert", "mark"} : a = Answer(sess[s].call)
    BY <1>3
  <2>2. LocksOK' /\ TypeOK'
    BY <1>1, DecideKeepsLocks, UnlockedType DEF IInv
  <2>3. /\ sess'[s].call = sess[s].call /\ sess'[s].due = a
        /\ \A t \in Sessions \ {s} : sess'[t] = sess[t]
    <3>1. sess' = [sess EXCEPT ![s].due = a]
      BY <2>1 DEF Decide
    <3>. QED BY <3>1 DEF IInv, LocksOK, SessType
  <2>4. CallOK(s)'
    BY <1>1, <2>3 DEF IInv, CallOK, Unlocked, Asked
  <2>5. Relies(s)'
    <3>1. Ready(s)
      BY DEF Decide
    <3>2. \A u \in Users : Reserved(u)' = Reserved(u)
      BY <1>1, ReservedSame DEF Unlocked
    <3>3. sess[s].call.user \in Users
      BY <3>1, CallsAssumption, CallType DEF IInv, LocksOK, SessOK, Ready
    <3>. QED BY <1>1, <2>1, <2>3, <3>1, <3>2, <3>3, DecideRelies
         DEF Relies, Unlocked, CanMove, CanPay, Untouched, Asked
  <2>. QED BY <1>1, <2>2, <2>3, <2>4, <2>5, UnlockedKeeps DEF IInv
<1>. QED BY <1>2, <1>3

--------------------------------------------------------------------------------
(* Steps of a user's own or of an operator, outside any session. *)
LEMMA SessionsAround ==
  ASSUME IInv, TypeOK', AskKept, sess' = sess, \A t \in Sessions : KeptFor(t)
  PROVE  LocksOK' /\ \A t \in Sessions : CallOK(t)' /\ Relies(t)'
<1>1. LocksOK'
  <2>1. \A t \in Sessions : Held(t)' = Held(t)
    BY HeldSame
  <2>. QED BY <2>1 DEF IInv, LocksOK, SessType, Exclusive, SessOK, Full
<1>2. \A t \in Sessions : CallOK(t)' /\ Relies(t)'
  BY CallsKept, ReliesKept DEF IInv
<1>. QED BY <1>1, <1>2

LEMMA ClaimKeeps ==
  ASSUME IInv, NEW u \in Users, DailyClaim(u)
  PROVE  IInv'
<1>1. TypeOK'
  BY DEF IInv, TypeOK, DailyClaim
<1>2. \A t \in Sessions : KeptFor(t)
  BY KeptSame DEF KeptFor, DailyClaim, IInv, TypeOK
<1>3. \A x \in Users : Reserved(x)' = Reserved(x)
  BY ReservedSame DEF DailyClaim
<1>4. ReservationsCovered' /\ LimitsKept' /\ AcceptedMeansMoved'
  BY <1>3 DEF DailyClaim, IInv, ReservationsCovered, LimitsKept, AcceptedMeansMoved
<1>5. ask' = ask /\ sess' = sess
  BY DEF DailyClaim
<1>. QED BY <1>1, <1>2, <1>4, <1>5, AskSame, SessionsAround DEF IInv

LEMMA RedeemKeeps ==
  ASSUME IInv, NEW u \in Users, Redeem(u)
  PROVE  IInv'
<1>1. /\ claim' = [claim EXCEPT ![u] = "posted"] /\ posted' = [posted EXCEPT ![u] = @ + Claim]
      /\ UNCHANGED <<spent, sent, given, today, ask, wd, sess>>
      /\ posted \in [Users -> Int] /\ Claim \in Nat
  BY ReserveType DEF Redeem, IInv, TypeOK
<1>2. TypeOK'
  BY <1>1 DEF IInv, TypeOK
<1>3. \A x \in Users : posted'[x] >= posted[x] /\ posted'[x] \in Int
  BY <1>1
<1>4. \A x \in Users : Reserved(x)' = Reserved(x) /\ Reserved(x) \in Nat
  BY <1>1, ReservedSame, ReservedType
<1>5. \A x \in Users : Kept(x)
  <2>1. ASSUME NEW x \in Users PROVE posted'[x] - Reserved(x)' >= posted[x] - Reserved(x)
    BY <1>1, <1>3, <1>4
  <2>. QED BY <1>1, <2>1 DEF Kept, Untouched
<1>6. \A t \in Sessions : KeptFor(t)
  BY <1>1, <1>5 DEF KeptFor
<1>7. ReservationsCovered'
  <2>1. ASSUME NEW x \in Users, given[x] = {} PROVE posted'[x] >= Reserved(x)'
    BY <1>1, <1>3, <1>4, <2>1 DEF IInv, ReservationsCovered
  <2>. QED BY <1>1, <2>1 DEF ReservationsCovered
<1>8. LimitsKept' /\ AcceptedMeansMoved'
  BY <1>1 DEF IInv, LimitsKept, AcceptedMeansMoved
<1>. QED BY <1>1, <1>2, <1>6, <1>7, <1>8, AskSame, SessionsAround DEF IInv

LEMMA RejectKeeps ==
  ASSUME IInv, NEW u \in Users, NEW w \in Withdrawals, Reject(u, w)
  PROVE  IInv'
<1>1. /\ wd[u][w] = "open" /\ wd' = [wd EXCEPT ![u][w] = "rejected"]
      /\ Free(<<"withdrawal", u, w>>)
      /\ UNCHANGED <<claim, posted, spent, sent, given, today, ask, sess>>
  BY DEF Reject
<1>t. WdType /\ posted \in [Users -> Int]
  BY DEF WdType, IInv, TypeOK
<1>2. WdType'
  BY <1>1, <1>t DEF WdType
<1>3. TypeOK'
  BY <1>1, <1>2 DEF IInv, TypeOK, WdType
<1>4. /\ Reserved(u) = Reserved(u)' + Reserve
      /\ \A x \in Users \ {u} : Reserved(x)' = Reserved(x)
  BY <1>1, <1>t, ReservedLess
<1>5. \A x \in Users : Reserved(x)' =< Reserved(x) /\ Reserved(x) \in Nat /\ Reserved(x)' \in Nat
  BY <1>4, ReserveType, ReservedType, ReservedTypePrime
<1>6. \A x \in Users : Kept(x)
  <2>1. ASSUME NEW x \in Users PROVE posted'[x] - Reserved(x)' >= posted[x] - Reserved(x)
    BY <1>1, <1>5, <1>t
  <2>2. \A x \in Users, y \in Withdrawals : wd[x][y] = "none" => wd'[x][y] = "none"
    BY <1>1, <1>t DEF WdType
  <2>. QED BY <1>1, <2>1, <2>2 DEF Kept, Untouched
<1>7. \A t \in Sessions : KeptFor(t)
  <2>1. \A x \in Users, y \in Withdrawals : wd'[x][y] = wd[x][y] \/ (x = u /\ y = w)
    BY <1>1, <1>t DEF WdType
  <2>. QED BY <1>1, <1>6, <2>1 DEF KeptFor, Free
<1>8. ReservationsCovered'
  <2>1. ASSUME NEW x \in Users, given[x] = {} PROVE posted[x] >= Reserved(x)'
    BY <1>5, <1>t, <2>1 DEF IInv, ReservationsCovered
  <2>. QED BY <1>1, <2>1 DEF ReservationsCovered
<1>9. LimitsKept' /\ AcceptedMeansMoved'
  BY <1>1 DEF IInv, LimitsKept, AcceptedMeansMoved
<1>. QED BY <1>1, <1>3, <1>7, <1>8, <1>9, AskSame, SessionsAround DEF IInv

LEMMA CreateAskKeeps ==
  ASSUME IInv, NEW c \in Calls, CreateAsk(c)
  PROVE  IInv'
<1>1. /\ c.ref \in Refs /\ ask[c.ref] = NoAsk /\ c.user \in Users /\ c.to \in Users /\ c.amount \in Amounts
      /\ ask' = [ask EXCEPT ![c.ref] = Asked(c, "PENDING")]
      /\ UNCHANGED <<claim, posted, spent, sent, given, today, wd, sess>>
  BY CallsAssumption, CallType DEF CreateAsk, Asked
<1>2. Asked(c, "PENDING") \in [status : {"PENDING", "ACCEPTED", "CLOSED"}, payer : Users,
                               requester : Users, amount : Amounts]
  BY <1>1 DEF Asked
<1>3. TypeOK'
  BY <1>1, <1>2 DEF IInv, TypeOK
<1>4. /\ ask'[c.ref].status = "PENDING"
      /\ \A k \in Refs : ask[k] # NoAsk => ask'[k] = ask[k]
      /\ \A k \in Refs \ {c.ref} : ask'[k] = ask[k]
  BY <1>1 DEF IInv, TypeOK, Asked
<1>5. AskKept
  <2>1. \A k \in Refs : ask[k].status # "none" =>
          ask[k] = [ask[k] EXCEPT !.status = ask[k].status] /\ ask[k].status \in {"PENDING", "ACCEPTED", "CLOSED"}
    BY DEF IInv, TypeOK, NoAsk
  <2>2. \A k \in Refs : ask[k].status # "none" => ask'[k] = ask[k]
    BY <1>4 DEF NoAsk
  <2>. QED BY <2>1, <2>2 DEF AskKept
<1>6. \A t \in Sessions : KeptFor(t)
  <2>1. \A x \in Users : Kept(x)
    BY <1>1, KeptSame DEF IInv, TypeOK
  <2>2. \A k \in Refs : ask[k].status = "PENDING" => ask'[k] = ask[k]
    BY <1>4 DEF NoAsk
  <2>. QED BY <1>1, <2>1, <2>2 DEF KeptFor
<1>7. \A x \in Users : Reserved(x)' = Reserved(x)
  BY <1>1, ReservedSame
<1>8. ReservationsCovered' /\ LimitsKept'
  BY <1>1, <1>7 DEF IInv, ReservationsCovered, LimitsKept
<1>9. AcceptedMeansMoved'
  BY <1>1, <1>4 DEF IInv, AcceptedMeansMoved
<1>. QED BY <1>1, <1>3, <1>5, <1>6, <1>8, <1>9, SessionsAround DEF IInv

LEMMA CloseAskKeeps ==
  ASSUME IInv, NEW k \in Refs, CloseAsk(k)
  PROVE  IInv'
<1>1. /\ ask[k].status = "PENDING" /\ Free(<<"ask", k>>)
      /\ ask' = [ask EXCEPT ![k].status = "CLOSED"]
      /\ UNCHANGED <<claim, posted, spent, sent, given, today, wd, sess>>
  BY DEF CloseAsk
<1>t. ask \in [Refs -> [status : {"PENDING", "ACCEPTED", "CLOSED"}, payer : Users,
                       requester : Users, amount : Amounts] \cup {NoAsk}]
  BY DEF IInv, TypeOK
<1>2. ask[k] \in [status : {"PENDING", "ACCEPTED", "CLOSED"}, payer : Users,
                  requester : Users, amount : Amounts]
  BY <1>1, <1>t DEF NoAsk
<1>3. /\ ask'[k] = [ask[k] EXCEPT !.status = "CLOSED"]
      /\ \A x \in Refs \ {k} : ask'[x] = ask[x]
      /\ ask' = [x \in Refs |-> ask'[x]]
  BY <1>1, <1>t
<1>4. TypeOK'
  <2>1. ask'[k] \in [status : {"PENDING", "ACCEPTED", "CLOSED"}, payer : Users,
                     requester : Users, amount : Amounts]
    BY <1>2, <1>3
  <2>2. ask' \in [Refs -> [status : {"PENDING", "ACCEPTED", "CLOSED"}, payer : Users,
                          requester : Users, amount : Amounts] \cup {NoAsk}]
    BY <1>t, <1>3, <2>1
  <2>. QED BY <1>1, <2>2 DEF IInv, TypeOK
<1>5. AskKept
  <2>1. \A x \in Refs : ask[x].status # "none" =>
          ask[x] = [ask[x] EXCEPT !.status = ask[x].status] /\ ask[x].status \in {"PENDING", "ACCEPTED", "CLOSED"}
    BY <1>t DEF NoAsk
  <2>. QED BY <1>3, <2>1 DEF AskKept
<1>6. \A t \in Sessions : KeptFor(t)
  <2>1. \A x \in Users : Kept(x)
    BY <1>1, KeptSame DEF IInv, TypeOK
  <2>. QED BY <1>1, <1>3, <2>1 DEF KeptFor, Free
<1>7. \A x \in Users : Reserved(x)' = Reserved(x)
  BY <1>1, ReservedSame
<1>8. ReservationsCovered' /\ LimitsKept'
  BY <1>1, <1>7 DEF IInv, ReservationsCovered, LimitsKept
<1>9. AcceptedMeansMoved'
  <2>1. ask'[k].status = "CLOSED"
    BY <1>2, <1>3
  <2>. QED BY <1>1, <1>3, <2>1 DEF IInv, AcceptedMeansMoved
<1>. QED BY <1>1, <1>4, <1>5, <1>6, <1>8, <1>9, SessionsAround DEF IInv

--------------------------------------------------------------------------------
LEMMA InitInv == Init => IInv
<1>. SUFFICES ASSUME Init PROVE IInv
  OBVIOUS
<1>1. TypeOK
  BY DEF Init, TypeOK, Idle
<1>2. LocksOK
  BY LocksInit
<1>3. \A s \in Sessions : CallOK(s) /\ Relies(s)
  BY DEF Init, CallOK, Relies, Idle, NoCall
<1>4. ReservationsCovered
  <2>1. ASSUME NEW u \in Users PROVE Reserved(u) = 0
    <3>1. Open(u) = {}
      BY DEF Open, Init
    <3>. QED BY <3>1, FS_EmptySet, ReserveType DEF Reserved
  <2>. QED BY <2>1 DEF ReservationsCovered, Init
<1>5. LimitsKept
  BY AmountAssumption DEF LimitsKept, Init
<1>6. AcceptedMeansMoved
  BY DEF AcceptedMeansMoved, Init, NoAsk
<1>. QED BY <1>1, <1>2, <1>3, <1>4, <1>5, <1>6 DEF IInv

LEMMA StutterInv == IInv /\ UNCHANGED vars => IInv'
<1>. SUFFICES ASSUME IInv, UNCHANGED vars PROVE IInv'
  OBVIOUS
<1>1. Unlocked /\ sess' = sess
  BY DEF vars, Unlocked
<1>2. LocksOK'
  BY LocksInductive DEF IInv
<1>3. TypeOK'
  BY <1>1, <1>2, UnlockedType
<1>. QED BY <1>1, <1>2, <1>3, UnlockedKeeps DEF IInv

LEMMA NextInv == IInv /\ [Next]_vars => IInv'
<1>. SUFFICES ASSUME IInv, [Next]_vars PROVE IInv'
  OBVIOUS
<1>1. ASSUME NEW s \in Sessions, NEW c \in Calls, Begin(s, c) PROVE IInv'
  BY <1>1, BeginKeeps
<1>2. ASSUME NEW s \in Sessions, Acquire(s) PROVE IInv'
  BY <1>2, AcquireKeeps
<1>3. ASSUME NEW s \in Sessions, Closed(s) PROVE IInv'
  BY <1>3, IdleKeeps DEF Closed, Releases
<1>4. ASSUME NEW s \in Sessions, Decide(s) PROVE IInv'
  BY <1>4, DecideKeeps
<1>5. ASSUME NEW s \in Sessions, Abort(s) PROVE IInv'
  BY <1>5, IdleKeeps DEF Abort, Releases
<1>6. ASSUME NEW s \in Sessions, Insert(s) PROVE IInv'
  <2>1. CASE Spend(s)
    BY <2>1, SpendKeeps
  <2>2. CASE Send(s)
    BY <2>2, TransferKeeps DEF Send, Commit, Releases
  <2>3. CASE Accept(s)
    BY <2>3, TransferKeeps DEF Accept, Commit, Releases
  <2>4. CASE MarkAccepted(s)
    BY <2>4, MarkKeeps
  <2>5. CASE Withdraw(s)
    BY <2>5, WithdrawKeeps
  <2>6. CASE Settle(s)
    BY <2>6, SettleKeeps
  <2>7. CASE Give(s)
    BY <2>7, GiveKeeps
  <2>. QED BY <1>6, <2>1, <2>2, <2>3, <2>4, <2>5, <2>6, <2>7 DEF Insert
<1>7. ASSUME NEW u \in Users, DailyClaim(u) PROVE IInv'
  BY <1>7, ClaimKeeps
<1>8. ASSUME NEW u \in Users, Redeem(u) PROVE IInv'
  BY <1>8, RedeemKeeps
<1>9. ASSUME NEW u \in Users, NEW w \in Withdrawals, Reject(u, w) PROVE IInv'
  BY <1>9, RejectKeeps
<1>10. ASSUME NEW c \in Calls, CreateAsk(c) PROVE IInv'
  BY <1>10, CreateAskKeeps
<1>11. ASSUME NEW k \in Refs, CloseAsk(k) PROVE IInv'
  BY <1>11, CloseAskKeeps
<1>12. CASE UNCHANGED vars
  BY <1>12, StutterInv
<1>. QED BY <1>1, <1>2, <1>3, <1>4, <1>5, <1>6, <1>7, <1>8, <1>9, <1>10, <1>11, <1>12 DEF Next

THEOREM Invariance == Spec => []IInv
BY InitInv, NextInv, PTL DEF Spec

(* Every variable keeps its type (ghc_transactions and its tables). *)
THEOREM TypeCorrect == Spec => []TypeOK
<1>1. IInv => TypeOK
  BY DEF IInv
<1>. QED BY <1>1, Invariance, PTL

(* What open withdrawals reserve stays there for users who never gave. *)
THEOREM ReservationsSafe == Spec => []ReservationsCovered
<1>1. IInv => ReservationsCovered
  BY DEF IInv
<1>. QED BY <1>1, Invariance, PTL

(* The daily limits hold under any interleaving of transfers. *)
THEOREM LimitsSafe == Spec => []LimitsKept
<1>1. IInv => LimitsKept
  BY DEF IInv
<1>. QED BY <1>1, Invariance, PTL

(* An accepted request has its transfer. *)
THEOREM AcceptedSafe == Spec => []AcceptedMeansMoved
<1>1. IInv => AcceptedMeansMoved
  BY DEF IInv
<1>. QED BY <1>1, Invariance, PTL

--------------------------------------------------------------------------------
(***************************************************************************)
(* A session that waits while it holds a lock waits for the balance of a   *)
(* user later than any whose balance it holds.                             *)
(***************************************************************************)
Wanted(s, u) == Waiting(s) /\ Plan(sess[s].call)[sess[s].got + 1] = Balance(u)

LEMMA WaitsUpward ==
  ASSUME LocksOK, NEW s \in Sessions, Waiting(s)
  PROVE  \E u \in Users :
           /\ Wanted(s, u)
           /\ \A v \in Users : Balance(v) \in Held(s) => v < u
<1>. DEFINE c == sess[s].call
            n == sess[s].got
<1>1. c \in AllCalls /\ n \in 1..Len(Plan(c)) /\ n < Len(Plan(c))
  <2>1. c # NoCall
    <3>1. CASE c = NoCall
      BY <3>1, NoPlan DEF LocksOK, SessOK, Idle, Waiting
    <3>. QED BY <3>1
  <2>. QED BY <2>1, CallsAssumption DEF LocksOK, SessOK, Waiting
<1>2. Held(s) = {Plan(c)[i] : i \in 1..n}
  BY DEF Held
<1>3. CASE c.op \in {"spend", "withdraw", "give"}
  <2>1. Len(Plan(c)) = 1
    BY <1>1, <1>3, PlanFacts
  <2>. QED BY <1>1, <2>1
<1>4. CASE c.op = "settle"
  <2>1. Plan(c) = <<<<"withdrawal", c.user, c.ref>>, Balance(c.user)>>
    BY <1>1, <1>4, PlanFacts
  <2>2. n = 1 /\ Plan(c)[n + 1] = Balance(c.user) /\ Held(s) = {<<"withdrawal", c.user, c.ref>>}
    BY <1>1, <1>2, <2>1
  <2>3. \A v \in Users : Balance(v) \notin Held(s)
    BY <2>2 DEF Balance
  <2>. QED BY <1>1, <2>2, <2>3, CallType DEF Wanted
<1>5. CASE c.op = "send"
  <2>1. PICK x, y \in Users : x < y /\ Plan(c) = <<Balance(x), Balance(y)>>
    BY <1>1, <1>5, PlanFacts
  <2>2. n = 1 /\ Plan(c)[n + 1] = Balance(y) /\ Held(s) = {Balance(x)}
    BY <1>1, <1>2, <2>1
  <2>3. \A v \in Users : Balance(v) \in Held(s) => v < y
    BY <2>1, <2>2 DEF Balance
  <2>. QED BY <2>2, <2>3 DEF Wanted
<1>6. CASE c.op = "accept"
  <2>1. PICK x, y \in Users : /\ x < y
                              /\ Plan(c) = <<<<"ask", c.ref>>, Balance(x), Balance(y)>>
    BY <1>1, <1>6, PlanFacts
  <2>2. CASE n = 1
    <3>1. Plan(c)[n + 1] = Balance(x) /\ Held(s) = {<<"ask", c.ref>>}
      BY <1>2, <2>1, <2>2
    <3>2. \A v \in Users : Balance(v) \notin Held(s)
      BY <3>1 DEF Balance
    <3>. QED BY <3>1, <3>2 DEF Wanted
  <2>3. CASE n = 2
    <3>1. Plan(c)[n + 1] = Balance(y) /\ Held(s) = {<<"ask", c.ref>>, Balance(x)}
      BY <1>2, <2>1, <2>3
    <3>2. \A v \in Users : Balance(v) \in Held(s) => v < y
      BY <2>1, <3>1 DEF Balance
    <3>. QED BY <3>1, <3>2 DEF Wanted
  <2>. QED BY <1>1, <2>1, <2>2, <2>3
<1>. QED BY <1>1, <1>3, <1>4, <1>5, <1>6, CallType

(* The one of S that wants the last balance waits for nobody who waits. *)
LEMMA NoCircle == LocksOK => NoCircularWait
<1>. SUFFICES ASSUME LocksOK, NEW S \in (SUBSET Sessions) \ {{}}
              PROVE  \E s \in S : \A t \in S : ~ WaitsFor(s, t)
  BY DEF NoCircularWait
<1>1. CASE \E s \in S : ~ Waiting(s)
  BY <1>1 DEF WaitsFor
<1>2. CASE \A s \in S : Waiting(s)
  <2>. DEFINE U == {u \in Users : \E s \in S : Wanted(s, u)}
  <2>1. U \in (SUBSET Users) \ {{}}
    <3>1. PICK s \in S : TRUE
      OBVIOUS
    <3>2. \E u \in Users : Wanted(s, u)
      BY <1>2, WaitsUpward
    <3>. QED BY <3>2
  <2>2. PICK m \in U : \A u \in U : u =< m
    BY <2>1, UsersAssumption
  <2>3. PICK s \in S : Wanted(s, m)
    BY <2>2
  <2>4. ASSUME NEW t \in S, WaitsFor(s, t) PROVE FALSE
    <3>1. Balance(m) \in Held(t)
      BY <2>3, <2>4 DEF WaitsFor, Wanted
    <3>2. PICK u \in Users : Wanted(t, u) /\ \A v \in Users : Balance(v) \in Held(t) => v < u
      BY <1>2, WaitsUpward
    <3>3. m < u /\ u =< m
      BY <2>2, <3>1, <3>2
    <3>. QED BY <3>3, UsersAssumption
  <2>. QED BY <2>4
<1>. QED BY <1>1, <1>2

(* No circle of sessions waits for each other's locks. *)
THEOREM DeadlockFree == Spec => []NoCircularWait
<1>1. IInv => NoCircularWait
  BY NoCircle DEF IInv
<1>. QED BY <1>1, Invariance, PTL

--------------------------------------------------------------------------------
(***************************************************************************)
(* A step changes the answer of a request only while it is pending, and of *)
(* a withdrawal only while it is open: whoever answers has locked the row  *)
(* and relies on what it read under the lock.                              *)
(***************************************************************************)
FinalStep ==
  /\ \A k \in Refs : ask[k].status \in {"ACCEPTED", "CLOSED"} => ask'[k] = ask[k]
  /\ \A u \in Users, w \in Withdrawals :
       wd[u][w] \in {"completed", "rejected"} => wd'[u][w] = wd[u][w]

LEMMA OneAskMoves ==
  ASSUME NEW j \in Refs, NEW a, ask' = [ask EXCEPT ![j] = a], DOMAIN ask = Refs,
         ask[j].status \in {"none", "PENDING"}, UNCHANGED wd
  PROVE  FinalStep
BY DEF FinalStep

LEMMA OneWithdrawalMoves ==
  ASSUME IInv, NEW v \in Users, NEW x \in Withdrawals, NEW a, wd' = [wd EXCEPT ![v][x] = a],
         wd[v][x] \in {"none", "open"}, UNCHANGED ask
  PROVE  FinalStep
<1>1. WdType
  BY DEF WdType, IInv, TypeOK
<1>2. \A u \in Users, w \in Withdrawals : u # v \/ w # x => wd'[u][w] = wd[u][w]
  BY <1>1 DEF WdType
<1>. QED BY <1>2 DEF FinalStep

LEMMA InsertIsFinal ==
  ASSUME IInv, NEW s \in Sessions, Insert(s)
  PROVE  FinalStep
<1>. DEFINE c == sess[s].call
<1>0. DOMAIN ask = Refs
  BY DEF IInv, TypeOK
<1>1. CASE Spend(s) \/ Send(s) \/ Give(s)
  BY <1>1 DEF Spend, Send, Transfer, Give, FinalStep
<1>2. CASE Accept(s) \/ MarkAccepted(s)
  <2>1. c.ref \in Refs /\ ask[c.ref] = Asked(c, "PENDING")
    <3>1. CASE Accept(s)
      BY <3>1, Inserting DEF Accept, Commit, Relies, IInv
    <3>2. CASE MarkAccepted(s)
      BY <3>2, Inserting DEF MarkAccepted, Relies, IInv
    <3>. QED BY <1>2, <3>1, <3>2
  <2>2. ask' = [ask EXCEPT ![c.ref] = [@ EXCEPT !.status = "ACCEPTED"]] /\ UNCHANGED wd
    BY <1>2 DEF Accept, MarkAccepted, Transfer
  <2>3. ask[c.ref].status = "PENDING"
    BY <2>1 DEF Asked
  <2>. QED BY <1>0, <2>1, <2>2, <2>3, OneAskMoves
<1>3. CASE Withdraw(s)
  <2>1. c.user \in Users /\ c.ref \in Withdrawals /\ wd[c.user][c.ref] = "none"
    BY <1>3, Inserting DEF Withdraw, Commit, Relies, IInv
  <2>2. wd' = [wd EXCEPT ![c.user][c.ref] = "open"] /\ UNCHANGED ask
    BY <1>3 DEF Withdraw
  <2>. QED BY <2>1, <2>2, OneWithdrawalMoves
<1>4. CASE Settle(s)
  <2>1. c.user \in Users /\ c.ref \in Withdrawals /\ wd[c.user][c.ref] = "open"
    BY <1>4, Inserting DEF Settle, Commit, Relies, IInv
  <2>2. wd' = [wd EXCEPT ![c.user][c.ref] = "completed"] /\ UNCHANGED ask
    BY <1>4 DEF Settle
  <2>. QED BY <2>1, <2>2, OneWithdrawalMoves
<1>. QED BY <1>1, <1>2, <1>3, <1>4 DEF Insert

LEMMA NextIsFinal == IInv /\ [Next]_vars => FinalStep
<1>. SUFFICES ASSUME IInv, [Next]_vars PROVE FinalStep
  OBVIOUS
<1>0. DOMAIN ask = Refs
  BY DEF IInv, TypeOK
<1>1. CASE UNCHANGED <<ask, wd>>
  BY <1>1 DEF FinalStep
<1>2. ASSUME NEW s \in Sessions, Insert(s) PROVE FinalStep
  BY <1>2, InsertIsFinal
<1>3. ASSUME NEW u \in Users, NEW w \in Withdrawals, Reject(u, w) PROVE FinalStep
  <2>1. wd[u][w] = "open" /\ wd' = [wd EXCEPT ![u][w] = "rejected"] /\ UNCHANGED ask
    BY <1>3 DEF Reject
  <2>. QED BY <2>1, OneWithdrawalMoves
<1>4. ASSUME NEW c \in Calls, CreateAsk(c) PROVE FinalStep
  <2>1. c.ref \in Refs
    BY <1>4, CallsAssumption, CallType DEF CreateAsk
  <2>2. ask[c.ref].status = "none" /\ UNCHANGED wd
    BY <1>4 DEF CreateAsk, NoAsk
  <2>3. ask' = [ask EXCEPT ![c.ref] = Asked(c, "PENDING")]
    BY <1>4 DEF CreateAsk, Asked
  <2>. QED BY <1>0, <2>1, <2>2, <2>3, OneAskMoves
<1>5. ASSUME NEW k \in Refs, CloseAsk(k) PROVE FinalStep
  <2>1. /\ ask[k].status = "PENDING" /\ UNCHANGED wd
        /\ ask' = [ask EXCEPT ![k] = [@ EXCEPT !.status = "CLOSED"]]
    BY <1>5 DEF CloseAsk
  <2>. QED BY <1>0, <2>1, OneAskMoves
<1>. QED
  BY <1>1, <1>2, <1>3, <1>4, <1>5
     DEF Next, Begin, Acquire, Closed, Decide, Abort, Unlocked, DailyClaim, Redeem, vars

(* An answer given to a request or a withdrawal stands for good. *)
THEOREM AnswersStand == Spec => AnswersAreFinal
<1>1. IInv /\ [Next]_vars => [FinalStep]_vars
  BY NextIsFinal
<1>. QED BY <1>1, Invariance, PTL DEF Spec, AnswersAreFinal, FinalStep

--------------------------------------------------------------------------------
(***************************************************************************)
(* The ledger implements GhcPromise: a step that inserts is a step of the  *)
(* promise under a key that had not taken effect, every other a stutter.   *)
(***************************************************************************)
Done == {key \in EffectKeys : TookEffect(key)}

Givers == {u \in Users : given[u] # {}}

Pledges == [u \in Users |-> Reserved(u)]

LEMMA KeyKinds ==
  ASSUME NEW key \in EffectKeys
  PROVE  \/ \E u \in Users : key = <<"earn", u>>
         \/ \E u \in Users, k \in Refs : key = <<"spend", u, k>>
         \/ \E u \in Users, k \in Refs : key = <<"move", u, k>>
         \/ \E u, v \in Users : key = <<"give", u, v>>
         \/ \E u \in Users, w \in Withdrawals : key = <<"pledge", u, w>>
         \/ \E u \in Users, w \in Withdrawals : key = <<"close", u, w>>
BY DEF EffectKeys

(* Nothing but the effect of key is new. *)
NewOnly(key) ==
  /\ \A u \in Users : <<"earn", u>> # key => (claim'[u] = "posted" <=> claim[u] = "posted")
  /\ \A u \in Users, k \in Refs : <<"spend", u, k>> # key => spent'[u][k] = spent[u][k]
  /\ \A u \in Users, k \in Refs : <<"move", u, k>> # key => sent'[u][k] = sent[u][k]
  /\ \A u, v \in Users : <<"give", u, v>> # key => (v \in given'[u] <=> v \in given[u])
  /\ \A u \in Users, w \in Withdrawals :
       /\ <<"pledge", u, w>> # key => (wd'[u][w] = "none" <=> wd[u][w] = "none")
       /\ <<"close", u, w>> # key =>
            (wd'[u][w] \in {"completed", "rejected"} <=> wd[u][w] \in {"completed", "rejected"})

LEMMA OthersStay ==
  ASSUME NEW key, NewOnly(key), NEW k \in EffectKeys, k # key
  PROVE  TookEffect(k)' <=> TookEffect(k)
<1>1. CASE \E u \in Users : k = <<"earn", u>>
  BY <1>1 DEF NewOnly, TookEffect
<1>2. CASE \E u \in Users, j \in Refs : k = <<"spend", u, j>>
  BY <1>2 DEF NewOnly, TookEffect
<1>3. CASE \E u \in Users, j \in Refs : k = <<"move", u, j>>
  BY <1>3 DEF NewOnly, TookEffect
<1>4. CASE \E u, v \in Users : k = <<"give", u, v>>
  BY <1>4 DEF NewOnly, TookEffect
<1>5. CASE \E u \in Users, w \in Withdrawals : k = <<"pledge", u, w>>
  BY <1>5 DEF NewOnly, TookEffect
<1>6. CASE \E u \in Users, w \in Withdrawals : k = <<"close", u, w>>
  BY <1>6 DEF NewOnly, TookEffect
<1>. QED BY <1>1, <1>2, <1>3, <1>4, <1>5, <1>6, KeyKinds

(* The key of a step takes effect for the first time. *)
LEMMA OneEffect ==
  ASSUME NEW key \in EffectKeys, NewOnly(key), ~ TookEffect(key), TookEffect(key)'
  PROVE  key \in Done' \ Done /\ Done' = Done \cup {key}
<1>1. \A k \in EffectKeys : k # key => (TookEffect(k)' <=> TookEffect(k))
  BY OthersStay
<1>. QED BY <1>1 DEF Done

(* No operation takes effect: the promise stutters. *)
LEMMA NoEffect ==
  ASSUME UNCHANGED <<posted, spent, sent, given, wd>>,
         \A u \in Users : claim'[u] = "posted" <=> claim[u] = "posted"
  PROVE  UNCHANGED Promise!vars
<1>1. NewOnly(<<"none">>)
  BY DEF NewOnly
<1>2. \A k \in EffectKeys : k # <<"none">>
  BY KeyKinds
<1>3. Done' = Done
  BY <1>1, <1>2, OthersStay DEF Done
<1>4. Givers' = Givers /\ Pledges' = Pledges
  BY ReservedSame DEF Givers, Pledges
<1>. QED BY <1>3, <1>4 DEF Promise!vars, Done, Givers, Pledges

(***************************************************************************)
(* A session about to give has not given to this author before: it holds   *)
(* the lock of the voter and the author since before it looked.            *)
(***************************************************************************)
GiveIsNew ==
  \A s \in Sessions :
    sess[s].due = "insert" /\ sess[s].call.op = "give" =>
      sess[s].call.to \notin given[sess[s].call.user]

LEMMA GiverHolds ==
  ASSUME IInv, NEW s \in Sessions, sess[s].due = "insert", sess[s].call.op = "give"
  PROVE  <<"social", sess[s].call.user, sess[s].call.to>> \in Held(s)
<1>. DEFINE c == sess[s].call
<1>1. c \in AllCalls /\ Full(s)
  BY Inserting
<1>2. Plan(c) = <<<<"social", c.user, c.to>>>>
  BY <1>1, PlanFacts
<1>3. sess[s].got = 1
  BY <1>1, <1>2 DEF Full
<1>. QED BY <1>2, <1>3 DEF Held

(* A session that is about to insert was so before, or has just decided. *)
LEMMA InsertIsDecided ==
  ASSUME IInv, [Next]_vars, NEW s \in Sessions, sess'[s].due = "insert"
  PROVE  \/ sess'[s].call = sess[s].call /\ sess[s].due = "insert"
         \/ /\ sess'[s].call = sess[s].call /\ Answer(sess[s].call) = "insert"
            /\ given' = given
<1>t. SessType
  BY DEF IInv, LocksOK
<1>1. CASE sess' = sess
  BY <1>1
<1>2. ASSUME NEW t \in Sessions, Releases(t) PROVE sess'[s] = sess[s]
  BY <1>2, <1>t DEF Releases, Idle, SessType
<1>3. ASSUME NEW t \in Sessions, NEW c \in Calls, Begin(t, c) PROVE sess'[s] = sess[s]
  BY <1>3, <1>t DEF Begin, SessType
<1>4. ASSUME NEW t \in Sessions, Acquire(t)
      PROVE  sess'[s].call = sess[s].call /\ sess[s].due = "insert"
  BY <1>4, <1>t DEF Acquire, SessType
<1>5. ASSUME NEW t \in Sessions, Decide(t)
      PROVE  \/ sess'[s].call = sess[s].call /\ sess[s].due = "insert"
             \/ /\ sess'[s].call = sess[s].call /\ Answer(sess[s].call) = "insert"
                /\ given' = given
  <2>1. given' = given
    BY <1>5 DEF Decide, Unlocked
  <2>2. CASE t = s
    <3>1. CASE Answer(sess[s].call) \in {"insert", "mark"}
      <4>1. sess'[s] = [sess[s] EXCEPT !.due = Answer(sess[s].call)]
        BY <1>5, <1>t, <2>2, <3>1 DEF Decide, SessType
      <4>. QED BY <1>t, <2>1, <4>1 DEF SessType
    <3>2. CASE Answer(sess[s].call) \notin {"insert", "mark"}
      BY <1>5, <1>t, <2>2, <3>2 DEF Decide, SessType, Idle
    <3>. QED BY <3>1, <3>2
  <2>3. CASE t # s
    BY <1>5, <1>t, <2>3 DEF Decide, SessType
  <2>. QED BY <2>2, <2>3
<1>6. CASE Next
  BY <1>1, <1>2, <1>3, <1>4, <1>5, <1>6, SessSteps DEF Advances
<1>. QED BY <1>1, <1>6 DEF vars

LEMMA GiveStaysNew ==
  ASSUME IInv, GiveIsNew, [Next]_vars
  PROVE  GiveIsNew'
<1>1. SUFFICES ASSUME NEW s \in Sessions, sess'[s].due = "insert", sess'[s].call.op = "give"
               PROVE  sess'[s].call.to \notin given'[sess'[s].call.user]
  BY DEF GiveIsNew
<1>. DEFINE c == sess[s].call
<1>2. CASE sess'[s].call = c /\ Answer(c) = "insert" /\ given' = given
  BY <1>1, <1>2 DEF Answer, GiveAnswer
<1>3. CASE sess'[s].call = c /\ sess[s].due = "insert" /\ given' = given
  BY <1>1, <1>3 DEF GiveIsNew
<1>4. ASSUME NEW t \in Sessions, Give(t), sess'[s].call = c, sess[s].due = "insert"
      PROVE  sess'[s].call.to \notin given'[sess'[s].call.user]
  <2>. DEFINE d == sess[t].call
  <2>1. /\ sess[t].due = "insert" /\ d.op = "give" /\ sess' = [sess EXCEPT ![t] = Idle]
        /\ given' = [given EXCEPT ![d.user] = @ \cup {d.to}]
    BY <1>4 DEF Give, Commit
  <2>2. s # t
    BY <1>1, <2>1 DEF IInv, LocksOK, SessType, Idle
  <2>3. <<"social", d.user, d.to>> \in Held(t) /\ <<"social", c.user, c.to>> \in Held(s)
    BY <1>1, <1>4, <2>1, GiverHolds
  <2>4. ~ (d.user = c.user /\ d.to = c.to)
    BY <2>2, <2>3 DEF IInv, LocksOK, Exclusive
  <2>5. c.to \notin given[c.user] /\ c.user \in Users /\ d.user \in Users
    BY <1>1, <1>4, <2>1, Inserting DEF GiveIsNew
  <2>6. given \in [Users -> SUBSET Users]
    BY DEF IInv, TypeOK
  <2>. QED BY <1>4, <2>1, <2>4, <2>5, <2>6
<1>5. given' = given \/ \E t \in Sessions : Give(t)
  BY DEF Next, Begin, Acquire, Closed, Decide, Abort, Unlocked, Insert, Spend, Send, Accept,
         Transfer, MarkAccepted, Withdraw, Settle, DailyClaim, Redeem, Reject, CreateAsk,
         CloseAsk, vars
<1>. QED BY <1>1, <1>2, <1>3, <1>4, <1>5, InsertIsDecided

(***************************************************************************)
(* Each insertion is a step of the promise, under the key of its operation.*)
(***************************************************************************)
LEMMA SpendEffect ==
  ASSUME IInv, NEW s \in Sessions, Spend(s)
  PROVE  Promise!Next
<1>. DEFINE c == sess[s].call
<1>0. PICK u \in Users, k \in Refs, a \in Amounts :
        u = c.user /\ k = c.ref /\ a = c.amount /\ a # 0
  BY Inserting DEF Spend, Commit
<1>. DEFINE key == <<"spend", u, k>>
<1>1. spent[u][k] = 0 /\ CanPay(u, a)
  BY <1>0 DEF Spend, Commit, Relies, IInv
<1>2. /\ spent' = [spent EXCEPT ![u][k] = a]
      /\ posted' = [posted EXCEPT ![u] = @ - a]
      /\ UNCHANGED <<claim, sent, given, today, ask, wd>>
  BY <1>0 DEF Spend
<1>3. spent \in [Users -> [Refs -> Amounts \cup {0}]]
  BY DEF IInv, TypeOK
<1>4. spent'[u][k] = a /\ \A v \in Users, j \in Refs : v # u \/ j # k => spent'[v][j] = spent[v][j]
  BY <1>2, <1>3
<1>5. key \in EffectKeys /\ ~ TookEffect(key) /\ TookEffect(key)'
  BY <1>0, <1>1, <1>4 DEF EffectKeys, TookEffect
<1>6. NewOnly(key)
  BY <1>2, <1>4 DEF NewOnly
<1>7. key \in Done' \ Done /\ Done' = Done \cup {key}
  BY <1>5, <1>6, OneEffect
<1>8. Pledges' = Pledges /\ Givers' = Givers /\ Pledges[u] = Reserved(u)
  BY <1>2, ReservedSame DEF Pledges, Givers
<1>9. Promise!Spend(u, a)
  BY <1>1, <1>2, <1>8 DEF Promise!Spend, Promise!Covers, Pledges, Givers, CanPay
<1>10. key[1] = "spend" /\ key[2] = u /\ a \in Amounts \cup {Claim, Reserve, Share}
  OBVIOUS
<1>. HIDE DEF key
<1>. QED BY <1>5, <1>7, <1>9, <1>10 DEF Promise!Next, Done

LEMMA TransferEffect ==
  ASSUME IInv, NEW s \in Sessions, Send(s) \/ Accept(s)
  PROVE  Promise!Next
<1>. DEFINE c == sess[s].call
<1>0. PICK u \in Users, v \in Users, k \in Refs, a \in Amounts :
        u = c.user /\ v = c.to /\ k = c.ref /\ a = c.amount /\ a # 0 /\ v # u
  BY Inserting DEF Send, Accept, Commit
<1>. DEFINE key == <<"move", u, k>>
<1>1. sent[u][k] = NoRow /\ CanPay(u, a)
  BY <1>0 DEF Send, Accept, Commit, Relies, CanMove, IInv
<1>2. /\ sent' = [sent EXCEPT ![u][k] = [to |-> v, amount |-> a]]
      /\ posted' = [posted EXCEPT ![u] = @ - a, ![v] = @ + a]
      /\ UNCHANGED <<claim, spent, given, wd>>
  BY <1>0 DEF Send, Accept, Transfer, Moved
<1>3. sent \in [Users -> [Refs -> [to : Users, amount : Amounts] \cup {NoRow}]]
  BY DEF IInv, TypeOK
<1>4. /\ sent'[u][k] = [to |-> v, amount |-> a]
      /\ \A x \in Users, j \in Refs : x # u \/ j # k => sent'[x][j] = sent[x][j]
  BY <1>2, <1>3
<1>5. sent'[u][k] # NoRow
  BY <1>0, <1>4 DEF NoRow
<1>6. key \in EffectKeys /\ ~ TookEffect(key) /\ TookEffect(key)'
  BY <1>0, <1>1, <1>5 DEF EffectKeys, TookEffect
<1>7. NewOnly(key)
  BY <1>2, <1>4 DEF NewOnly
<1>8. key \in Done' \ Done /\ Done' = Done \cup {key}
  BY <1>6, <1>7, OneEffect
<1>9. Pledges' = Pledges /\ Givers' = Givers /\ Pledges[u] = Reserved(u)
  BY <1>2, ReservedSame DEF Pledges, Givers
<1>10. v \in Users \ {u} /\ Promise!Move(u, v, a)
  BY <1>0, <1>1, <1>2, <1>9 DEF Promise!Move, Promise!Covers, Pledges, Givers, CanPay
<1>11. key[1] = "move" /\ key[2] = u /\ a \in Amounts \cup {Claim, Reserve, Share}
  OBVIOUS
<1>. HIDE DEF key
<1>. QED BY <1>6, <1>8, <1>10, <1>11 DEF Promise!Next, Done

LEMMA GiveEffect ==
  ASSUME IInv, GiveIsNew, NEW s \in Sessions, Give(s)
  PROVE  Promise!Next
<1>. DEFINE c == sess[s].call
<1>0. PICK u \in Users, v \in Users : u = c.user /\ v = c.to /\ v # u /\ c.amount = Share
  BY Inserting, CallType DEF Give, Commit
<1>. DEFINE key == <<"give", u, v>>
<1>1. v \notin given[u]
  BY <1>0 DEF Give, Commit, GiveIsNew
<1>2. /\ given' = [given EXCEPT ![u] = @ \cup {v}]
      /\ posted' = [posted EXCEPT ![u] = @ - Share, ![v] = @ + Share]
      /\ UNCHANGED <<claim, spent, sent, wd>>
  BY <1>0 DEF Give, Moved
<1>3. given \in [Users -> SUBSET Users]
  BY DEF IInv, TypeOK
<1>4. given'[u] = given[u] \cup {v} /\ \A x \in Users \ {u} : given'[x] = given[x]
  BY <1>2, <1>3
<1>5. key \in EffectKeys /\ ~ TookEffect(key) /\ TookEffect(key)'
  BY <1>1, <1>4 DEF EffectKeys, TookEffect
<1>6. NewOnly(key)
  BY <1>2, <1>4 DEF NewOnly
<1>7. key \in Done' \ Done /\ Done' = Done \cup {key}
  BY <1>5, <1>6, OneEffect
<1>8. Pledges' = Pledges /\ Givers' = Givers \cup {u}
  BY <1>2, <1>4, ReservedSame DEF Pledges, Givers
<1>9. v \in Users \ {u} /\ Promise!Give(u, v, Share)
  BY <1>0, <1>2, <1>8 DEF Promise!Give, Pledges, Givers
<1>10. key[1] = "give" /\ key[2] = u /\ Share \in Amounts \cup {Claim, Reserve, Share}
  OBVIOUS
<1>. HIDE DEF key
<1>. QED BY <1>5, <1>7, <1>9, <1>10 DEF Promise!Next, Done

LEMMA RedeemEffect ==
  ASSUME IInv, NEW u \in Users, Redeem(u)
  PROVE  Promise!Next
<1>. DEFINE key == <<"earn", u>>
<1>1. /\ claim[u] = "pending" /\ claim' = [claim EXCEPT ![u] = "posted"]
      /\ posted' = [posted EXCEPT ![u] = @ + Claim]
      /\ UNCHANGED <<spent, sent, given, wd>>
  BY DEF Redeem
<1>2. claim'[u] = "posted" /\ \A v \in Users \ {u} : claim'[v] = claim[v]
  BY <1>1 DEF IInv, TypeOK
<1>3. key \in EffectKeys /\ ~ TookEffect(key) /\ TookEffect(key)'
  BY <1>1, <1>2 DEF EffectKeys, TookEffect
<1>4. NewOnly(key)
  BY <1>1, <1>2 DEF NewOnly
<1>5. key \in Done' \ Done /\ Done' = Done \cup {key}
  BY <1>3, <1>4, OneEffect
<1>6. Pledges' = Pledges /\ Givers' = Givers
  BY <1>1, ReservedSame DEF Pledges, Givers
<1>7. Promise!Earn(u, Claim)
  BY <1>1, <1>6 DEF Promise!Earn, Pledges, Givers
<1>8. key[1] = "earn" /\ key[2] = u /\ Claim \in Amounts \cup {Claim, Reserve, Share}
  OBVIOUS
<1>. HIDE DEF key
<1>. QED BY <1>3, <1>5, <1>7, <1>8 DEF Promise!Next, Done

(* The withdrawals that are neither asked for nor answered by a step. *)
LEMMA OneWithdrawal ==
  ASSUME IInv, NEW v \in Users, NEW x \in Withdrawals, NEW a \in {"open", "completed", "rejected"},
         wd' = [wd EXCEPT ![v][x] = a]
  PROVE  wd'[v][x] = a /\ \A u \in Users, w \in Withdrawals : u # v \/ w # x => wd'[u][w] = wd[u][w]
<1>1. WdType
  BY DEF WdType, IInv, TypeOK
<1>. QED BY <1>1 DEF WdType

LEMMA PledgeEffect ==
  ASSUME IInv, NEW s \in Sessions, Withdraw(s)
  PROVE  Promise!Next
<1>. DEFINE c == sess[s].call
<1>0. PICK u \in Users, w \in Withdrawals : u = c.user /\ w = c.ref /\ c.amount = Reserve
  BY Inserting DEF Withdraw, Commit
<1>. DEFINE key == <<"pledge", u, w>>
<1>1. wd[u][w] = "none" /\ CanPay(u, Reserve)
  BY <1>0 DEF Withdraw, Commit, Relies, IInv
<1>2. /\ wd' = [wd EXCEPT ![u][w] = "open"]
      /\ UNCHANGED <<claim, posted, spent, sent, given>>
  BY <1>0 DEF Withdraw
<1>3. wd'[u][w] = "open" /\ \A x \in Users, y \in Withdrawals : x # u \/ y # w => wd'[x][y] = wd[x][y]
  BY <1>2, OneWithdrawal
<1>4. key \in EffectKeys /\ ~ TookEffect(key) /\ TookEffect(key)'
  BY <1>1, <1>3 DEF EffectKeys, TookEffect
<1>5. NewOnly(key)
  BY <1>1, <1>2, <1>3 DEF NewOnly
<1>6. key \in Done' \ Done /\ Done' = Done \cup {key}
  BY <1>4, <1>5, OneEffect
<1>7. /\ Reserved(u)' = Reserved(u) + Reserve
      /\ \A x \in Users \ {u} : Reserved(x)' = Reserved(x)
  BY <1>1, <1>2, ReservedMore DEF IInv, TypeOK, WdType
<1>8. Pledges' = [Pledges EXCEPT ![u] = @ + Reserve] /\ Givers' = Givers /\ Pledges[u] = Reserved(u)
  BY <1>2, <1>7 DEF Pledges, Givers
<1>9. Promise!Pledge(u, Reserve)
  BY <1>1, <1>2, <1>8 DEF Promise!Pledge, Promise!Covers, Pledges, Givers, CanPay
<1>10. key[1] = "pledge" /\ key[2] = u /\ Reserve \in Amounts \cup {Claim, Reserve, Share}
  OBVIOUS
<1>. HIDE DEF key
<1>. QED BY <1>4, <1>6, <1>9, <1>10 DEF Promise!Next, Done

(* An answered withdrawal, rejected (funds stay) or settled. *)
LEMMA CloseEffect ==
  ASSUME IInv, NEW u \in Users, NEW w \in Withdrawals, NEW a \in {"completed", "rejected"},
         wd[u][w] = "open", wd' = [wd EXCEPT ![u][w] = a],
         \/ a = "rejected" /\ posted' = posted
         \/ a = "completed" /\ posted' = [posted EXCEPT ![u] = @ - Reserve],
         UNCHANGED <<claim, spent, sent, given>>
  PROVE  Promise!Next
<1>. DEFINE key == <<"close", u, w>>
<1>1. wd'[u][w] = a /\ \A x \in Users, y \in Withdrawals : x # u \/ y # w => wd'[x][y] = wd[x][y]
  BY OneWithdrawal
<1>2. key \in EffectKeys /\ ~ TookEffect(key) /\ TookEffect(key)'
  BY <1>1 DEF EffectKeys, TookEffect
<1>3. NewOnly(key)
  BY <1>1 DEF NewOnly
<1>4. key \in Done' \ Done /\ Done' = Done \cup {key}
  BY <1>2, <1>3, OneEffect
<1>5. /\ Reserved(u) = Reserved(u)' + Reserve
      /\ \A x \in Users \ {u} : Reserved(x)' = Reserved(x)
  BY ReservedLess DEF IInv, TypeOK, WdType
<1>6. Reserved(u) \in Nat /\ Reserved(u)' \in Nat /\ Reserve \in Nat
  BY ReservedType, ReservedTypePrime, ReserveType
<1>7. Pledges' = [Pledges EXCEPT ![u] = @ - Reserve] /\ Givers' = Givers /\ Pledges[u] = Reserved(u)
  <2>1. Reserved(u)' = Reserved(u) - Reserve
    BY <1>5, <1>6
  <2>2. Givers' = Givers /\ Pledges[u] = Reserved(u)
    BY DEF Givers, Pledges
  <2>3. ASSUME NEW x \in Users
        PROVE  Reserved(x)' = [Pledges EXCEPT ![u] = @ - Reserve][x]
    BY <1>5, <2>1, <2>3 DEF Pledges
  <2>4. Pledges' = [x \in Users |-> Reserved(x)']
    BY DEF Pledges
  <2>5. [Pledges EXCEPT ![u] = @ - Reserve]
          = [x \in Users |-> [Pledges EXCEPT ![u] = @ - Reserve][x]]
    BY DEF Pledges
  <2>. QED BY <2>2, <2>3, <2>4, <2>5
<1>8. Promise!Withdraw(u, Reserve) \/ Promise!Redeem(u, Reserve)
  <2>1. CASE a = "rejected"
    BY <1>7, <2>1 DEF Promise!Withdraw, Pledges, Givers
  <2>2. CASE a = "completed"
    <3>1. u \in Givers \/ posted[u] - Reserved(u) >= 0
      <4>1. posted[u] \in Int
        BY DEF IInv, TypeOK
      <4>2. given[u] = {} => posted[u] >= Reserved(u)
        BY DEF IInv, ReservationsCovered
      <4>3. given[u] # {} => u \in Givers
        BY DEF Givers
      <4>. QED BY <1>6, <4>1, <4>2, <4>3
    <3>. QED BY <1>7, <2>2, <3>1 DEF Promise!Redeem, Promise!Covers, Pledges, Givers
  <2>. QED BY <2>1, <2>2
<1>9. key[1] = "close" /\ key[2] = u /\ Reserve \in Amounts \cup {Claim, Reserve, Share}
  OBVIOUS
<1>. HIDE DEF key
<1>. QED BY <1>2, <1>4, <1>8, <1>9 DEF Promise!Next, Done

LEMMA SettleEffect ==
  ASSUME IInv, NEW s \in Sessions, Settle(s)
  PROVE  Promise!Next
<1>. DEFINE c == sess[s].call
<1>0. PICK u \in Users, w \in Withdrawals : u = c.user /\ w = c.ref
  BY Inserting DEF Settle, Commit
<1>1. wd[u][w] = "open"
  BY <1>0 DEF Settle, Commit, Relies, IInv
<1>. QED BY <1>0, <1>1, CloseEffect DEF Settle

LEMMA PromiseStep ==
  ASSUME IInv, GiveIsNew, [Next]_vars
  PROVE  [Promise!Next]_(Promise!vars)
<1>1. ASSUME NEW s \in Sessions, Insert(s) PROVE Promise!Next \/ UNCHANGED Promise!vars
  <2>1. CASE MarkAccepted(s)
    BY <2>1, NoEffect DEF MarkAccepted
  <2>. QED
    BY <1>1, <2>1, SpendEffect, TransferEffect, GiveEffect, PledgeEffect, SettleEffect DEF Insert
<1>2. ASSUME NEW u \in Users, DailyClaim(u) PROVE UNCHANGED Promise!vars
  <2>1. \A v \in Users : claim'[v] = "posted" <=> claim[v] = "posted"
    BY <1>2 DEF DailyClaim, IInv, TypeOK
  <2>. QED BY <1>2, <2>1, NoEffect DEF DailyClaim
<1>3. ASSUME NEW u \in Users, NEW w \in Withdrawals, Reject(u, w) PROVE Promise!Next
  BY <1>3, CloseEffect DEF Reject
<1>4. ASSUME UNCHANGED <<claim, posted, spent, sent, given, today, wd>>
      PROVE  UNCHANGED Promise!vars
  BY <1>4, NoEffect
<1>5. \/ UNCHANGED <<claim, posted, spent, sent, given, today, wd>>
      \/ \E s \in Sessions : Insert(s)
      \/ \E u \in Users : DailyClaim(u) \/ Redeem(u) \/ \E w \in Withdrawals : Reject(u, w)
  BY DEF Next, Begin, Acquire, Closed, Decide, Abort, Unlocked, CreateAsk, CloseAsk, vars
<1>. QED BY <1>1, <1>2, <1>3, <1>4, <1>5, RedeemEffect

LEMMA PromiseInit == Init => Promise!Init /\ GiveIsNew
<1>. SUFFICES ASSUME Init PROVE Promise!Init /\ GiveIsNew
  OBVIOUS
<1>1. GiveIsNew
  BY DEF Init, GiveIsNew, Idle
<1>2. Done = {}
  <2>1. ASSUME NEW key \in EffectKeys PROVE ~ TookEffect(key)
    <3>1. CASE \E u \in Users : key = <<"earn", u>>
      BY <3>1 DEF Init, TookEffect
    <3>2. CASE \E u \in Users, k \in Refs : key = <<"spend", u, k>>
      BY <3>2 DEF Init, TookEffect
    <3>3. CASE \E u \in Users, k \in Refs : key = <<"move", u, k>>
      BY <3>3 DEF Init, TookEffect
    <3>4. CASE \E u, v \in Users : key = <<"give", u, v>>
      BY <3>4 DEF Init, TookEffect
    <3>5. CASE \E u \in Users, w \in Withdrawals : key = <<"pledge", u, w>>
      BY <3>5 DEF Init, TookEffect
    <3>6. CASE \E u \in Users, w \in Withdrawals : key = <<"close", u, w>>
      BY <3>6 DEF Init, TookEffect
    <3>. QED BY <2>1, <3>1, <3>2, <3>3, <3>4, <3>5, <3>6, KeyKinds
  <2>. QED BY <2>1 DEF Done
<1>3. Givers = {}
  BY DEF Init, Givers
<1>4. Pledges = [u \in Users |-> 0]
  <2>1. ASSUME NEW u \in Users PROVE Reserved(u) = 0
    <3>1. Open(u) = {}
      BY DEF Init, Open
    <3>. QED BY <3>1, FS_EmptySet, ReserveType DEF Reserved
  <2>. QED BY <2>1 DEF Pledges
<1>. QED BY <1>1, <1>2, <1>3, <1>4 DEF Init, Promise!Init, Done, Givers, Pledges

(***************************************************************************)
(* The GHC ledger keeps GhcPromise, whatever transactions interleave: each *)
(* operation takes effect once, in one step, on funds nothing reserves.    *)
(***************************************************************************)
THEOREM KeepsPromise == Spec => PromiseKept
<1>1. Init => IInv /\ GiveIsNew /\ Promise!Init
  BY InitInv, PromiseInit
<1>2. IInv /\ GiveIsNew /\ [Next]_vars => IInv' /\ GiveIsNew' /\ [Promise!Next]_(Promise!vars)
  BY NextInv, GiveStaysNew, PromiseStep
<1>. QED BY <1>1, <1>2, PTL DEF Spec, PromiseKept, Promise!Spec

--------------------------------------------------------------------------------
(* Totals (see Totals): the facts this module needs of them. *)

(* The units of a row are as many as its amount, or none. *)
LEMMA RowUnits ==
  ASSUME NEW x, NEW n \in Int
  PROVE  /\ IsFiniteSet({x} \X (1..n))
         /\ Cardinality({x} \X (1..n)) = IF n > 0 THEN n ELSE 0
<1>1. IsFiniteSet({x}) /\ Cardinality({x}) = 1
  BY FS_Singleton
<1>2. IsFiniteSet(1..n) /\ Cardinality(1..n) = IF n > 0 THEN n ELSE 0
  BY FS_Interval
<1>3. /\ IsFiniteSet({x} \X (1..n))
      /\ Cardinality({x} \X (1..n)) = Cardinality({x}) * Cardinality(1..n)
  BY <1>1, <1>2, FS_Product
<1> QED
  BY <1>1, <1>2, <1>3

(* Finitely many rows have finitely many units. *)
LEMMA UnitsFinite ==
  ASSUME NEW S, IsFiniteSet(S), NEW f \in [S -> Int]
  PROVE  IsFiniteSet(Units(f))
<1> DEFINE cells == {{x} \X (1..f[x]) : x \in S}
           F     == [x \in S |-> {x} \X (1..f[x])]
<1>1. F \in Surjection(S, cells)
  BY DEF Surjection
<1>2. IsFiniteSet(cells)
  BY <1>1, FS_Surjection
<1>3. \A x \in S : f[x] \in Int
  OBVIOUS
<1>4. \A x \in S : IsFiniteSet({x} \X (1..f[x]))
  BY <1>3, RowUnits
<1>5. \A T \in cells : IsFiniteSet(T)
  BY <1>4
<1> QED
  BY <1>2, <1>5, FS_UNION DEF Units

(* One row more: as many units more as it has. *)
LEMMA UnitsAdd ==
  ASSUME NEW S, IsFiniteSet(S), NEW x, x \notin S,
         NEW f \in [S -> Int], NEW g \in [S \cup {x} -> Int], \A y \in S : f[y] = g[y]
  PROVE  /\ Cardinality(Units(f)) \in Nat
         /\ Cardinality(Units(g)) = Cardinality(Units(f)) + (IF g[x] > 0 THEN g[x] ELSE 0)
<1>1. IsFiniteSet(Units(f))
  BY UnitsFinite
<1>2. Units(g) = Units(f) \cup ({x} \X (1..g[x]))
  BY DEF Units
<1>3. Units(f) \cap ({x} \X (1..g[x])) = {}
  BY DEF Units
<1>4. /\ IsFiniteSet({x} \X (1..g[x]))
      /\ Cardinality({x} \X (1..g[x])) = IF g[x] > 0 THEN g[x] ELSE 0
  BY RowUnits
<1>5. Cardinality(Units(f)) \in Nat
  BY <1>1, FS_CardinalityType
<1>6. Cardinality(Units(g)) =
        Cardinality(Units(f)) + Cardinality({x} \X (1..g[x])) - Cardinality({})
  BY <1>1, <1>2, <1>3, <1>4, FS_Union
<1> QED
  BY <1>4, <1>5, <1>6, FS_EmptySet

(* Where there is nothing to add, the total is zero. *)
LEMMA TotalNothing == ASSUME NEW f, \A x \in DOMAIN f : f[x] = 0 PROVE Total(f) = 0
<1>1. Units(f) = {} /\ Units([x \in DOMAIN f |-> -f[x]]) = {}
  BY DEF Units
<1> QED
  BY <1>1, FS_EmptySet DEF Total

(* A row more adds its amount, whatever its sign. *)
LEMMA TotalAdd ==
  ASSUME NEW S, IsFiniteSet(S), NEW x, x \notin S,
         NEW f \in [S -> Int], NEW g \in [S \cup {x} -> Int], \A y \in S : f[y] = g[y]
  PROVE  Total(f) \in Int /\ Total(g) = Total(f) + g[x]
<1>1. Cardinality(Units(f)) \in Nat
  BY UnitsAdd
<1>2. Cardinality(Units(g)) = Cardinality(Units(f)) + (IF g[x] > 0 THEN g[x] ELSE 0)
  BY UnitsAdd
<1> DEFINE m == [y \in S |-> -f[y]]
           n == [y \in S \cup {x} |-> -g[y]]
<1>3. m \in [S -> Int] /\ n \in [S \cup {x} -> Int] /\ n[x] = -g[x] /\ \A y \in S : m[y] = n[y]
  OBVIOUS
<1>4. /\ Cardinality(Units(m)) \in Nat
      /\ Cardinality(Units(n)) = Cardinality(Units(m)) + (IF n[x] > 0 THEN n[x] ELSE 0)
  BY <1>3, UnitsAdd
<1>5. /\ Total(f) = Cardinality(Units(f)) - Cardinality(Units(m))
      /\ Total(g) = Cardinality(Units(g)) - Cardinality(Units(n))
  BY DEF Total
<1>6. g[x] \in Int
  OBVIOUS
<1> HIDE DEF m, n
<1> QED
  BY <1>1, <1>2, <1>3, <1>4, <1>5, <1>6

(* A row whose amount changes changes the total by as much. *)
LEMMA TotalChange ==
  ASSUME NEW S, IsFiniteSet(S), NEW x \in S,
         NEW f \in [S -> Int], NEW g \in [S -> Int], \A y \in S \ {x} : f[y] = g[y]
  PROVE  Total(f) \in Int /\ Total(g) = Total(f) + g[x] - f[x]
<1> DEFINE R == S \ {x}
           h == [y \in R |-> f[y]]
<1>1. IsFiniteSet(R) /\ x \notin R /\ R \cup {x} = S
  BY FS_RemoveElement
<1>2. h \in [R -> Int] /\ (\A y \in R : h[y] = f[y]) /\ (\A y \in R : h[y] = g[y])
  OBVIOUS
<1> HIDE DEF R, h
<1>3. Total(h) \in Int /\ Total(f) = Total(h) + f[x]
  BY <1>1, <1>2, TotalAdd
<1>4. Total(g) = Total(h) + g[x]
  BY <1>1, <1>2, TotalAdd
<1>5. f[x] \in Int /\ g[x] \in Int
  OBVIOUS
<1> QED
  BY <1>3, <1>4, <1>5

(* The total of finitely many amounts is one. *)
LEMMA TotalType ==
  ASSUME NEW S, IsFiniteSet(S), NEW f \in [S -> Int]
  PROVE  Total(f) \in Int
<1> DEFINE m == [y \in S |-> -f[y]]
<1>1. m \in [S -> Int]
  OBVIOUS
<1>2. Total(f) = Cardinality(Units(f)) - Cardinality(Units(m))
  BY DEF Total
<1> HIDE DEF m
<1>3. IsFiniteSet(Units(f)) /\ IsFiniteSet(Units(m))
  BY <1>1, UnitsFinite
<1> QED  BY <1>2, <1>3, FS_CardinalityType

--------------------------------------------------------------------------------
(***************************************************************************)
(* Conservation.  The four sums of NeverMinted, as functions of the rows   *)
(* they add; each step changes one row of each of the sums it touches, and *)
(* two balances of a transfer.                                             *)
(***************************************************************************)
SpentRows == [p \in Users \X Refs |-> spent[p[1]][p[2]]]

SettledRows ==
  [p \in Users \X Withdrawals |-> IF wd[p[1]][p[2]] = "completed" THEN Reserve ELSE 0]

ClaimRows == [u \in Users |-> IF claim[u] = "posted" THEN Claim ELSE 0]

LEMMA SumsOfRows ==
  /\ Consumed = Total(SpentRows) /\ Withdrawn = Total(SettledRows)
  /\ Claimed = Total(ClaimRows)
BY DEF Consumed, Withdrawn, Claimed, SpentRows, SettledRows, ClaimRows

LEMMA FiniteRows ==
  /\ IsFiniteSet(Users) /\ IsFiniteSet(Users \X Refs) /\ IsFiniteSet(Users \X Withdrawals)
BY SetsAssumption, FS_Product

LEMMA RowTypes ==
  ASSUME TypeOK
  PROVE  /\ posted \in [Users -> Int] /\ SpentRows \in [Users \X Refs -> Int]
         /\ SettledRows \in [Users \X Withdrawals -> Int] /\ ClaimRows \in [Users -> Int]
<1>1. Amounts \cup {0} \subseteq Int /\ Reserve \in Int /\ Claim \in Int
  BY AmountAssumption
<1>2. ASSUME NEW u \in Users, NEW k \in Refs PROVE spent[u][k] \in Int
  <2>1. spent[u] \in [Refs -> Amounts \cup {0}]
    BY DEF TypeOK
  <2>2. spent[u][k] \in Amounts \cup {0}
    BY <2>1
  <2>. QED BY <1>1, <2>2
<1>3. SpentRows \in [Users \X Refs -> Int]
  BY <1>2 DEF SpentRows
<1>4. SettledRows \in [Users \X Withdrawals -> Int] /\ ClaimRows \in [Users -> Int]
  BY <1>1 DEF SettledRows, ClaimRows
<1>. QED BY <1>3, <1>4 DEF TypeOK

LEMMA SumTypes ==
  ASSUME TypeOK
  PROVE  Total(posted) \in Int /\ Consumed \in Int /\ Withdrawn \in Int /\ Claimed \in Int
<1>1. Total(posted) \in Int
  BY RowTypes, FiniteRows, TotalType
<1>2. Total(SpentRows) \in Int
  BY RowTypes, FiniteRows, TotalType
<1>3. Total(SettledRows) \in Int
  BY RowTypes, FiniteRows, TotalType
<1>4. Total(ClaimRows) \in Int
  BY RowTypes, FiniteRows, TotalType
<1>. QED BY <1>1, <1>2, <1>3, <1>4, SumsOfRows

(* One balance changes. *)
LEMMA PostedChange ==
  ASSUME TypeOK, NEW u \in Users, NEW a \in Int, posted' = [posted EXCEPT ![u] = @ + a]
  PROVE  Total(posted') = Total(posted) + a
<1>1. posted \in [Users -> Int] /\ IsFiniteSet(Users)
  BY RowTypes, FiniteRows
<1>2. posted' \in [Users -> Int] /\ (\A v \in Users \ {u} : posted[v] = posted'[v])
  BY <1>1
<1>3. Total(posted') = Total(posted) + posted'[u] - posted[u]
  <2>. DEFINE new == posted'
              old == posted
  <2>1. /\ old \in [Users -> Int] /\ new \in [Users -> Int]
        /\ \A v \in Users \ {u} : old[v] = new[v]
    BY <1>1, <1>2
  <2>. HIDE DEF new, old
  <2>2. Total(new) = Total(old) + new[u] - old[u]
    BY <1>1, <2>1, TotalChange
  <2>. QED BY <2>2 DEF new, old
<1>4. posted'[u] = posted[u] + a /\ posted[u] \in Int
  BY <1>1
<1>5. Total(posted) \in Int
  BY <1>1, TotalType
<1>. QED BY <1>3, <1>4, <1>5

(* A transfer moves, and never mints. *)
LEMMA MovedSame ==
  ASSUME TypeOK, NEW u \in Users, NEW v \in Users, u # v, NEW a \in Int,
         posted' = [posted EXCEPT ![u] = @ - a, ![v] = @ + a]
  PROVE  Total(posted') = Total(posted)
<1>. DEFINE mid == [posted EXCEPT ![u] = @ - a]
<1>1. posted \in [Users -> Int] /\ IsFiniteSet(Users)
  BY RowTypes, FiniteRows
<1>2. mid \in [Users -> Int] /\ (\A w \in Users \ {u} : posted[w] = mid[w])
  BY <1>1
<1>3. posted' \in [Users -> Int] /\ (\A w \in Users \ {v} : mid[w] = posted'[w])
  BY <1>1
<1>4. mid[u] = posted[u] - a /\ posted'[v] = mid[v] + a /\ mid[v] \in Int /\ posted[u] \in Int
  BY <1>1
<1>. HIDE DEF mid
<1>5. Total(mid) = Total(posted) + mid[u] - posted[u]
  BY <1>1, <1>2, TotalChange
<1>6. mid \in [Users -> Int]
  BY <1>2
<1>7. Total(posted') = Total(mid) + posted'[v] - mid[v]
  <2>. DEFINE new == posted'
  <2>1. new \in [Users -> Int] /\ (\A w \in Users \ {v} : mid[w] = new[w])
    BY <1>3
  <2>. HIDE DEF new
  <2>2. Total(new) = Total(mid) + new[v] - mid[v]
    BY <1>1, <1>6, <2>1, TotalChange
  <2>. QED BY <2>2 DEF new
<1>8. Total(posted) \in Int /\ Total(mid) \in Int
  BY <1>1, <1>6, TotalType
<1>. QED BY <1>4, <1>5, <1>7, <1>8

LEMMA SpendConserves ==
  ASSUME IInv, NeverMinted, NEW s \in Sessions, Spend(s)
  PROVE  NeverMinted'
<1>. DEFINE c == sess[s].call
<1>0. PICK u \in Users, k \in Refs, a \in Amounts : u = c.user /\ k = c.ref /\ a = c.amount
  BY Inserting DEF Spend, Commit
<1>1. spent[u][k] = 0
  BY <1>0 DEF Spend, Commit, Relies, IInv
<1>2. /\ spent' = [spent EXCEPT ![u][k] = a]
      /\ posted' = [posted EXCEPT ![u] = @ - a]
      /\ UNCHANGED <<claim, wd>>
  BY <1>0 DEF Spend
<1>3. TypeOK /\ a \in Nat /\ -a \in Int
  BY AmountAssumption DEF IInv
<1>4. SpentRows \in [Users \X Refs -> Int] /\ <<u, k>> \in Users \X Refs
  BY <1>3, RowTypes
<1>5. \A v \in Users, j \in Refs :
        spent'[v][j] = IF v = u /\ j = k THEN a ELSE spent[v][j]
  BY <1>2, <1>3 DEF TypeOK
<1>6. SpentRows' = [SpentRows EXCEPT ![<<u, k>>] = a]
  <2>1. ASSUME NEW p \in Users \X Refs
        PROVE  SpentRows'[p] = [SpentRows EXCEPT ![<<u, k>>] = a][p]
    <3>1. CASE p = <<u, k>>
      BY <1>5, <3>1 DEF SpentRows
    <3>2. CASE p # <<u, k>>
      <4>1. spent'[p[1]][p[2]] = spent[p[1]][p[2]]
        BY <1>5, <3>2
      <4>. QED BY <3>2, <4>1 DEF SpentRows
    <3>. QED BY <3>1, <3>2
  <2>. QED BY <2>1 DEF SpentRows
<1>7. Consumed' = Consumed + a
  <2>1. /\ SpentRows' \in [Users \X Refs -> Int]
        /\ \A p \in (Users \X Refs) \ {<<u, k>>} : SpentRows[p] = SpentRows'[p]
    BY <1>3, <1>4, <1>6
  <2>2. Total(SpentRows') = Total(SpentRows) + SpentRows'[<<u, k>>] - SpentRows[<<u, k>>]
    <3>. DEFINE S == Users \X Refs
                x == <<u, k>>
                f == SpentRows
                g == SpentRows'
    <3>1. /\ IsFiniteSet(S) /\ x \in S /\ f \in [S -> Int] /\ g \in [S -> Int]
          /\ \A p \in S \ {x} : f[p] = g[p]
      BY <1>4, <2>1, FiniteRows
    <3>. HIDE DEF S, x, f, g
    <3>2. Total(g) = Total(f) + g[x] - f[x]
      BY <3>1, TotalChange
    <3>. QED BY <3>2 DEF S, x, f, g
  <2>3. SpentRows'[<<u, k>>] = a /\ SpentRows[<<u, k>>] = 0
    BY <1>1, <1>4, <1>6 DEF SpentRows
  <2>4. Total(SpentRows') = Total(SpentRows) + a
    BY <1>3, <1>4, <2>2, <2>3, FiniteRows, TotalType
  <2>5. Consumed' = Total(SpentRows') /\ Consumed = Total(SpentRows)
    BY DEF Consumed, SpentRows
  <2>. QED BY <2>4, <2>5
<1>8. Total(posted') = Total(posted) - a
  <2>1. posted' = [posted EXCEPT ![u] = @ + (-a)]
    BY <1>2, <1>3 DEF TypeOK
  <2>2. Total(posted') = Total(posted) + (-a)
    BY <1>3, <2>1, PostedChange
  <2>. QED BY <1>3, <2>2, SumTypes
<1>9. Withdrawn' = Withdrawn /\ Claimed' = Claimed
  BY <1>2 DEF Withdrawn, Claimed
<1>10. /\ Total(posted) \in Int /\ Consumed \in Int /\ Withdrawn \in Int /\ Claimed \in Int
       /\ Total(posted) + Consumed + Withdrawn = Claimed
  BY <1>3, SumTypes DEF NeverMinted
<1>. QED BY <1>3, <1>7, <1>8, <1>9, <1>10 DEF NeverMinted

LEMMA SettleConserves ==
  ASSUME IInv, NeverMinted, NEW s \in Sessions, Settle(s)
  PROVE  NeverMinted'
<1>. DEFINE c == sess[s].call
<1>0. PICK u \in Users, w \in Withdrawals : u = c.user /\ w = c.ref
  BY Inserting DEF Settle, Commit
<1>1. wd[u][w] = "open"
  BY <1>0 DEF Settle, Commit, Relies, IInv
<1>2. /\ wd' = [wd EXCEPT ![u][w] = "completed"]
      /\ posted' = [posted EXCEPT ![u] = @ - Reserve]
      /\ UNCHANGED <<claim, spent>>
  BY <1>0 DEF Settle
<1>3. TypeOK /\ Reserve \in Nat /\ -Reserve \in Int
  BY ReserveType DEF IInv
<1>4. SettledRows \in [Users \X Withdrawals -> Int] /\ <<u, w>> \in Users \X Withdrawals
  BY <1>3, RowTypes
<1>5. wd'[u][w] = "completed" /\ \A v \in Users, x \in Withdrawals : v # u \/ x # w => wd'[v][x] = wd[v][x]
  BY <1>2, OneWithdrawal
<1>6. SettledRows' = [SettledRows EXCEPT ![<<u, w>>] = Reserve]
  <2>1. ASSUME NEW p \in Users \X Withdrawals
        PROVE  SettledRows'[p] = [SettledRows EXCEPT ![<<u, w>>] = Reserve][p]
    <3>1. CASE p = <<u, w>>
      BY <1>5, <3>1 DEF SettledRows
    <3>2. CASE p # <<u, w>>
      <4>1. wd'[p[1]][p[2]] = wd[p[1]][p[2]]
        BY <1>5, <3>2
      <4>. QED BY <3>2, <4>1 DEF SettledRows
    <3>. QED BY <3>1, <3>2
  <2>. QED BY <2>1 DEF SettledRows
<1>7. Withdrawn' = Withdrawn + Reserve
  <2>1. /\ SettledRows' \in [Users \X Withdrawals -> Int]
        /\ \A p \in (Users \X Withdrawals) \ {<<u, w>>} : SettledRows[p] = SettledRows'[p]
    BY <1>3, <1>4, <1>6
  <2>2. Total(SettledRows') =
          Total(SettledRows) + SettledRows'[<<u, w>>] - SettledRows[<<u, w>>]
    BY <1>4, <2>1, FiniteRows, TotalChange
  <2>3. SettledRows'[<<u, w>>] = Reserve /\ SettledRows[<<u, w>>] = 0
    BY <1>1, <1>4, <1>6 DEF SettledRows
  <2>4. Total(SettledRows') = Total(SettledRows) + Reserve
    BY <1>3, <1>4, <2>2, <2>3, FiniteRows, TotalType
  <2>5. Withdrawn' = Total(SettledRows') /\ Withdrawn = Total(SettledRows)
    BY DEF Withdrawn, SettledRows
  <2>. QED BY <2>4, <2>5
<1>8. Total(posted') = Total(posted) - Reserve
  <2>1. posted' = [posted EXCEPT ![u] = @ + (-Reserve)]
    BY <1>2, <1>3 DEF TypeOK
  <2>2. Total(posted') = Total(posted) + (-Reserve)
    BY <1>3, <2>1, PostedChange
  <2>. QED BY <1>3, <2>2, SumTypes
<1>9. Consumed' = Consumed /\ Claimed' = Claimed
  BY <1>2 DEF Consumed, Claimed
<1>10. /\ Total(posted) \in Int /\ Consumed \in Int /\ Withdrawn \in Int /\ Claimed \in Int
       /\ Total(posted) + Consumed + Withdrawn = Claimed
  BY <1>3, SumTypes DEF NeverMinted
<1>. QED BY <1>3, <1>7, <1>8, <1>9, <1>10 DEF NeverMinted

LEMMA RedeemConserves ==
  ASSUME IInv, NeverMinted, NEW u \in Users, Redeem(u)
  PROVE  NeverMinted'
<1>1. /\ claim[u] = "pending" /\ claim' = [claim EXCEPT ![u] = "posted"]
      /\ posted' = [posted EXCEPT ![u] = @ + Claim]
      /\ UNCHANGED <<spent, wd>>
  BY DEF Redeem
<1>2. TypeOK /\ Claim \in Nat /\ Claim \in Int
  BY ReserveType DEF IInv
<1>3. ClaimRows \in [Users -> Int]
  BY <1>2, RowTypes
<1>4. ClaimRows' = [ClaimRows EXCEPT ![u] = Claim]
  BY <1>1, <1>2 DEF ClaimRows, TypeOK
<1>5. Claimed' = Claimed + Claim
  <2>1. /\ ClaimRows' \in [Users -> Int]
        /\ \A v \in Users \ {u} : ClaimRows[v] = ClaimRows'[v]
    BY <1>2, <1>3, <1>4
  <2>2. Total(ClaimRows') = Total(ClaimRows) + ClaimRows'[u] - ClaimRows[u]
    BY <1>3, <2>1, FiniteRows, TotalChange
  <2>3. ClaimRows'[u] = Claim /\ ClaimRows[u] = 0
    BY <1>1, <1>3, <1>4 DEF ClaimRows
  <2>4. Total(ClaimRows') = Total(ClaimRows) + Claim
    BY <1>2, <1>3, <2>2, <2>3, FiniteRows, TotalType
  <2>5. Claimed' = Total(ClaimRows') /\ Claimed = Total(ClaimRows)
    BY DEF Claimed, ClaimRows
  <2>. QED BY <2>4, <2>5
<1>6. Total(posted') = Total(posted) + Claim
  BY <1>1, <1>2, PostedChange
<1>7. Consumed' = Consumed /\ Withdrawn' = Withdrawn
  BY <1>1 DEF Consumed, Withdrawn
<1>8. /\ Total(posted) \in Int /\ Consumed \in Int /\ Withdrawn \in Int /\ Claimed \in Int
      /\ Total(posted) + Consumed + Withdrawn = Claimed
  BY <1>2, SumTypes DEF NeverMinted
<1>9. Total(posted') + Consumed' + Withdrawn' = Claimed'
  <2>. HIDE DEF NeverMinted
  <2>. QED BY <1>2, <1>5, <1>6, <1>7, <1>8
<1>. QED BY <1>9 DEF NeverMinted

LEMMA TransferConserves ==
  ASSUME IInv, NeverMinted, NEW s \in Sessions, Send(s) \/ Accept(s) \/ Give(s)
  PROVE  NeverMinted'
<1>. DEFINE c == sess[s].call
<1>0. PICK u \in Users, v \in Users, a \in Nat : u = c.user /\ v = c.to /\ a = c.amount /\ u # v
  BY Inserting, CallType DEF Send, Accept, Give, Commit
<1>1. /\ posted' = [posted EXCEPT ![u] = @ - a, ![v] = @ + a]
      /\ UNCHANGED <<claim, spent, wd>>
  BY <1>0 DEF Send, Accept, Give, Transfer, Moved
<1>2. Total(posted') = Total(posted)
  <2>1. TypeOK /\ a \in Int
    BY DEF IInv
  <2>. QED BY <1>0, <1>1, <2>1, MovedSame
<1>. QED BY <1>1, <1>2 DEF NeverMinted, Consumed, Withdrawn, Claimed

(* A withdrawal asked for or rejected is no settled one. *)
LEMMA AnsweredConserves ==
  ASSUME IInv, NeverMinted, NEW u \in Users, NEW w \in Withdrawals, NEW a \in {"open", "rejected"},
         wd[u][w] \in {"none", "open"}, wd' = [wd EXCEPT ![u][w] = a],
         UNCHANGED <<claim, posted, spent>>
  PROVE  NeverMinted'
<1>1. wd'[u][w] = a /\ \A v \in Users, x \in Withdrawals : v # u \/ x # w => wd'[v][x] = wd[v][x]
  BY OneWithdrawal
<1>2. \A v \in Users, x \in Withdrawals : wd'[v][x] = "completed" <=> wd[v][x] = "completed"
  BY <1>1
<1>3. Withdrawn' = Withdrawn
  <2>1. SettledRows' = SettledRows
    BY <1>2 DEF SettledRows
  <2>2. Withdrawn' = Total(SettledRows') /\ Withdrawn = Total(SettledRows)
    BY DEF Withdrawn, SettledRows
  <2>. QED BY <2>1, <2>2
<1>4. Consumed' = Consumed /\ Claimed' = Claimed
  BY DEF Consumed, Claimed
<1>. QED BY <1>3, <1>4 DEF NeverMinted

LEMMA NextConserves == IInv /\ NeverMinted /\ [Next]_vars => NeverMinted'
<1>. SUFFICES ASSUME IInv, NeverMinted, [Next]_vars PROVE NeverMinted'
  OBVIOUS
<1>1. ASSUME UNCHANGED <<claim, posted, spent, wd>> PROVE NeverMinted'
  BY <1>1 DEF NeverMinted, Consumed, Withdrawn, Claimed
<1>2. ASSUME NEW s \in Sessions, Withdraw(s) PROVE NeverMinted'
  <2>. DEFINE c == sess[s].call
  <2>0. PICK u \in Users, w \in Withdrawals : u = c.user /\ w = c.ref
    BY <1>2, Inserting DEF Withdraw, Commit
  <2>1. wd[u][w] = "none" /\ wd' = [wd EXCEPT ![u][w] = "open"] /\ UNCHANGED <<claim, posted, spent>>
    BY <1>2, <2>0 DEF Withdraw, Commit, Relies, IInv
  <2>. QED BY <2>1, AnsweredConserves
<1>3. ASSUME NEW u \in Users, NEW w \in Withdrawals, Reject(u, w) PROVE NeverMinted'
  <2>1. /\ wd[u][w] = "open" /\ wd' = [wd EXCEPT ![u][w] = "rejected"]
        /\ UNCHANGED <<claim, posted, spent>>
    BY <1>3 DEF Reject
  <2>. QED BY <2>1, AnsweredConserves
<1>4. ASSUME NEW u \in Users, DailyClaim(u) PROVE NeverMinted'
  <2>1. claim[u] = "none" /\ claim' = [claim EXCEPT ![u] = "pending"] /\ UNCHANGED <<posted, spent, wd>>
    BY <1>4 DEF DailyClaim
  <2>2. ClaimRows' = ClaimRows
    BY <2>1 DEF ClaimRows, IInv, TypeOK
  <2>3. Claimed' = Total(ClaimRows') /\ Claimed = Total(ClaimRows)
    BY DEF Claimed, ClaimRows
  <2>4. Claimed' = Claimed
    BY <2>2, <2>3
  <2>. QED BY <2>1, <2>4 DEF NeverMinted, Consumed, Withdrawn
<1>5. ASSUME NEW s \in Sessions, Insert(s) PROVE NeverMinted'
  <2>1. CASE MarkAccepted(s)
    BY <1>1, <2>1 DEF MarkAccepted
  <2>. QED
    BY <1>2, <1>5, <2>1, SpendConserves, SettleConserves, TransferConserves DEF Insert
<1>6. \/ UNCHANGED <<claim, posted, spent, wd>>
      \/ \E s \in Sessions : Insert(s)
      \/ \E u \in Users : DailyClaim(u) \/ Redeem(u) \/ \E w \in Withdrawals : Reject(u, w)
  BY DEF Next, Begin, Acquire, Closed, Decide, Abort, Unlocked, CreateAsk, CloseAsk, vars
<1>. QED BY <1>1, <1>3, <1>4, <1>5, <1>6, RedeemConserves

LEMMA InitConserves == Init => NeverMinted
<1>. SUFFICES ASSUME Init PROVE NeverMinted
  OBVIOUS
<1>1. Total(posted) = 0
  <2>1. \A u \in DOMAIN posted : posted[u] = 0
    BY DEF Init
  <2>. QED BY <2>1, TotalNothing
<1>2. Total(SpentRows) = 0
  <2>1. \A p \in DOMAIN SpentRows : SpentRows[p] = 0
    BY DEF Init, SpentRows
  <2>. QED BY <2>1, TotalNothing
<1>3. Total(SettledRows) = 0
  <2>1. \A p \in DOMAIN SettledRows : SettledRows[p] = 0
    BY DEF Init, SettledRows
  <2>. QED BY <2>1, TotalNothing
<1>4. Total(ClaimRows) = 0
  <2>1. \A u \in DOMAIN ClaimRows : ClaimRows[u] = 0
    BY DEF Init, ClaimRows
  <2>. QED BY <2>1, TotalNothing
<1>. QED BY <1>1, <1>2, <1>3, <1>4, SumsOfRows DEF NeverMinted

(***************************************************************************)
(* Whatever interleaves, is refused or rolled back, the balances, what was *)
(* spent and what was withdrawn add up to the redeemed claims: transfers   *)
(* and curation move GHC and never mint or lose any.                       *)
(***************************************************************************)
THEOREM NothingMinted == Spec => []NeverMinted
  BY InitInv, NextInv, InitConserves, NextConserves, PTL DEF Spec

================================================================================
