------------------------------ MODULE Membership -------------------------------
(***************************************************************************)
(* One user's membership: the entitlement row, its event journal, and the  *)
(* routes that read and write it.  A term is paid with Pi (an intent that  *)
(* PaymentIntent completes) and renewed by a function that holds the intent*)
(* and an advisory lock of the user, or bought with GHC by a function that *)
(* debits and overwrites.  Routes read, call a function and read again to  *)
(* confirm, and may stop anywhere.  Time is counted in terms of a month;   *)
(* amounts and products have been checked before (PaymentIntent), and the  *)
(* balance is the ledger's (GhcLedger): a purchase may be refused.         *)
(***************************************************************************)
EXTENDS Integers, Sequences, FiniteSets, Totals

CONSTANTS
  Intents,      \* Pi payment intents for a membership
  Refs,         \* references of GHC purchases, one per attempt of the client
  Handlers,     \* invocations of the routes
  Tier, Term,   \* of each intent and each reference; a term has its bonus month
  Grace,        \* a renewal so long after expiry continues the term (72 hours)
  MaxTime,      \* bound: the clock stops
  None

ASSUME TermAssumption ==
  /\ \A x \in Intents \cup Refs : Tier[x] \in {"vip", "vvip"}
  /\ \A x \in Intents \cup Refs : Term[x] \in Nat \ {0}
  /\ Intents \cap Refs = {} /\ None \notin Intents \cup Refs
  /\ Grace \in Nat /\ MaxTime \in Nat

VARIABLES
  now,
  row,          \* the user's row of ghc_membership_entitlements
  journal,      \* the intents named in ghc_membership_entitlement_events
  completed,    \* completed intents, the latest last
  fulfilled,    \* those that are FULFILLED
  debits,       \* references with a posted debit
  terms,        \* how many terms each intent has been granted (history)
  sess          \* the routes' invocations

vars == <<now, row, journal, completed, fulfilled, debits, terms, sess>>

NoRow == [tier |-> "none", until |-> 0, intent |-> None, ref |-> None]
Idle  == [at |-> "idle", op |-> "none", id |-> None, time |-> 0, ans |-> "none"]

Init ==
  /\ now = 0
  /\ row = NoRow
  /\ journal = {}
  /\ completed = <<>>
  /\ fulfilled = {}
  /\ debits = {}
  /\ terms = [i \in Intents |-> 0]
  /\ sess = [h \in Handlers |-> Idle]

(* The tier a read of the row gives: free when there is none or it expired. *)
Shown == IF row.tier \in {"vip", "vvip"} /\ row.until > now THEN row.tier ELSE "free"

IsCompleted(i) == \E n \in 1..Len(completed) : completed[n] = i

Go(h, at) == sess' = [sess EXCEPT ![h].at = at]

(* The invocation ends; no property tells its answer from another, but one. *)
Say(h, ans) == sess' = [sess EXCEPT ![h] = [Idle EXCEPT !.ans = ans]]

Start(h, at, op, id) ==
  /\ sess[h].at = "idle"
  /\ sess' = [sess EXCEPT ![h] = [Idle EXCEPT !.at = at, !.op = op, !.id = id]]

--------------------------------------------------------------------------------
(* Routes that begin. *)

Complete(i) ==
  /\ ~ IsCompleted(i)
  /\ completed' = Append(completed, i)
  /\ UNCHANGED <<now, row, journal, fulfilled, debits, terms, sess>>

(* complete, recover and activate grant what is completed already. *)
Grant(h, i) ==
  /\ IsCompleted(i)
  /\ Start(h, "renew", "grant", i)
  /\ UNCHANGED <<now, row, journal, completed, fulfilled, debits, terms>>

(* Variant: an intent that is marked is answered at once. *)
FulfillOnce(h, i) ==
  /\ IsCompleted(i)
  /\ i \notin fulfilled
  /\ fulfilled' = fulfilled \cup {i}
  /\ Start(h, "renew", "grant", i)
  /\ UNCHANGED <<now, row, journal, completed, debits, terms>>

(* fulfill marks the intent first; one that is marked is granted all the same. *)
Fulfill(h, i) ==
  /\ IsCompleted(i)
  /\ fulfilled' = fulfilled \cup {i}
  /\ Start(h, "renew", "grant", i)
  /\ UNCHANGED <<now, row, journal, completed, debits, terms>>

(* activate with Pi: an active member of the tier is answered at once. *)
Activate(h, i) ==
  /\ IsCompleted(i)
  /\ Shown # Tier[i]
  /\ Start(h, "renew", "grant", i)
  /\ UNCHANGED <<now, row, journal, completed, fulfilled, debits, terms>>

(* activate with GHC computes the expiry before it calls the purchase. *)
Buy(h, k) ==
  /\ Shown # Tier[k]
  /\ sess[h].at = "idle"
  /\ sess' = [sess EXCEPT ![h] = [Idle EXCEPT !.at = "buy", !.id = k, !.time = now]]
  /\ UNCHANGED <<now, row, journal, completed, fulfilled, debits, terms>>

(* status (and reconcile): a member is shown as such, for others see List. *)
Status(h) ==
  /\ IF Shown # "free"
     THEN sess[h].at = "idle" /\ Say(h, "none")
     ELSE Start(h, "list", IF row = NoRow THEN "status" ELSE "expired", None)
  /\ UNCHANGED <<now, row, journal, completed, fulfilled, debits, terms>>

(* The latest completed intent is tried, and no other. *)
List(h) ==
  /\ sess[h].at = "list"
  /\ IF completed = <<>>
     THEN Say(h, "none")
     ELSE sess' = [sess EXCEPT ![h].at = "renew", ![h].id = completed[Len(completed)]]
  /\ UNCHANGED <<now, row, journal, completed, fulfilled, debits, terms>>

--------------------------------------------------------------------------------
(* ghc_membership_renew_from_verified_intent *)

(* A term begins where the last one ends, if it has not ended for long. *)
Begins(e) ==
  IF e.tier \in {"vip", "vvip"} /\ e.until >= now - Grace THEN e.until ELSE now

Renewed(i, e) ==
  [tier |-> Tier[i], until |-> Begins(e) + Term[i], intent |-> i, ref |-> i]

(* The trigger on the row writes the event, in the same transaction. *)
Journal(e) == journal' = journal \cup ({e.intent} \ {None})

Put(i, e) ==
  /\ row' = Renewed(i, e)
  /\ Journal(row')
  /\ terms' = [terms EXCEPT ![i] = @ + 1]

(* Variant: only the intent of the last renewal is known for a duplicate. *)
DuplicateOfLast(i) == row.intent = i

Duplicate(i) == i \in journal \/ row.intent = i

(* Variant: the renewals of two intents do not wait for each other. *)
LockedByIntentOnly == TRUE

(* No other renewal has the locks of the user and of the intent. *)
Unlocked == \A h \in Handlers : sess[h].at # "insert"

(***************************************************************************)
(* The row is locked when there is one.  When there is none, there is      *)
(* nothing to lock, and a purchase may insert it before the renewal does.  *)
(***************************************************************************)
Renew(h) ==
  LET i == sess[h].id
  IN  /\ sess[h].at = "renew"
      /\ Unlocked
      /\ \/ /\ Duplicate(i)
            /\ Go(h, "confirm")
            /\ UNCHANGED <<row, journal, terms>>
         \/ /\ ~ Duplicate(i) /\ row # NoRow
            /\ Put(i, row)
            /\ Go(h, "confirm")
         \/ /\ ~ Duplicate(i) /\ row = NoRow
            /\ Go(h, "insert")
            /\ UNCHANGED <<row, journal, terms>>
      /\ UNCHANGED <<now, completed, fulfilled, debits>>

(* What was computed for no row is written over the one that is there now. *)
Insert(h) ==
  /\ sess[h].at = "insert"
  /\ Put(sess[h].id, NoRow)
  /\ Go(h, "confirm")
  /\ UNCHANGED <<now, completed, fulfilled, debits>>

(***************************************************************************)
(* Granted is what the row says of this very intent.  A route that grants  *)
(* answers "retry recovery" when it is not; status has nothing to answer.  *)
(***************************************************************************)
Confirm(h) ==
  LET i == sess[h].id
      confirmed == Shown = Tier[i] /\ row.intent = i
  IN  /\ sess[h].at = "confirm"
      /\ Say(h, IF sess[h].op # "grant" /\ ~ confirmed THEN "unavailable" ELSE "none")
      /\ UNCHANGED <<now, row, journal, completed, fulfilled, debits, terms>>

--------------------------------------------------------------------------------
(* ghc_purchase_membership: the debit and the row, which keeps its intent. *)
Bought(k, until) ==
  [tier |-> Tier[k], until |-> until, intent |-> row.intent, ref |-> k]

(* Variant: what the row has left is added to what is bought, at every call. *)
PurchaseOnTop(h) ==
  LET k == sess[h].id
  IN  /\ sess[h].at = "buy"
      /\ debits' = debits \cup {k}
      /\ row' = Bought(k, (IF row.until > now THEN row.until ELSE now) + Term[k])
      /\ Journal(row')
      /\ Say(h, "none")
      /\ UNCHANGED <<now, completed, fulfilled, terms>>

Purchase(h) ==
  LET k == sess[h].id
  IN  /\ sess[h].at = "buy"
      /\ \/ /\ row.ref = k
            /\ Say(h, "none")
            /\ UNCHANGED <<row, journal, debits>>
         \/ /\ Say(h, "none")
            /\ UNCHANGED <<row, journal, debits>>
         \/ /\ row.ref # k /\ k \notin debits
            /\ debits' = debits \cup {k}
            /\ row' = Bought(k, sess[h].time + Term[k])
            /\ Journal(row')
            /\ Say(h, "none")
      /\ UNCHANGED <<now, completed, fulfilled, terms>>

(***************************************************************************)
(* The operator completes a debit whose entitlement "was never written":   *)
(* any debit that is not the row's own, with a row of the operator's.      *)
(***************************************************************************)
CompleteOrphan(k) ==
  /\ k \in debits /\ row.ref # k
  /\ row' = Bought(k, now + Term[k])
  /\ Journal(row')
  /\ UNCHANGED <<now, completed, fulfilled, debits, terms, sess>>

(* The expiry sweep; the row keeps its intent, reference and date. *)
ExpireDue ==
  /\ row.tier \in {"vip", "vvip"} /\ row.until <= now
  /\ row' = [row EXCEPT !.tier = "free"]
  /\ Journal(row')
  /\ UNCHANGED <<now, completed, fulfilled, debits, terms, sess>>

--------------------------------------------------------------------------------
(* A call fails or is not answered, or the process stops; a transaction ends. *)
Stop(h) ==
  /\ sess[h].at # "idle"
  /\ sess' = [sess EXCEPT ![h] = Idle]
  /\ UNCHANGED <<now, row, journal, completed, fulfilled, debits, terms>>

Tick ==
  /\ now < MaxTime
  /\ now' = now + 1
  /\ UNCHANGED <<row, journal, completed, fulfilled, debits, terms, sess>>

Next ==
  \/ \E i \in Intents : Complete(i)
  \/ \E h \in Handlers :
       \/ \E i \in Intents : Grant(h, i) \/ Fulfill(h, i) \/ Activate(h, i)
       \/ \E k \in Refs : Buy(h, k)
       \/ Status(h) \/ List(h) \/ Renew(h) \/ Insert(h) \/ Confirm(h) \/ Purchase(h)
       \/ Stop(h)
  \/ \E k \in Refs : CompleteOrphan(k)
  \/ ExpireDue
  \/ Tick

Spec == Init /\ [][Next]_vars

(***************************************************************************)
(* Fairness.  Invocations end, and the client, told to "retry recovery; do *)
(* not pay again", repeats fulfill until a renewal gets through: it may    *)
(* fail any number of times but not always.                                *)
(***************************************************************************)
Fairness ==
  /\ \A h \in Handlers : WF_vars(Stop(h))
  /\ \A i \in Intents :
       /\ SF_vars(\E h \in Handlers : Fulfill(h, i))
       /\ SF_vars(\E h \in Handlers : sess[h].id = i /\ Renew(h))
       /\ SF_vars(\E h \in Handlers : sess[h].id = i /\ Insert(h))

FairSpec == Spec /\ Fairness

--------------------------------------------------------------------------------
(* Every variable has its type. *)
TypeOK ==
  /\ now \in 0..MaxTime
  /\ row \in [tier : {"none", "free", "vip", "vvip"}, until : Nat,
              intent : Intents \cup {None}, ref : Intents \cup Refs \cup {None}]
  /\ journal \subseteq Intents
  /\ completed \in Seq(Intents)
  /\ fulfilled \subseteq Intents
  /\ debits \subseteq Refs
  /\ terms \in [Intents -> Nat]
  /\ sess \in [Handlers ->
       [at : {"idle", "renew", "list", "insert", "confirm", "buy"},
        op : {"none", "grant", "status", "expired"},
        id : Intents \cup Refs \cup {None}, time : Nat, ans : {"none", "unavailable"}]]

(***************************************************************************)
(* However many routes grant an intent, and whatever is bought, renewed or *)
(* expires in between, its term is granted once.                           *)
(***************************************************************************)
OneTermPerIntent == \A i \in Intents : terms[i] <= 1

(***************************************************************************)
(* A membership never lasts longer than all that was paid for together:    *)
(* terms may be lost, but none is made up.                                 *)
(***************************************************************************)
Paid == {i \in Intents : IsCompleted(i)} \cup debits

TermsArePaidFor ==
  row.until <= now + Total([x \in Paid |-> Term[x]])

(***************************************************************************)
(* Payments granted by routes that run at the same time all count: as long *)
(* as nothing was bought with GHC, the membership lasts at least all the   *)
(* terms it was granted, one after the other.                              *)
(***************************************************************************)
Granted == {i \in Intents : terms[i] > 0}

GrantedTermsAddUp ==
  debits = {} =>
    row.until >= Total([i \in Granted |-> Term[i]])

(***************************************************************************)
(* A completed payment is granted its term in the end, although the route  *)
(* that marks it fulfilled may stop before it grants.                      *)
(***************************************************************************)
CompletedIsGranted ==
  \A i \in Intents : IsCompleted(i) ~> terms[i] >= 1

(***************************************************************************)
(* "Expired or inactive paid records normalize to Free for entitlement     *)
(* presentation": status does not refuse to answer of a membership that    *)
(* had expired when it was asked.                                          *)
(***************************************************************************)
StatusAnswers ==
  [][\A h \in Handlers :
       sess[h].ans = "none" /\ sess'[h].ans = "unavailable" => sess[h].op # "expired"]_vars
================================================================================
