# GH CONNECT: verification of the money paths

GH CONNECT keeps money in a PostgreSQL database (functions in `supabase/migrations/`), moves it through
route handlers of a Next.js server (`app/api/`, helpers in `lib/server/`), and exchanges it with Pi, an
external payment network. A database function is one transaction; a route is a sequence of transactions and
network calls with nothing around it, on a server that may stop between any two. What is hard here lies in
those sequences: two of them interleave, an answer is lost after its call took effect, a lease runs out, a
row that was read is written back later. Unit tests drive one call at a time. These TLA+ modules state what
must hold of all of them together; TLC checks it on small instances, and TLAPS proves most of the safety part
for every number of users, requests, executions, payments, intents, orders, sessions and handlers.

Contents: [the system](#the-system) · [plan](#plan) · [modules](#modules) · [runs](#runs) ·
[bounds](#bounds) · [fairness](#fairness) · [proofs](#proofs) · [disagreements](#disagreements) ·
[not modelled](#not-modelled)

Paths below are relative to the repository root; migrations are named by their timestamps.

## The system

| component | state it keeps | operations | interacts with | what is hard | what makes it correct |
|---|---|---|---|---|---|
| **PI earnings ledger** (20261105170001, 20261029010006, 20261029010010, `lib/server/earnings`) | `gh_earnings_ledger_entries`: append-only rows, unique per user and reference | credit, reserve, settle, release | called by payouts, tips, proceeds | concurrent transactions that read, then insert; retries under a used reference | never overspent, never over-settled, an `ok` is recorded, only new rows move balances |
| **PI earnings payout** (20261030010002/6/7, 20261107130001, `app/api/economy/earnings/withdrawals/*`) | `gh_pi_earnings_payout_requests`; `gh_pi_a2u_execution_lane` (one row: who uses the app wallet) | create, cancel, begin, heartbeat, bind, settle, release, end; Pi create/submit/complete | ledger, Pi, the other payout domains through the lane | two leases of different length; crash, lost answer or time-out at every call; takeover while the old execution still runs | ledger agrees with Pi, one transfer per request, one user of the wallet, each started payout finishes |
| **Pi user-to-app payment intents** (20261022010095, `app/api/payments/*`) | `ghc_payment_intents`: status, bound payment | create, approve, complete, incomplete, recover, cancel, fulfill; `bind`, `transition` | Pi, the client, the benefits they pay for | callbacks late, repeated, reordered; two payments for one intent; status read before a Pi call and used after it | completed means paid, one payable payment per intent, outcomes are final, a paid payment gets recorded |
| **Marketplace orders and reservations** (20261022010079/81, 20261101160002, 20261030010015, `app/api/marketplace/orders/*`) | `gh_marketplace_orders` with reservation and payment claim; listing availability | create, sweep, claim, release, save, transition, commerce actions, dispute, refund, forced release | intents, GHC ledger (spend), stock trigger | whole-row save of a row read before the claim; expiry against payment; claims whose handler died | stock conserved, a claimed order is nobody else's, a paid order keeps its stock, a cancelled one was not paid unless the operator released its claim |
| **Seller and cashback A2U payouts** (20261022010111/113, 20261030010011/14/15, 20261029010004, `app/api/payments/a2u/*`) | allocations of orders to requests, adjustments, executions, evidence; review queue | request, adjust, refund, operate, create, complete, reconcile | orders, the same lane, Pi | as the earnings payout, with a lease nothing renews; refunds against reserved proceeds; evidence recorded without the lease | proceeds paid once and not beyond what adjustments left; allocations, requests, executions and Pi agree |
| **GHC economy ledger** (20261022010006/10/40/57/58/76/112, `lib/server/economy`) | `ghc_transactions` of the in-app currency, withdrawal and transfer requests | daily claim, spend, transfer, accept a request, withdraw, settle, reject | almost everything spends through it | three functions read one balance before either inserts; two balance locks at once; a settlement against its own reservation | reservations stay covered, each operation takes effect once, limits hold, no deadlock |
| **Membership** (20261022010078/82, 20261030010012, 20261106143001, `lib/server/membership`, `app/api/membership/*`) | entitlement row, event journal | grant, activate, fulfil, buy with GHC, status, orphan completion, expiry sweep | GHC ledger, intents | a payment granted by several routes at once; a row that is not there cannot be locked; a stop between mark and grant | one term per payment, no term made up, a completed payment is granted |
| **Bank payouts through Paystack** (20261022010115, `lib/server/payouts`, `app/api/payouts/*`) | obligations, beneficiaries, requests, webhook events, daily totals | record, register, request, approve, cancel, execute, webhook, reconcile, resolve | seller proceeds, Paystack | reports late, repeated, reordered, or after the obligation went to another request | one transfer per obligation, statuses that were true, the truth in the end |
| Tips and creator rewards (20261022010111/112, `lib/server/creator`) | tips, settlements | settle, reconcile | GHC ledger, earnings | partial failure between two ledgers | each tip settled once |
| PI cashback periods (20261029010001/3, 20261029010013) | attributions, periods | attribute, close, reconcile | orders, earnings | late attribution against closing | every attribution in one period |
| Curation (20261022120004), referral, reputation (`lib/server/ghpv`, `curation`, `referral`) | scores, shares | score, redistribute | GHC ledger | another lock than the ledger's | the author gets what the voter had to give |
| Sessions, step-up, passkeys, PIN (`lib/server/identity`) | sessions, challenges | log in, confirm | every route | replay, expiry | one use per challenge |
| Messaging, notifications | rows | insert, read | none | little | delivery |
| Media uploads (20261027010001) | upload sessions | begin, finish | storage service | little | immutable identity |
| Rate limits, control plane (`lib/server/security`) | counters, switches | count, refuse | every route | resets | bounded rates |
| Client application | browser state | starts payments | routes, Pi SDK | callbacks | shows what the server says |

Components in bold are modelled: the earnings ledger, its payout, membership and bank payouts completely, the
others but for what [not modelled](#not-modelled) lists. Of the fifth the Pi payout of a seller is modelled, the
cashback only as another user of the lane, and of curation only the redistribution, as an operation of the GHC ledger. They interact like this:

```
  buyer/client --> payment intents <--callbacks--> Pi <--- app wallet (one sequence) ---+
                        |                                                               |
                        v (completed intent)                                            |
  marketplace order: claim -> spend/attach -> save -> verify -> confirm         lane (lease)
        |  stock trigger                                                          ^        ^
        v                                                                         |        |
     listing            earnings ledger <--reserve/settle/release-- earnings payout   seller payout, cashback

  completed order --proceeds less adjustments--> seller payout (request, operator, execution)

  order / membership with GHC --spend--> GHC ledger <-- transfers, withdrawals, claims, curation
  completed intent --> membership        seller proceeds --> bank payouts <-- webhooks, polls -- Paystack
```

The models are joined where the code is: `PayoutExecution` decides by the rules of `EarningsAccount`, and the
orders and the membership take of an intent what `PaymentIntent` guarantees (completed means paid, and stays so)
and of a GHC spend what `GhcPromise` does (it takes effect once or is refused).

## Plan

Done, in this order, the most money at risk first:

1. `LedgerPromise`, `EarningsAccount`, `EarningsLedger`: what the ledger promises, its decisions, and the transactions that take them.
2. `PayoutPromise`, `PayoutExecution`, `PayoutRecovery`: the payout on top of the ledger, what it promises, and
   that it finishes.
3. `PurchasePromise`, `PaymentIntent`, `PaymentRecovery`: payments by users, what they promise, and that they end.
4. `OrderPromise`, `MarketplaceOrder`, `OrderRecovery`: what such payments, and spends of GHC, buy, and what orders promise.
5. Safety proofs of all four, in the modules named `..._proofs`.
6. `GhcPromise`, `GhcLedger`: the other ledger, its locks, and what it promises; proofs.
7. `Membership`: what a completed intent or a spend of GHC grants; proofs.
8. `BankPromise`, `BankPayout`: payouts whose provider reports by webhook, and what they promise; proofs.
9. The part of a payout's safety that depends on its leases, proved in `PayoutExecution_proofs`.
10. `SellerPromise`, `SellerPayout`: the Pi payout of a seller, with the orders that fund it, and what it promises; proofs.

What would come next, in this order:

1. The cashback domain with its execution record, and an abstract lane (holder, fenced by token) that all three
   domains implement.
2. `Fulfilment`: the benefits other than membership after `FULFILLED` (GHC packs, listing fees), composing
   `PaymentIntent` with the idempotent grants.
3. `SellerProceeds`: proceeds and commission, which feed `SellerPayout` and the obligations of `BankPayout`.
4. The rows of tips and creator rewards, cashback periods; redistribution as pure operators against a
   reference definition.

## Modules

### LedgerPromise, EarningsAccount, EarningsLedger

`LedgerPromise` is the abstract specification of the ledger: one transaction after the other, with nothing in between.
A transaction earns, holds, pays out or gives back, each only as far as the sums allow in that very step, or finds
its row recorded already; and nobody is told `ok` of something not recorded (`heard`).

`EarningsAccount` is one user's ledger as a value: rows under their references, the three sums that
`gh_earnings_balances`, settle and release compute, and the decision the four functions share
(`Answer`: duplicate, conflict, refused, or insert). `EarningsLedger` runs them as database sessions. The
functions read, decide and then insert, and only an advisory lock per user keeps two of them apart, so `Ask`
(lock, read, decide) and `Insert` (insert, commit) are separate steps with `Abort` between them. `PromiseKept`
says that what they do together is what `LedgerPromise` does. `NothingOverdrawn` is said
of the sums over the rows (`Balance`, `HeldFor`), which is what `gh_earnings_balances` computes.

| action | code |
|---|---|
| `Ask` | `gh_earnings_post_credit`, `_reserve`, `_settle`, `_release_reserve` up to the insert (20261105170001) |
| `Insert`, `Abort` | the insert with its unique violation; a lost connection |

### PayoutPromise, PayoutExecution, PayoutRecovery

`PayoutPromise` is the abstract specification of a payout: the gross amount is held, Pi transfers it, then the hold is
settled; or the hold is released, and then only if nothing was transferred; never both.

`PayoutExecution` is the real thing: `acct` (an `EarningsAccount` of one user), `req` (the requests with status,
bound payment, lease token and whether it is live), `lane` (holder, request, live), `exec` (invocations of the
execute route, with the next call as program counter) and `pi` (payments at Pi). It uses the ledger through
`Ledger == INSTANCE EarningsAccount`, so every reservation, settlement and release is decided by the
ledger's own rules.

| action | code |
|---|---|
| `CreateRequest`, `CancelUnstarted`, `MarkUncertain` | the create and cancel functions (20261030010002, 20261107130001) |
| `Begin`, `Heartbeat`, `End` | `..._begin_execution`, `_heartbeat`, `_end_execution` (20261030010007) |
| `Find`, `Create`, `Read`, `Submit`, `Complete`, `Receipt` | the Pi calls of `app/api/economy/earnings/withdrawals/execute/route.ts` |
| `Bind`, `Settle`, `Release` (and the `...Again` replays) | `_bind_payment` (20261030010007), `_settle_verified`, `_release_verified_failure` (20261030010006) |
| `Fail`, `Crash`, answers with `answered = FALSE` | a call that throws; the process stops; the call lands and its answer is lost |
| `LapseRequest`, `LapseLane` | the two leases run out, separately |
| `Foreign...` | seller and cashback payouts on the same lane |
| `PiVerify`, `PiCancel`, `PiForget` | Pi (external) |

Decisions worth knowing:

- Settle and release look at no lease (as in the code), and a release is not preceded by a heartbeat.
- `Begin` with a lost answer returns before the route's `try` block, so nobody ends that execution: only the
  leases free the request and the lane.
- Bind extends the lane's lease and not the request's.
- A token is a fresh uuid per execution: an execution slot is reused only when no live lease carries it.
- Payments are created with an idempotency key per request, so creating again returns the same open payment.
- A submit of an open payment is counted as a transfer each time (`sent`), which is more than Pi would do.
- Pi is assumed not to accept a submit for a cancelled payment, and to show a transaction once it is made.
- `Overruns` says whether an execution may outlive its leases inside a call. The code's heartbeat runs every
  45 s against leases of 10 minutes and aborts on a loss, so it takes a stalled process. The books must not depend
  on it, and are checked and proved with it.

`PayoutRecovery` adds the variable `overran`, which remembers whether that ever happened. Two things depend
on it: that the app wallet has one user (`OneWalletUserUnlessOverrun`) and that the recipient is paid
once (`OneTransferUnlessOverrun`). It also says which steps are disturbances, and that every payout finishes when
they cease. `FundsAddUp` looks at the books as a whole: what is held, and what was paid out of the earnings, are the gross
amounts of the requests that are in the respective phase of `PayoutPromise`.

### PurchasePromise, PaymentIntent, PaymentRecovery

`PurchasePromise` is the abstract specification: a payment is bound to one purchase for good before Pi is told to approve it;
then it is signed, then completed; only then, and only if it has the amount, the purchase is paid, and only then served. What
is paid or closed stays so. `PromiseKept` says that the six routes together do that (it implies `OutcomesAreFinal`, which is
proved as well).

`intent` (status and bound payment of each row), `granted`, `hand` (route invocations) and `pi`. A handler is a
sequence of calls: `bind` and `transition` lock one row (20261022010095) and carry the transition policy
(`AllowedFrom`), the Pi calls land, fail, or land unheard. All six routes are there: `Approve`, `Complete`,
`Incomplete` (and `IncompleteUnknown`, which makes a shell intent for a payment nobody knows), `Recover`,
`Cancel`, `Fulfill`. `User` makes intents and payments at Pi, pays and cancels. The rows are the intents and
one possible shell per payment; the shell is named by the payment, as its idempotency key
`incomplete:<payment>` does. Once bound, an open row of either kind is like the other to the routes.

- The routes take an intent's identifier, a payment's and a transaction's from the client and compare none of them with
  what Pi knows the payment to be for. So every row that is there may be named with every payment, also one
  that Pi does not know yet, and a transaction may be one that only the client knows of (`txid` in `Resume`; `Complete` has no
  guard on it).
- What Pi tells the routes apart is the amount: `fits` is the set of rows whose amount a payment has. It is compared after a lookup,
  by `VerifyAmount`, `Reconcile` and `Resume`, and not by the re-approval of a row that is under way. The complete
  route binds the payment and moves the row to COMPLETION_PENDING before its lookup, whether the payment has the amount or
  not; if the lookup fails the row stays so, and approve then approves that payment. `ApprovedIsRecognised` says
  what is left: such a payment is bound to that row alone, and is never taken for the row's price (`CompletedMeansPaid`).
- A tip whose transaction Pi has not verified is given up by complete after the amount is compared.
- A new payment has an identifier nobody has used yet (`Fresh`), and a client that starts a payment asks for the
  amount of a known intent, unless `WrongAmounts` lets it ask for another.

- A call is taken to land before its caller gives up on it. One that lands later equals a handler that waits,
  lets it land, and crashes.
- A lost answer or failed call differs from a crash only where the route goes on afterwards (`IfNot`).
- The two statuses REFUNDED and USER_SUBMITTED are in the policy and written by no route.
- The local copy of the policy (`intent-transition-policy.mjs`) decides nothing, so it is not modelled.

`PaymentRecovery` adds what ceases, the fairness, and that a paid payment gets recorded. What ceases includes the incomplete
route missing a row that is bound to the payment (a failed read); while a payment is bound to none, the route makes its shell.

### GhcPromise, GhcLedger

`GhcPromise` is the abstract specification: what can take effect has a key (an operation, its user, its
reference), takes effect once, in one step, and is judged by funds less pledges in that step.

`GhcLedger` has the rows the decisions look at: `claim` (the daily claim), `posted` (the sum of a user's posted rows, which
`ghc_available_balance` computes), `spent` and `sent` (rows under references), `given` (curation), `today`
(the sums of the daily limits), `ask` (transfer requests), `wd` (withdrawals) and `sess` (transactions). A
transaction takes its locks one by one in the order of `Plan`, decides, inserts and commits.

| action | code |
|---|---|
| `Begin`, `Acquire` | the advisory locks `ghc_balance:` and the row locks, in the order each function takes them (20261022010057, 20261022010010) |
| `Decide`, `Closed` | the checks of `ghc_spend`, the atomic transfer, accept, withdrawal, settle and curation functions (20261022010057/58, 20261022010010, 20261022010040, 20261022010112, 20261022120004) |
| `Spend`, `Send`, `Accept`, `MarkAccepted`, `Withdraw`, `Settle`, `Give` | their inserts and the commit |
| `Abort` | an exception, a restricted party, a lost connection |
| `DailyClaim`, `Redeem`, `Reject`, `CreateAsk`, `CloseAsk` | operations of one row (20261022010006 and others) |

- Curation takes a lock of its own and looks at the posted sum alone. It ends the promise for its
  giver, and the properties say so (`given[u] = {}`); the run `curation` shows why.
- Settling leaves its own reservation out of the sum, and no other.
- A tip settles under the locks, and by the transfer, of an accepted request.
- `posted` is carried, as `NeverMinted` ties it to the rows.

### Membership

One user: `row` (the entitlement: tier, end, intent, reference), `journal` (intents the event trigger has
recorded), `completed` and `fulfilled` (intents), `debits` (GHC purchases), `now`, `sess` (invocations of routes), and
`terms`, a history of what was granted.

| action | code |
|---|---|
| `Grant`, `Fulfill`, `Activate`, `Status`, `List`, `Confirm` | the routes that grant, and `entitlement-store.ts`: read, call, read again |
| `Renew`, `Insert` | `ghc_membership_renew_from_verified_intent` (20261106143001); two steps when there is no row to lock |
| `Buy`, `Purchase` | activate with GHC, `ghc_purchase_membership` (20261022010078): the expiry is computed before the call |
| `CompleteOrphan`, `ExpireDue` | the operator's recovery (20261022010082) and the sweep (20261030010012) |
| `Complete`, `Tick`, `Stop` | `PaymentIntent`; a month passes; a call fails or the process stops |

### BankPromise, BankPayout

`BankPromise` is the abstract specification: a request is called off or its money is sent, once, then paid or failed, and
perhaps reversed; a new request finds the other requests of its obligation over; money is sent only to a verified payee,
and a payee is dropped only when none of its requests can still be sent; what is said of a request need not be the news, but has been true. In
`BankPayout`, which `PromiseKept` shows to implement it, `phase` comes from the transfer and `said` from the status.

`obligation`, `beneficiary`, `req` (requests with status, obligation and beneficiary), `hooks` (webhooks
applied), `total` and `begun` (the day), `transfer` (at Paystack) and `sess` (route invocations).

| action | code |
|---|---|
| `RecordObligation`, `Register`, `Disable`, `Request`, `Approve`, `Cancel` | the functions of 20261022010115 before a payout |
| `Begin`, `Submit`, `Record` | the execute-bank route: begin, the provider's call under the request's reference, record |
| `Webhook`; `Read`, `Poll`, `Apply` | the webhook route; the reconcile-bank route |
| `Resolve` | the operator makes the obligation of a failed or reversed payout available again |
| `SettleTransfer`, `ReverseTransfer`, `Midnight`, `Lose` | Paystack (external); the date; a call fails or the process stops |

What the code does not prevent, and no property claims: the webhook of a success that arrives after that of the reversal makes the
reversed request paid (20261022010115:301-303), an answer read before the reversal and applied after it does the same, and since a
paid request is not retryable nobody need ask again: the books may say "paid" of a transfer that was returned. Likewise when the
webhook of a reversal is lost. `StatusHasBeenTrue` (proved, and with it `PromiseKept`) is what is left: "paid" has been true, and
"failed" and "reversed" are.

### OrderPromise, MarketplaceOrder, OrderRecovery

`OrderPromise` is the abstract specification of orders. A unit of stock is held by an order, claimed before it is paid for in
GHC, and sold only when it was paid; a claimed order is left unpaid, by its sale, or because an operator released
the claim of a paid one, which is remembered; and a unit that is held but
not claimed goes back to the listing once. `PromiseKept` says that `MarketplaceOrder` does that, where `Phase`
reads the phase of an order off its row: no row that says `cancelled` or `disputed` while its reservation is still
there changes it, a whole row saved late neither.

One listing and orders for one quantity, in which the stock is counted. `listing` (stock left, status),
`order` (status, payment status, currency, reserved, whether the reservation is live, claimed, delivered),
`paid` (the spend is posted, or the Pi intent completed), `released` (a history: the operator released the claim of the order when it
was paid, and it has not become verified by a payer since) and `hand` (invocations of the pay route, of the part
of the fulfil route that attaches a payment, and of the routes with a single call: `act`).

| action | code |
|---|---|
| `Create`, `Sweep`, `Claim`, `ReleaseClaim` | `gh_marketplace_order_create_reserved`, `_release_expired_reservations`, `_order_claim_payment`, `_release_payment_claim` (20261022010079) |
| `Moved`, `Restocked` | the trigger `gh_marketplace_order_stock_transition`, part of every change of status |
| `Start`, `Load` | `loadOrder`: it sweeps in a transaction of its own and then reads |
| `Spend`, `SpendRefused`, `Save`, `Verify`, `Confirm` | the pay route: spend of GHC, upsert of the whole row, the two transitions (20261101160002) |
| `VerifyFails` | the fulfil route goes on when the first transition failed |
| `Cancel`, `SellerFulfill`, ..., `CancelUnpaid`, `Declined` | the transition and commerce routes |
| `Decide`, `Refund`, `ForceRelease` | operators (20261030010015, 20261030010014, 20261022010081) |
| `SellerEdit`, `Expire`, `PiPaid`, `Crash` | the listing form; fifteen minutes; `PaymentIntent`; the process stops |

- The guards that the routes apply to the order they read refuse only what the database function refuses
  too, so a route that refuses early is `Declined`.
- An order takes the currency its listing has when it is made; the seller may change that of the listing.
- `ForceRelease` is the function as it stands. It asks for a claim of five minutes, so that nobody is paying any more (every call
  ends after ten seconds), and not whether the order was paid: its check compares `payment_status` with values the column never
  has (20261022010081:89-90). So a spend, a stop and a release leave a paid order that the sweep cancels.
  `CancelledIsUnspent` says that a GHC order that was paid is cancelled in no other way; `ClaimIsHeld` is about an order
  somebody is paying, which the release cannot touch.
- A late save can take a disputed order back to `payment_pending`; its stock is still conserved, and that is
  part of what is proved.
- A refund, and a dispute, of an order stuck between save and transitions leaves its reservation in place for
  good: stock counted as held, which nobody can sell.

### SellerPromise, SellerPayout

`SellerPromise` is the abstract specification: the proceeds of an order fall due once, until they are contested; a payout asks for all
that is due and not held by another, and nothing it holds is reduced; it is paid only after its money was sent, or ends and lets go of
what it holds, and either is for good. That money may go for a payout that has ended is part of it, since the code lets it.
`PromiseKept` in `SellerPayout` maps a request to its phase, its lines, and whether any payment made for it was submitted.
It is proved (`SellersKeepPromise`). TLC finds it true on the instance of the run `seller` as well, but takes
nearly twice as long with it, so the run does not list it.

`order` (status, and the sum of what was taken off the seller's net), `alloc` (the request an order is allocated
to), `req` (status, amounts per order, the recorded evidence), `exec` (state and bound payment), `lane`, `hand`
(invocations of the create and reconcile routes) and `pi`. `late` remembers whether a payment was submitted by an
invocation whose lease had run out.

| action | code |
|---|---|
| `Deliver`, `Decide`, `Award`, `Refund` | the buyer's confirmation, dispute decisions and their adjustment, a confirmed refund (20261101160002, 20261030010015, 20261030010014) |
| `RequestPayout` | `gh_seller_payout_request` (20261030010011) |
| `Operate` | the transition route and `gh_seller_payout_transition` (20261022010111) |
| `Begin`, `Update`, `UpdateRefused`, `Release` | the three functions of the lane and the execution row (20261022010113) |
| `Find`, `Create`, `Read`, `Submit`, `Complete`, `PiRefuses` | the Pi calls of `app/api/payments/a2u/create/route.ts` |
| `Confirm`, `ConfirmRefused`, `Pay` | `gh_seller_payout_record_pi_confirmation`, then the transition to paid |
| `Reconcile`, `CompleteOnly` | the reconcile route up to those two calls; the complete route |
| `Fail`, `Crash`, `answered = FALSE`, `Lapse` | failing calls, stops, lost answers; the lease runs out |

- A request, an adjustment and a change of an order's status take one advisory lock of the seller, so each is one step.
- An order that was reduced is disputed or refunded, and no route takes it back to `completed` (the transition function
  would, from `disputed`, 20261101160002:94; no caller asks for it). So a request carries whole nets: what the properties say of reductions
  rests on the other half, that an allocated order is not reduced (20261030010011:72), and the partial net
  of `RequestPayout` is there because the function computes it.
- Evidence and payment look at the request alone: neither at the lease nor at the execution.
- The lease (five minutes) is renewed by nothing and not looked at before the submit. Two transfers of one payment
  would then be possible, as far as this code is concerned; that part of `SellerPaidOnce` is for runs without such a submit.
- An operator may end (reject, fail, cancel) a request that is being carried out. Its orders are then free, whatever
  Pi has done, and `SellerPaidOnce` leaves such requests out; see [disagreements](#disagreements).

### Totals

Sums over a set, of amounts given by a function (`Total`). An amount is counted in units: the sum is the number of pairs of
an element and a unit of its amount. That is the same number as an iterated addition, and one that
`Cardinality` alone defines, so that what a ledger's sums do at a step can be proved without induction.

## Runs

| run | question | instance | distinct states |
|---|---|---|---|
| `ledger` | do concurrent transactions overspend, over-settle, or answer `ok` for what was not recorded? are they a serial ledger (`LedgerPromise`)? | 2 sessions, 4 references, 2 payouts, amounts 1 to 3 | 9,487 |
| `payout` | do ledger, request and Pi agree when executions outlive their leases? is `PayoutPromise` implemented? do held and paid funds add up? one transfer and one wallet user without an overrun? does every payout finish? | 1 request, 2 executions, 2 payments, `Overruns`, fairness | 252,003 |
| `payments` | completed means paid, outcomes final, benefits paid for, is `PurchasePromise` implemented, and does a paid payment get recorded, whichever row and payment are named together, with wrong amounts and the other network refused on the way? | 1 intent and 1 shell, 1 payment, 2 handlers, fairness | 551,383 |
| `ghc` | is what withdrawals reserve there, do limits hold, is nobody stuck, is `GhcPromise` implemented, is nothing minted? | 3 users, 2 sessions, 2 references, 2 withdrawals, chosen calls | 349,507 |
| `membership` | is each payment granted its term once, do terms add up, is none made up, is a completed payment granted in the end? | 2 intents, 1 GHC reference, 2 handlers, fairness | 186,855 |
| `bank` | is the seller paid once, are statuses true, is the daily total right, does every transfer conclude? is `BankPromise` implemented? | 1 obligation, 2 requests, 1 session, fairness | 19,032 |
| `stock` | is stock conserved, a claim exclusive, a paid order safe from sweep and cancellation unless the operator releases its claim? is `OrderPromise` implemented? | 2 orders of either currency, 2 handlers, stock 1 | 1,303,809 |
| `seller` | are an order's proceeds transferred once, and no more than adjustments left? do allocations, requests, executions and Pi agree? | 1 order, 2 requests, 2 handlers, 2 payments, net 2 | 1,657,650 |
| `timeout`, `curation`, `membershipStatus`, `kept` | four statements of the repository that the code does not keep, see [disagreements](#disagreements) | smallest that shows it | violated |

Deadlock is checked in the runs of systems that do not stop. In `ghc`, `curation`, `bank` and `seller` everything that can take
effect may have done so (references are not reused within them), and then there is nothing left to do; that the
GHC ledger's locks never block each other is the property `NoCircularWait` instead. Every property has a variant of the code
(definitions marked "Variant" in the modules, paired in `PROJECT.json`) under which TLC finds it violated: the advisory
lock dropped, a heartbeat not checked, a binding that may change, a payment submitted again, a status written back wrongly, a sweep that
ignores the claim, and so on.

To run one: `tlc -config MCOrderStock.cfg MCMarketplaceOrder.tla`; `PROJECT.json` pairs modules and configurations.

### Bounds

- *Ledger.* The only shared things are a user's lock and rows; different users never meet, so one user is
  enough, and two sessions give each interleaving of a read with another's insert. Four references and two payouts hold a credit,
  two reserves and a settlement or release, with a conflict. Amounts 1 to 3 with limits 1 and 2 lie inside, at
  and beyond the limits and allow partial settlement.
- *Payout.* Two executions give a takeover while the old one runs; two payments give a second payment for a
  request, or one of another domain. The gross amount is what the balance covers once. The theorems cover
  several requests, of which one cancellation may release many. Payment names are used again when a cancelled payment is referred to by nobody or another domain
  has finished its own, and execution slots when no lease carries them, so a run is not limited to two of each.
- *Intents.* A second handler is what makes each read stale; wrong amounts and the other network concern one payment at a
  time. The payment competes with the shell and the intent for its binding. A second payment, or intent, is covered by the theorems; TLC
  has met no violation in the first 15 to 17 levels of the larger instances, which it does not finish.
- *GHC.* Users 1 and 3 send to 2 while 2 sends back, so two balance locks cross; one of the sends can also be an
  accepted request; user 1 has two withdrawals open while spending under a reference twice, with the same amount and another;
  3 gives to an author. `Calls` lists exactly these. One claim of 4 covers two reservations or several spends, not all, and the limits allow one transfer
  of 2 with one of 1, not two of 2.
- *Membership.* Two intents of different tiers and a GHC purchase, two handlers, terms of a month and continuity of a
  month. The clock stops at 2 (`MaxTime`): enough for a term to end, and for its continuity to be used.
- *Bank.* Two requests for one obligation, so that a released obligation is requested again; one payout a day
  fits the limit. One session, with webhooks and the operators' actions beside it; the theorems cover any number.
- *Orders.* Two orders for a stock of one compete for it; both currencies at once. Two handlers pay the same order twice,
  or pay and cancel it. The seller edits stock and currency of an active listing (`Shown`), which sells out by itself. A listing paused or set
  to sold out by hand can only not be ordered; both are left out of the run only, the theorems cover them.
- *Seller.* Two requests compete for one order, before and after the operator ends the first; a net of 2 can be reduced
  in part, and again, up to the whole (but see SellerPayout); two payments give a second one for a request, or one for each. Cancelled payments
  nobody refers to are used again. A second order adds sums only: a request takes all there is.
- There is no state constraint in any configuration; `MaxTime` is the only bound on a counter.

Symmetry is used in safety runs only (`ledger`, `ghc`, `stock`, `seller`), over sets of interchangeable model values.

### Fairness

Liveness is stated for when disturbances cease: they happen as often as they like, and then no more. That is a
premise of the property (`<>[][Undisturbed]_vars => ...`; in `OrderRecovery` a variable, `calm`) and not a
fairness condition on faults, since a fault and an ordinary step can be the same
step (a lost answer and a refused one, for instance). `Membership` and `BankPayout` need no such premise: there
calls may go on failing, if not always. Then

- each handler or execution takes its next step (WF): every call has a time limit, 15 s for Pi and 10 s for the
  database;
- the caller comes back (SF, since the request is free, the lane is free or a slot is free only now and then): the executor
  calls the execute route again for an unfinished request (`Begin`); Pi reports an unfinished payment to the
  client at each visit, which passes it on (`Incomplete`); a buyer whose order is not confirmed tries to pay it
  again (`Start` with "pay");
- the client, told to retry recovery and not to pay again, repeats the fulfil route until a renewal gets through; the operator, told
  that a reconciliation is retryable, which reconcile-bank says only while a request is processing or pending, repeats it
  until an answer is applied (SF: the calls may fail in between), and need not ask again after that;
- Paystack settles its transfers (WF);
- leases run out, the other domains give the lane back and finish their payments, Pi verifies what was transferred (WF).

No fairness is assumed of users paying or cancelling, operators, sellers, or time passing for reservations.
`EveryPayoutFinishes` says that the outcome stays (`<>[]`). `PaidIsRecorded` excepts
rows that were closed before (FAILED or CANCELLED): see the disagreement `timeout`. `EveryTransferConcludes`
says that a request does not stay processing or pending when its transfer has an outcome. It excepts disputes, which are for
people to decide, and it does not say that the last word is the truth: see BankPayout.

## Proofs

Proved by TLAPS for every value of the constants that satisfies the modules' assumptions (positive
amounts, finite sets of orders, requests, users and references where they are counted, `None` outside the sets, and the like):

| module | theorems |
|---|---|
| `EarningsLedger_proofs` | `LedgerTypes`, `LedgerNeverOverdrawn`, `LedgerAnswersAreRecorded`, `LedgerAppendOnly`, `LedgerKeepsPromise` (refinement) |
| `PayoutExecution_proofs` | `PayoutTypes`, `PayoutLedgerAgreesWithPi`, `PayoutTransfersAreBound`, `PayoutStatusAgreesWithLedger`, `PayoutFundsAddUp`, `PayoutBindingIsFinal`, `PayoutKeepsPromise` (refinement), `WalletHasOneUser`, `PaidOnceUnlessOverrun` |
| `PaymentIntent_proofs` | `PaymentTypes`, `CompletedIsPaid`, `ApprovedIsBound`, `GrantedIsPaid`, `FinalOutcomes`, `PurchasesKeepPromise` (refinement) |
| `MarketplaceOrder_proofs` | `OrderTypes`, `ClaimsAreHeld`, `PaidKeepStock`, `CancelledUnspent`, `StockKept`, `OrdersKeepPromise` (refinement) |
| `GhcLedger_proofs` | `TypeCorrect`, `ReservationsSafe`, `NothingMinted`, `LimitsSafe`, `AcceptedSafe`, `DeadlockFree`, `AnswersStand`, `KeepsPromise` (refinement) |
| `Membership_proofs` | `TypeCorrect`, `TermGrantedOnce`, `NoTermIsMadeUp`, `GrantedTermsCount`, `JournalIsTrue` |
| `BankPayout_proofs` | `TypeCorrect`, `PaidOnce`, `DailyTotalIsTheSum`, `StatusTrue`, `MoneyGoesRight`, `BankKeepsPromise` (refinement) |
| `SellerPayout_proofs` | `SellerTypes`, `SellerBooksAgree`, `SellerIsPaidOnce`, `SellersKeepPromise` (refinement) |

**Ledger.** Non-negative balances are not inductive: a session at its insert acts on an old read. The
invariant adds `ReadStillStands`: such a session holds the lock of its user, and what it read (the reference is free, the
amount is covered) still holds, because nobody inserts without the lock. Each insert then moves sums
by exactly what the read covered. The same fact makes the insert the one step of `LedgerPromise`: what was decided from
the read is what the serial ledger decides at the insert, and an answer that inserts nothing is true when it is given.

**Sums.** Several invariants are about sums over rows. Four lemmas on `Total` carry them: it is a natural number, it depends on
the amounts alone, it grows by the amount of a new row, and it moves with the one amount that changes. They are
facts about cardinalities and take no induction. They stand in each proof module that needs them, since none
uses another. What is left for each invariant is the bookkeeping: the carried sums of an account and its rows
(`CarriedSums`, a lemma by which `LedgerNeverOverdrawn` speaks of the rows); posted balances, claims, gifts and the rows of spends, transfers and withdrawals, where a transfer takes from one
user what it gives to another (`NothingMinted`); the day's total and the requests begun on that day (`DailyTotalIsTheSum`); the
terms and what was paid for them (`NoTermIsMadeUp`, `GrantedTermsCount`).

**Payout.** The invariant has five parts: the ledger rows of a request determine each other and the sums
(`RowsInv`); status agrees with rows (`StatusInv`); a payment that was transferred is the bound one
(`BindingInv`); settlement and release each carry evidence of what Pi showed (`EvidenceInv`); and an execution at
a given call knows what the calls before established (`ExecInv`). Leases play no part. That is the point of the argument: a
payment is bound before it is submitted, the binding never changes, and the evidence needed to settle (a
verified transfer of the bound payment) excludes the evidence needed to release (no transfer of it and never
one again), whoever of two executions comes first. Refinement follows step by step: every step maps to a step
of `PayoutPromise` or changes neither phase nor transfers. From that `FundsAddUp` follows by counting: a request that goes from
one phase to the next takes its gross amount along, and a release, which may be of many requests at once, gives back
one gross amount for each.

**Leases.** Without an overrun the leases do play a part. An execution inside a call holds a request's lease (`Covered`),
a live request lease lies within a live lane lease of the same token (`Nested`), and the lane has one holder: that
gives one wallet user. For one transfer per request, an execution that is about to submit, and still owns the request, is the first to
(`FirstToSubmit`), so no payment is transferred twice (`AtMostOnce`); that all transfers of a request are of the
payment bound to it was proved before.

**Intents.** The rows and payments are related by `Consistent`, and each handler `Knows` something between two
calls, for instance that the payment it is about to record has been completed at Pi and has the amount. What makes this survive
the other handlers is `Forward`: payments only gain facts, bindings and outcomes stay, and a row that was moved on to its completion
leaves it only by being paid. That last part carries `ApprovedIsBound`, where a payment without the amount of its row was approved. For the
refinement it is enough to look at the state a step leads to: if a row is paid there, `Consistent` says that its payment is
completed and has the amount; if a payment is approved there, that it is bound; and `Forward` says that the phases moved in no
other direction.

**Orders.** `RowOK` lists the rows that occur, `HandOK` what a handler counts on, and one handler at most is
paying an order. Others' steps satisfy a rely condition (`Kept`, and `KeptClaimed` for a claimed order): no step leads back to a
payable order, and none takes the reservation or the claim away. That is what makes the late whole-row save harmless: the only
status a paying handler can have read is `payment_pending`. For conservation, the set of orders that hold stock
changes by exactly the orders whose unit moves; the sweep may move many at once, hence the cardinalities. A release by the operator
needs `released`: in the invariant a GHC order that was paid is claimed, sold or released. Refinement
goes by phases: the sweep frees the late orders, whose stock returns with them, and besides them one order at most changes its
phase; that it may (it is claimed and paid when it becomes sold, unpaid when the claim is given up) is what the handlers know of it.

**GHC ledger.** A rely-guarantee argument. `LocksOK` says that no lock has two holders. Each session `Relies` on something
for what it is about to insert (the funds are there, the limits allow it, the key is free), and everyone else's
step guarantees it (`Kept`) for whoever holds a user's balance lock: money may come in, and curation may end
the promise, nothing else happens. With that, an insert finds what the decision found. Freedom from deadlock
comes from the order of `Plan`: row locks are taken first, then balances upwards in user ids, so in a set of
waiting sessions the one waiting for the highest lock waits for no other of them. For the refinement,
a curation about to be inserted also has to be new (`GiveIsNew`, by its own lock); every step then adds one
key to what took effect, or none.

**Membership.** An intent has one term if the journal names it and none otherwise (`JournalIsTrue`); what the row names
is in the journal, and at most one renewal stands between its read and its insert, for an intent not yet in it.

**Bank payouts.** A request is live if it exists, was not cancelled and its transfer has not come back. An obligation
has at most one live request (`OneLive`): a second is admitted only when the obligation is available and no other
is active (the partial unique index), and then the others were cancelled, or have failed or been reversed, and truly so,
since only a report of the provider makes them that (`CallsAreTrue`); a disputed request leaves the obligation disputed for ever.
The same lemma gives the guard with which `BankPromise` admits a request. A report changes nothing there but what is said, which is true
because `StatusHasBeenTrue` holds of the state it leads to; that invariant is proved (`StatusTrue`), and the run checks it as part of the promise.

**Seller payouts.** What a handler knows at its place in the route (`RightHand`: its payment was made for its request,
the execution names it, it was sent, verified, completed) stays true whatever the others do, since executions never replace a
payment, what Pi knows only grows, and a payment it forgets is one nobody refers to. So every transfer is the payment its execution
names, one per request; and an order with a live line is allocated to that request alone. All of this holds without the lease. Only
that one payment is not submitted twice needs it (`SentOnce`): the one holder that is about to submit has found it unsent.
For the refinement one more fact is needed, that executions and the lease exist only of requests that were made (`Asked`); then a
submit is the first money of an open or ended request, or is not seen, and the payment of a request finds its money sent.

**Only model-checked.** Liveness (`EveryPayoutFinishes`, `PaidIsRecorded`, `CompletedIsGranted`,
`EveryTransferConcludes`): fairness and ENABLED are beyond the prover. Every other property of a passing run is also a theorem.
`RECURSIVE` operators do not occur.

## Disagreements

Four statements of the repository that its code does not keep, each shown by a run that TLC ends with a
counterexample:

- `timeout`: a document says that a time-out is no proof of failure. The approve route records FAILED when Pi does not answer
  in time, though Pi may have approved; the user can then pay for an intent whose outcome is final.
- `curation`: the balance lock and the spendable balance were introduced so that no debit uses GHC reserved for a withdrawal
  (20261022010057:11, :107). `ghc_curation_redistribute` (20261022120004:113, :125) takes another lock and compares
  with the posted balance: an upvote gives reserved GHC away, and the withdrawal cannot be settled.
- `membershipStatus`: an expired membership is to be presented as Free. The status route tries to reconcile it with the
  newest completed intent, whose term has already been granted; the renewal answers "duplicate", the row is
  still expired, and the route answers 503 each time, until the user pays again.
- `kept`: the pay route keeps the claim of an order whose spend may have gone through, "for idempotent recovery"; a
  claimed order refuses the next attempt, so the recovery cannot happen without an operator, and the
  operator's release is meant for orders that were not paid.

Seen while modelling, and not shown by a run:

- "Do not touch paid / fulfilled orders", says the forced release (20261022010081:89). It does: see MarketplaceOrder.
- The approve route "verifies amount/purpose, approves on Pi" (`approve/route.ts`:4). It compares no purpose, and
  a row that is under way is approved again without a look at the amount (:86-98), also one that complete moved there
  before it looked at the payment: see PaymentIntent. Nobody's purchase is completed that way, but a user can be made to sign.
- An uncertain payout is said to keep its reservation (20261030010002:117). When the settlement or
  release commits and its answer is lost, `end_execution` (20261030010007:103) writes `uncertain` over the finished
  status, and the reservation is gone. The books are right (proved), and the next execution repairs the status (`payout`).
- The "pure local mirror" of the transition policy (`intent-transition-policy.mjs`:14) differs from the database's
  (20261022010095:148, :150) for INCOMPLETE to APPROVED and CREATED to COMPLETION_PENDING. The database decides.
- A GHC order stopped between save and transitions is not taken up again by the pay route, since only its Pi
  branch looks for a verified payment. A Pi payment that
  completes after its order's reservation expired and was sold has no order, and no route returns it. A seller's form
  writes the availability it was opened with over the reservations made since (20261022010025:64).
- Membership: a renewal that found no row overwrites one bought with GHC in between, and a GHC purchase overwrites a
  prepaid term; the orphan recovery grants a purchase again that a later one replaced; the sweep (which sets the tier
  to free) ends the 72 hours in which a renewal continues a term; and of several completed intents only the newest is reconciled.
- Bank payouts: an operator may resolve a failed request a second time, after its obligation was reserved by another request,
  though a comment promises no automatic repetition (20261022010115:306); the unique index (:74) still prevents a second
  transfer, which is what `OneTransferAtATime` shows. A late success report puts a later, rightful request in
  dispute. A comment says that only signed webhooks mark a payout paid (:368); reconciliation (:311-342) does too.

- Seller payouts: an operator may end a request whose transfer is out (20261022010111:170, `transition/route.ts`:32); its
  orders become eligible again and can be paid a second time. A comment says that a retry of the create route resumes (`create/route.ts`:225);
  once the execution is `completed` its update to `submitted` is refused (20261022010113:82), and only the reconcile
  route gets the request paid. A retry that finds the transaction not verified yet sends the execution to `attention` for
  good (:191). The Pi rail does not look again whether an allocated order has come into dispute, as the GHC rail does
  (20261022010114:51).
- Adjustments: `gh_seller_payout_correction_apply` (20261030010015:197) passes a type that
  `gh_marketplace_record_adjustment` (20261030010011:48) refuses, so no correction can be applied. A refund requested and
  confirmed under one idempotency key is answered with a payload conflict (20261030010014:92). Adjustment and payout request
  take the order row and the advisory lock in opposite orders (20261030010011:56, :119): the database resolves a deadlock
  by aborting one.
- Cashback: the branch of the claim route for a payout already paid (`claim/route.ts`:136) is not reached, since
  the answer that would lead there lacks the fields checked at :90.

## Not modelled

- *Who may call.* Sessions, step-up, PIN, ownership and role checks: the models take the caller as authorised.
- *Benefits.* `PaymentIntent` says whether a benefit is granted, not what it is, and not that the grant is idempotent; the
  one-time backfill of older intents is left out.
- *Orders.* Commission, listing fees, quantities
  other than the unit, and the mode without a database, which keeps orders in the memory of one process.
- *Payouts.* Several users on one ledger (they share only the lane, and `EarningsLedger` treats users
  separately), requests of different amounts, fees within the gross amount, memo and address formats.
- *Seller and cashback payouts.* The GHC rail, which settles in one transaction (20261022010114); the cashback claim (20261029010004),
  which goes through the steps of `SellerPayout` with a row of its own; the review queue, which only records; several
  sellers, who share nothing but the lane; gross amounts of adjustments, and refunds that failed.
- *GHC ledger.* What a claim amounts to (streaks, caps), listing fees as a separate debit (a spend like any other), the rows of
  tips and creator rewards, and more than one day.
- *Membership.* Renewal reminders; prices and products (checked before, in the intent); more than one user (they share nothing).
- *Bank payouts.* Registration's calls of the provider before its insert, currencies and amounts other than the obligation's.
- *The other components of the inventory*: planned as above, or left out as pure input and output
  (messaging, media, client), as restrictions that only remove behaviours (rate limits), or as computations over data
  (referral, reputation).
- *Most of the lines.* The repository has some 200,000 lines, of which most present screens and hold browser state
  (`src/components`, `src/contexts`, `src/features`): they keep no state that outlives a page and decide nothing about money that
  the server does not decide again. The models cover functions and routes of the money paths, a small part
  by lines.
- *Time.* Clocks are not modelled but for `Membership`'s months and `BankPayout`'s dates; leases and reservations
  run out at any time, except as `overran` records.
