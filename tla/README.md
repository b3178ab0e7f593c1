# RefKit in TLA+

RefKit (`src/apps/app`) tracks affiliates: it records payments, refunds and
disputes that an app or Stripe reports, keeps a ledger of commissions for the
affiliates who brought the customer, and organises their payouts. It never moves
money itself. The program is a Next.js server without background workers: every
state change happens inside an HTTP request, on PostgreSQL at READ COMMITTED.
What can go wrong is therefore in the order in which requests commit, in
handlers that read before the transaction they write in, in events that Stripe
or a payout system delivers late, twice or never, in requests that die, and in
requests that name rows they may not touch.

This directory holds TLA+ models of the parts where that matters, the TLC runs
that check them and the TLAPS proofs about them. Paths below are relative to
`src/apps/app/src/`.

## Inventory

| Part | State | Operations | Hard behaviour | What makes it correct |
| --- | --- | --- | --- | --- |
| Payouts, `services/payouts` | `payout_batches`, `payout_items`, `payout_executions`, `payout_requests` with items, payout details, recovery debt (derived) | create, export, resolve, cancel and pay batches; requests; executions of an external system; details | reads before the transaction, several people and a callback on one batch, batch status copied onto items, debt derived from items | an entry in at most one active item, batch life cycle, requests fulfilled for their amount, debt kept back once |
| Revenue ledger, `services/revenue`, `services/commissions` | `transactions`, `revenue_disputes`, `commission_entries` | report payment, refund, dispute; review flagged commissions | replay, late and lost dispute events, split refunds, payout between read and write | exposure within the payment, amounts taken back match, holds end |
| Stripe event processing, `services/stripe/event-processor.ts`, webhook route, admin retry | `stripe_events`, and the records of an event | store, claim, handle, mark, announce, retry | crash between two statements, takeover after five minutes, child event before its parent, attribution that appears later | no event lost, none announced twice, only the owner marks |
| Stripe connections, `services/stripe/connected-accounts.ts`, `services/revenue/guards.ts` | `stripe_connections`, pending installs, authorizations, `apps.revenue_source` | install link, callback, button, claim poll, webhooks, disconnect, switch of the source | no transaction anywhere, overlapping installs, a payment in flight during the switch | an account reports to one app, revenue of one source |
| Managed connections, `services/managed-connections` | connection, credential generations, pending bundle, keys | provision, rotate, acknowledge, suspend, reconnect, uninstall, redact | lost answers, retries, transitions under provisioning | a provider is never locked out, keys are revoked only when replaced, redaction is final |
| Managed data subjects, `services/managed-data-subjects` | tombstones, customers | redact, export | an identify in flight during a redaction | what was redacted does not come back |
| Program terms, `services/programs/terms.ts` | versions, default rule, pin on a referral | publish, pin | a publish during a pin | a referral keeps the terms of its moment |
| Capture, identify, referrals | clicks, customers, referrals | capture, identify | concurrent identify calls, a click whose link goes | the first referral wins |
| Programs and apps, `services/programs`, `services/apps`, `services/network` | programs, default program, visibility, agreement, logo | create, pause, disable, default, publish, upload | decisions on rows read before the lock, clean-up after the commit | one default, a logo that is stored, joins only where open |
| Affiliates and links, `services/affiliates`, `services/links` | memberships, links, keys of the affiliate, anonymized accounts | join, approve, disable, create, relabel and remove links, delete the account | no transaction but the join, clicks during a removal, keys revoked one by one | a click keeps its link, a code names one link, no key outlives its owner |
| API routes, `app/api`, `lib/auth-context.ts`, `services/scoping.ts` | credentials, connection status | 140 handlers | any id with any credential, credentials that die under a request | only rows of the credential |
| Client packages, `src/packages` | stored credentials | commands and tools | several kinds of credential | each handler takes what is sent |
| Outgoing webhooks | endpoint, delivery log | emit once, test, rotate | slow receivers | best effort only |
| Organizations, users, emails, audit, support, admin lists, self-hosted setup | single rows | create, update | none | access checks |
| Dashboard and affiliate pages | none | rendering | none | not modelled |

How they interact: Stripe events and the API both end in the revenue ledger,
which writes commission entries in the transaction of the report. Payouts read
those entries, put them into items and mark them paid; a later refund sees that
and writes recovery debt, which payouts keep back. The two sides share the table
`commission_entries` and no lock: the ledger locks the app and the payment row,
a payout run locks the program row, and the other payout handlers lock only what
they update. A commission exists because a click through a link was captured
(`AffiliateAccounts`), identified and pinned to terms (`Attribution`), in a
program that was open to the affiliate (`AppDirectory`). Whose payment it is
follows from the Stripe account or key it was reported with (`StripeConnections`,
`ManagedConnections`), and who may ask for any of this is decided at the route
(`ApiAccess`).

## Modules

| Module | What it is |
| --- | --- |
| `Payouts` | the payout handlers, call by call |
| `EntryAllocation` | what batches promise about entries, in seven abstract actions |
| `RevenueLedger` | payments, refunds, disputes and their commissions |
| `StripeEvents` | the webhook of one Stripe connection |
| `EventInbox` | what is promised about each event, in six abstract actions |
| `StripeConnections` | installs, authorizations and the revenue source of apps |
| `ManagedConnections` | the installations of one managed provider and their credentials |
| `Attribution` | click, identify, referral, terms and redaction in one managed app |
| `AppDirectory` | one app: programs, visibility, agreement, logo, members |
| `AffiliateAccounts` | one program: members, links, clicks, keys, deletion of an account |
| `ApiServices` | for each service function, what it checks and whose rows it touches |
| `ApiRoutes` | for each handler, whom it admits and which functions it calls; extends `ApiServices` |
| `ApiClients` | for each command and tool, what it sends and asks; extends `ApiRoutes` |
| `ApiAccess` | one request through all of these; extends `ApiClients` |
| `MC...` | small instances for TLC: starting ledgers, credentials, symmetry |
| `..._proof` | the theorems about `Payouts`, `RevenueLedger`, `StripeConnections`, `ManagedConnections`, `Attribution`, `AppDirectory` and `AffiliateAccounts`; `Requests_proof` those about `StripeEvents` and `ApiAccess`, the two ways in over HTTP |

All but the API modules have one shape. `call` is a function from the requests in
flight (`Callers`) to what each has read and does next; it is stored nowhere in
the program. A handler that reads in one statement and writes in another is as
many actions as there are points at which another request may commit in between,
named after the function (`...Read`, `...Check`, `...Write`, `...Insert`); a
transaction becomes visible at its commit, so it is one step, unless the rows it
locks make others wait, in which case its steps name the locks they hold. A crash
drops a call between any two steps. What a unique index or a foreign key of the
schema refuses is an operator of its own, since it is often all that stands
between two such handlers.

### Payouts

`entry` is `commission_entries`, `batch` and `item` are `payout_batches` and
`payout_items`, `exec`, `request` and `details` the tables of executions,
requests (with their allocated entries) and payout details; `snap` is the
version of the details an export copied onto the items. `call` is not stored
anywhere: it is what a request in flight has read. A handler that reads first
and writes in a later statement or transaction is an action `...Read` and an
action `...Write` of a caller (`resolvePayoutItem`, `cancelPayoutRun`,
`markPayoutRunPaid`, `markAffiliatePayoutPaid`, `saveAffiliatePayoutDetails`),
or three (`createPayoutRun`, `createPayoutRequest`); anything else may commit in
between, and a call may be abandoned (`Abort`: rejected, or its server died).
A handler that decides under the lock it writes under is one action. A
transaction's writes become visible at its commit, so they are one step.
`createPayoutRun` holds the program row: `ProgramUnlocked` keeps a second one,
and the transaction of `markPayoutRunPaid`, out.

Recovery debt is computed, as in `balance.ts`, from what items kept back. The
unique index `payout_items_active_entry_unique` is the operator
`ActiveIndexAllows`; the one on allocated entries is `AllocationIndexAllows`.
Abstracted: currencies and test mode (both only filter rows), bank details (a
version number), CSV text, emails, audit rows and webhooks. The revenue side is
here only as far as payouts see it: a new commission, a refund, a hold and its
release; `RevenueLedger` models it in full. A dispute hold is not tied to a
dispute here, so it may come and go at any time.

`EntryAllocation` says what batches promise: an entry has at most one holder,
batches take only free entries, a cancelled batch holds nothing and stays
cancelled, and a batch, paid or not, never takes an entry it was not opened with;
one of those whose item failed it may take back while the entry is free. `Payouts`
implements it with `holder` mapped to the batch of the active item of an entry,
`life` to the batch's status and `opened` to the entries the batch has items of,
active or not.

### RevenueLedger

`payment` is the amount of each payment transaction, `earned` its earned
commission, `refund` the refund transactions with what each took back and of
which kind, `dispute` the rows of `revenue_disputes` with what each reversed and
reinstated. Reports of one app take turns, because each holds the app row FOR
UPDATE; a report of a payment or of a dispute is one action. A refund is several
steps (`refundBegin`, one `refundRecord` per refund of the report,
`refundCommit` or `refundRollback`), because it reads the commission without a
lock while a review or a payout, which take none of these locks, may commit. A
refund of the API is a report of one refund, `charge.refunded` of Stripe one of
all the refunds of the charge. Replays that change nothing are not actions. The
commission of a payment is any of `Commissions`: the rule, the exchange rate and
the recurring window, which decide it, are not modelled, and 0 stands for a
payment that earns nothing. `RoundHalfUp` rounds exact fractions.

### StripeEvents

`row` is `stripe_events`, `work` what each request is about to do, `recorded`
whether the transaction and commission of an event exist, and with which
attribution they were written. Each statement of `processStoredStripeEvent` that
commits on its own is an action: claim, resolve, record, mark, announce, answer.
`processing_attempts` is compared with 1 and with the claim's own value only;
`claims` (0, 1, more) and `owner` stand for it without a counter. Five minutes
pass in `Stuck`. `Late` payments are those whose referral or promotion code is
stored after the first attempt. Events of unknown accounts and authorization
events are answered without being handled and are left out, as is what the
handlers read from Stripe.

An event may be ignored, which is marked and answered like a record. That is
decided before the handler (`Ignored`: the account is disconnected, the app's
revenue comes from the API, or nothing is owed), and again in its transaction,
which locks the revenue source (`SourceConflict`): when the source changed since,
a payment or refund is ignored after all, while the handler of a dispute lets the
conflict through, fails, and ignores the event when it comes again. `Livemode`
decides how freely `updateRevenueSource` may change the source: of a test
connection at any time, of a live one only before the first payment, and to the
API only once it is disconnected. The instances take a test connection, which has
every behaviour of a live one. Payments that the API reports lock the source of a
live app too; that only takes steps away.

`EventInbox` has no requests: an event is recorded, ignored, announced and
answered in single steps, a record once, after its payment's, never changed, and
only while the revenue comes from Stripe; and ignored for a reason that holds at
that moment. `StripeEvents` implements it with `record` mapped to `recorded`, `ignored` to
`skipped`, `announced` to `emitted` and `answered` to `acked`. A second attempt on
an event is then a stutter until it does something new.

### StripeConnections

`conn` is `stripe_connections` by its unique app and mode, `auth` the
authorizations that Stripe announced, `pending` the installs that wait. None of
the handlers runs in a transaction: the callback, the button and the poll each
check whether the account is bound elsewhere, then update or insert, then clear
the pending install, then mark the authorization. Times are reduced to whether
an install has lapsed and which authorizations are older than it. A change of
the revenue source locks the app row and looks for payments, a payment checks
the source and is recorded later under the same lock. Left out: accounts of the
sandbox and the OAuth protocol itself.

### ManagedConnections

`conn` holds a connection with the tracking origin of its app, `revoked` the
credential generations whose keys are revoked, `held` what the provider stored.
`findConnectionForProvisioning` reads three times (by key, by account, by
origin), each read a step, then a connection is created, reissued, revived or
answered. Answers may be lost; the provider acknowledges only what it stored.
The three keys of a generation are issued and revoked together, so a generation
stands for them. The website is optional in a request and nothing ties it to the
account, so `Sites` says of each account which it sends, `None` for none: the
instance has an account that always sends one, and another that sends the same
one or none. Left out is that the website of a connected app is changed by hand.
The bound is `MaxVersion`, the generations of a connection.

### Attribution

The app of one managed connection. A capture checks and then inserts its click;
an identify resolves the click or the code, inserts customer and referral, and
pins the terms under the lock of the program; a publish takes the same lock; a
redaction of a person locks the customer, that of the connection deletes what
tracks. Which locks a call holds follows from its step and is written at each
action. A deadlock of two identifies, both of which hold the program row shared
and want it exclusively, is resolved as PostgreSQL does: one is aborted, and it
may be either. Bounds: `MaxVersion` versions of terms, `MaxChanges` changes of
the program, the affiliates or the connection.

### AppDirectory

One app with the rows of its programs, members and logo files. A join is decided
on what was read before its locks (program, listing, agreement) and decided again
under them; the default program is chosen under the lock of the app; the logo is
stored, then written under an advisory lock, and the older file removed after.
The partial unique index of default programs is left out on purpose, so that the
run shows that the locks are enough. Bounds: `MaxAgreement`, `MaxRequests`.

### AffiliateAccounts

One program, whose affiliates have links and keys. Only the join is a
transaction. `joinInsert`, `createLinkInsert` and `deleteLinkRow` obey the unique
index of codes (`CodeIndexAllows`) and the foreign key of clicks
(`Unreferenced`). `deleteAffiliateAccount` lists the live keys, revokes one after
the other, disables the memberships and anonymizes the email, each a statement
of its own; it does not end the session, so a deleted account may still act.
Bound: `MaxRequests`.

### ApiServices, ApiRoutes, ApiClients, ApiAccess

An id in a request is abstracted to the app that its row belongs to; so a model
with a few apps has every way in which two ids may fit together or not.
A row also has a mode and a table: clicks, payments and memberships are live or
test, while customers, the app itself (its pages, its integration issue) and the
accounts of users have no mode. `Reach(check, rows)` says of a service function
which check it makes on the first id before anything else and which rows its
statements can then touch, those it writes before it refuses included: `identify`
stores the customer and its email before it compares the mode of the key, and a
payment in test mode writes the integration issue of the app. A capture adds a
click for the affiliate of the link whatever the mode of the key is. A handler
is an admission, by the function of `auth-context.ts` it calls, and the service
functions it then calls for each kind of caller. `ApiAccess` gives these words
their meaning: a request arrives with any credential, any handler and any ids,
its credential is looked up, then the managed connection, then the scope is
checked, and then rows are touched; in between, credentials are revoked and the
connection changes. Requests meet only in what they write, which the other
modules model, so one request at a time is enough here. Left out: what a body
must look like, the edition of the deployment, the routes under `/api/dev`, the
callback of a Stripe install (which `StripeConnections` models).

## Runs

All passing runs finish exhaustively on their instances.

| Run | Instance | What it shows |
| --- | --- | --- |
| `PayoutsRaces` | 2 callers, 2 batches, 1 affiliate, a commission that is disputed and refunded | `ActiveOnce`, `ItemsFollowBatch`, `DebtFollowsPayment`, `BatchLifecycle` and `AllocationSpec` under every overlap of two calls |
| `PayoutsRequests` | 2 callers, 2 requests, a batch, a commission of 2 that is refunded by 1, minimum payout 2 | entries are allocated once; a fulfilled request asked for what its items amount to |
| `PayoutsDebt` | 1 caller, 2 batches, debt of 2, commissions of 3 and of another affiliate | violated: see Disagreements |
| `RevenueReports` | 1 payment up to 3, 2 refunds, 3 disputes, commission up to 2 | balance of the payment, exact cumulative refunds, holds end, disputes net out, and all of it takes back no more than the commission but for roundings |
| `StripeTakeover` | a checkout and its dispute, 2 requests, 1 fault, late attribution, retries, disconnect, a change of the revenue source | no event lost, announced twice or marked by another request; each goes through `EventInbox` |
| `StripeLiveness` | an invoice, its refund and the end of a dispute that changes nothing, 2 requests, 1 fault, fairness | every event is acknowledged |
| `StripeInstalls` | 2 apps of one owner, 2 accounts, both modes, 2 requests at a time, 5 in all | an account reports to one app, revenue has one source |
| `ManagedLifecycle` | 2 accounts that share a website, one of which may leave it out, 2 keys, 2 connections, 2 generations, 2 requests at a time, any number in all | no provider locked out, no key revoked early, one app for an account that always sends its website, redaction final, no answer with somebody else's credentials unless both send the website |
| `AttributionRaces` | 2 people, 2 affiliates, a click, 2 customer rows, 2 versions, 2 requests at a time | the first referral wins, pinned to the version in force; nothing redacted comes back |
| `AppRaces` | 2 programs, 1 user, 2 files, 2 agreements, 2 requests at a time, 4 in all | one default program, the logo is stored, joins accept the current agreement where the program is open |
| `AccountRaces` | 2 affiliates, 3 links, 2 codes, 2 keys, 2 requests at a time, 6 in all | a click keeps its link, a code names one link, keys die before their owner |
| `ApiAccess` | 4 apps of 3 organizations, 11 credentials, every handler, all ids, 2 changes | a request touches rows of its credential, what is for anybody, and clicks of either mode when it captures; an inactive connection and a revoked credential touch nothing; clients send what is taken |

### Bounds and why they are enough

Two requests at a time are needed for two reads to meet before two writes; a
third adds no new pair of steps of handlers that take two or three. Two rows of
a kind are what a wrong row can be told from the right one by; a third link is
there because one is removed and its code used again. Where requests are counted
(`MaxRequests`, `MaxChanges`) the bound lets each property's longest scenario
finish twice: two installs that overlap through three steps, a create, disable
and change of the default beside a join, two deletions of one account with a key
between. The ledger rows of `Payouts` are capped by `MaxEntries`, refund amounts
and disputable rows by `Refunds` and `Disputable`, details by `MaxDetails`,
integer columns by `Amounts` (the queries cast sums to int4 and fail beyond it,
which the guards keep; no instance comes near). Amounts up to 3 with a
commission up to 2 give every remainder that rounds up, down or at a half, and
three disputes on one payment of 3 are the most its balance admits. One fault per
run of Stripe's handling is enough for a crash at every step, also during the
recovery from a takeover, which is not a fault. One change of the revenue source
(`MaxSwitches`) may come at any of these steps too; the proofs have any number. In
`ApiAccess` two changes are a
revocation and a transition, or two transitions, and the four apps are: two of
one organization, one of another of which the owner of the first is an affiliate,
and the managed one. `CHECK_DEADLOCK FALSE` is set where every id or request of
the instance can be used up.

### Disagreements

`PayoutsDebt` checks a promise of the repository and finds it broken by the code.
`balance.ts:63` says "Draft/prepared payout items reserve that same" difference
"so concurrent runs cannot apply the same debt twice"; `resolvePayoutItem` lets a
paid item of a waiting batch go back to failed, which frees its debt for a batch
created meanwhile, and to paid again, after which both batches keep it back.

The models and the reading behind them show more, on which no run is spent:

- Payouts. A batch that is paid between the two debt queries of
  `createPayoutRun` (`balance.ts:85`) counts in neither, and its debt is kept
  back twice. `markAffiliatePayoutPaid` settles before it stamps the batch paid
  (`payout-batches.ts:1257`) and leaves the debt it withheld outstanding. An item
  paid by hand covers a request while its entry stays approved
  (`payout-batches.ts:1287`). A late write of `resolvePayoutItem` may leave a paid
  batch with an unresolved item. An execution of a batch that was paid or
  cancelled by hand stays ready for ever (`payout-executions.ts:347`). Details
  change although a request was opened between the check of the lock and the
  write (`payout-details.ts:48`). A dispute that opens once its entry is in a
  batch does not keep mark-paid from paying it.
- Ledger. A payout between a refund's read of the entry and its write leaves a
  reversal instead of a debt (`commission-ledger.ts:441`). A flagged commission
  that is released while a dispute is open becomes payable
  (`commissions/index.ts:170`). `money.ts:22` multiplies floating-point numbers,
  so a product of exactly a half may round either way; the model uses fractions.
  Each lost dispute is rounded beside the refunds (`commission-ledger.ts:354`): of
  a commission of 1 on a payment of 2, a refund of 1 and a lost dispute of 1 take
  back 2. `TakenBackIsBounded` says by how much this may exceed the commission.
  `TECH.md:144` has `funds_reinstated` only after `lost`, the code also accepts it
  for an open dispute (`disputes.ts:90`); the model follows the code.
- Stripe. A retry after an attribution appeared conflicts with its own record and
  fails the event (`transactions.ts:41`). Only the first attempt announces: a
  refund recorded by a later one is never announced. When the
  revenue source changes under a handler, a payment or refund is ignored, as the
  comment at `event-processor.ts:344` says, while a dispute fails and is retried
  (`disputes.ts:280`).
- Installs. The claim poll binds the only unclaimed authorization to the only
  install still pending, whoever authorized it (`connected-accounts.ts:642`): an
  owner who authorizes after their own install lapsed, while another waits, gives
  the account to the other's app, which the comment at line 556 says it avoids. A
  poll without a pending install answers with the connection of another app that
  once claimed for this one. An install that is started again keeps its old
  creation time.
- Managed. An account gets two apps when two of its provisioning requests with
  different keys overlap and one of them sends no website (`docs/architecture.md:187`
  promises one app), and two accounts that send one website get one installation,
  credentials included. So `OneAppPerAccount` is about accounts that always send
  one website, and `NoForeignCredentials` excepts an installation whose website the
  account sends too; both say so themselves, and the instance has both cases. When
  the website of the app is changed by hand (`apps/index.ts:519`) between the
  searches of a request and its insert, even an account that always sends one
  website gets a second app.
- Redaction. A customer inserted by an identify in flight survives the redaction
  of the connection, without referral or click.
- Links. The default link is recognised by its label only (`links.ts:345`): one
  that is relabelled can be deleted, and another label makes any link permanent.
- Accounts. A deletion that fails halfway leaves the rest undone; one that was
  authenticated by a key and dies after revoking it cannot be repeated. The
  payable balance is read before, not under a lock. The photo is not removed, and
  a self-hosted administrator can delete the only account.
- Apps. `updateAppWebsiteUrl` writes the app and its programs in two statements,
  and `createProgram` reads the website before its transaction: a program may
  keep the old destination. `PATCH /v1/apps/:id` applies its fields one by one.
  `createAffiliate` may leave a member who accepted nothing
  (`affiliates/index.ts:218`). Pausing and hiding, disabling and choosing the
  default, decide on rows read before their locks, and the app may end up listed
  with a program that is paused. An upload whose commit has an unknown outcome
  deletes the file although the row may refer to it.
- Lists. The cursor is read in milliseconds and compared with microseconds
  (`lib/pagination.ts:82`, `services/links/index.ts`): rows of the cursor's
  millisecond are left out of the next page; none is repeated.
- Webhooks. A delivery is recorded after it was sent
  (`services/webhooks/index.ts:588`): a crash, or an endpoint deleted within its
  three seconds, loses the record. Two rotations may return secrets in the order
  in which they were not stored.
- Modes. Capture takes no notice of the mode of a key: a test key adds clicks to
  live affiliates (`clicks/index.ts:206`), which `OnlyOwnRows` therefore grants it.
  Customers and the integration issue of an app have no mode, so keys of both
  write them; an `identify` that is refused for its mode has stored the customer
  already (`identify/index.ts:218`). The browser SDK drops a click whose capture
  fails.

### Fairness

Only `StripeEvents` claims liveness: people, clients and providers call when they
like, nothing in the code retries or finishes their calls. `FairSpec` assumes
that a request that runs takes its next step (weak fairness of `WorkStep`, per
request), that five minutes pass (weak fairness of `Stuck`), and that Stripe
delivers an event until it is told 2xx, which `api/webhooks/stripe/route.ts:70`
relies on (strong fairness of `Redeliver`, since both requests of the instance
may be busy). Faults stop after `MaxFaults`: no code survives crashing for ever.
Late attribution is excluded, because an event that was recorded, lost to a crash
and then attributed conflicts on every redelivery; so are retries by
administrators, who could claim the event whenever Stripe comes, disconnects, and
changes of the revenue source, which fail a dispute each time they come between
its handler and its transaction.

## Proofs

Each theorem holds for every value of the constants: any number of affiliates,
batches, requests, callers, accounts, rows.

`Payouts_proof`, from `PayoutsAssumption`:

- `TypeCorrect`: `TypeOK`.
- `ActiveOnceCorrect`, `ItemsFollowBatchCorrect`, `AllocationImplemented`: by the
  inductive invariant `AllocInv`. `ActiveOnce` is not inductive alone: a
  resolution may revive an item of a batch cancelled in between, and the proof
  needs that items carry their batch's status, that a batch without row has no
  items and what calls in flight still assume.
- `BatchLifecycleCorrect`: every step that writes a batch's status checks the old
  one. `SucceededIsTerminalCorrect`: likewise for executions; no run is spent on
  that one.
- `DebtFollowsPaymentCorrect`: by the inductive invariant `LedgerInv`: entries
  of a batch exist, a paid entry is never held, and debt refers to a paid one.
- `AllocatedOnceCorrect`, `FulfilledAmountCorrect`: a step inserts one request,
  for entries that no other has, or declines some that are open, or fulfils some
  (`RequestMoves`). A request is fulfilled when its items amount to what it asked
  for; afterwards no step changes the amount or the request of an item of a batch
  that exists (`KeptItems`), so the sum stays what it was. No induction over the
  sum is needed: it is one of the same function over the same set.

`RevenueLedger_proof`, from `RevenueAssumption`:

- `HoldHasOpenDisputeCorrect`: no commission stays on hold without an open
  dispute. An entry becomes disputed only in the step that records an open
  dispute of its payment, and the step that closes the last open one gives it
  back, unless the dispute is reinstated after a loss: it was not open before.
- `DisputeNetsOutCorrect`: a lost dispute has taken back its share and any other
  nothing on balance.

- `ExposureCorrect`: refunds and active disputes stay within their payment.
- `ReversalCorrect`: what refunds took back of a commission is the share of all
  that was refunded, rounded once, however the refund was split.
- `TakenBackCorrect` (`TakenBackIsBounded`): refunds and lost disputes together
  take back at most the commission and half a minor unit for each rounding, one
  of all the refunds and one of every lost dispute.

The first two follow from the inductive invariant `DisputeInv`: the rows have their types,
a dispute is one of a payment with an amount, and `Booked` says what each status
has reversed and reinstated. `Booked` is needed because the second booking of a
dispute computes its share anew: it cancels the first only if the payment and the
commission's amount have not changed, whatever reviews and payouts did to its
status meanwhile.

The last three follow from `BalanceInv`. It adds that the rows are `Balanced`: of each
payment, refunds plus active disputes are at most its amount, and what its refunds
took back is the rounded share of their sum; and that the rows of an open
transaction, which others do not see yet, are balanced too (`OpenTransaction`).
Only with this can the commit be shown to keep the balance: disputes cannot come
in between, because they take the lock of the payment. The sums are
`SumFunctionOnSet` of the community modules, a fold: the section on sums proves
what it is for the empty set, with one element more, and that it is a natural
number and follows pointwise order. Sets of rows are finite because each row took
a step. The induction over finite sets is by the well-foundedness of their strict
subsets, which the library states without an operator as parameter. The proofs
need that `RoundHalfUp` is monotone, as a division of integers. `TakenBackCorrect`
needs no more of the invariant, but bounds of sums (`SumBound`): each lost dispute
takes back its exact share and half a unit, the shares are linear in the amounts,
and refunds and disputes share the payment (`ExposureWithinPayment`).

`StripeConnections_proof`, from `StripeConnectionsAssumption`: `TypesHold`,
`AccountsKeptApart` and `SourcesNeverMix`, by the inductive invariant `Inv`, which
is their conjunction. An account is written to a row only by `bindUpdate` and
`bindInsert`, whose index refuses an account of another row; a source changes
only while the app has no live revenue, and a payment is recorded only with the
source it checked under the lock.

`ManagedConnections_proof`, from `ManagedAssumption`: `TypesHold`,
`ProviderKeepsAccess`, `RevocationIsSafe` and `RedactionHolds`, by the inductive
invariant `IInv`: types, `Fits`, which relates a connection's version and pending
bundle to what is revoked and what the provider holds, and `CallFits`, which says
that an answer in flight carries no generation that was never issued. Each action
is shown to be a `DataStep`, one write of one connection that is `Legal`, and the
properties are proved of `DataStep` once. `OneAppHolds` (`OneAppPerAccount`) and
`AnswersStayOwn` (`NoForeignCredentials`) need `OriginOK` as well: which account
and website a row has, that no two rows have one website, and that the row which a
request will write to has its account or a website that it sends. Neither theorem
has a hypothesis: an account may send no website, or that of another one. What
cannot be promised then is said in the properties:

- `OneAppPerAccount` is about the accounts that always send one and the same
  website. Two requests without one that overlap under different keys find no row,
  and nothing in the database stops the second insert; with it, the unique origin
  of apps does.
- `NoForeignCredentials` lets an account have the credentials of an installation
  whose website it sends: the code takes the two for one installation.

`Requests_proof`, of `StripeEvents` and from `StripeAssumption`: `TypesHold`, `NoEventIsLost`
(`AckedIsRecorded`), `NoEventIsAnnouncedTwice` (`EmittedOnce`) and `OwnerMarks`
(`OnlyOwnerMarks`), for any number of events, requests and faults, and with what
the liveness run leaves out: late attribution, administrators, disconnects, changes
of the revenue source. The inductive invariant `IInv` adds `Recorded`, that a
request past its recording has recorded or ignored its event and that a processed
row was, and `Announced`: only the request that claimed a row first may announce its event, and there is one.
The second part does not mention the owner of a row. The claim of a row that was
claimed before never announces, so a takeover need not stop the request it
replaces.

`InboxImplemented` shows that `StripeEvents` implements `EventInbox`. The invariant
needs one more part, `Prepared`: a request about to record a refund or dispute found
the record of its payment, and it is still there, because no step changes a record
once there is one (`RecordsStay`). A step that finds the revenue source changed is
the inbox's `Ignore`, not its `Record`. So the two facts are shown together: each step
is one of the inbox or a stutter, and keeps the requests prepared.

`Requests_proof`, of `ApiAccess` and from `ApiAccessAssumption`: `OwnRowsHold`
(`OnlyOwnRows`), `InactiveHolds` (`InactiveIsSilent`), `RevokedHolds`
(`RevokedIsRefused`) and `ClientsHold` (`ClientsAdmitted`), for any apps,
organizations, affiliates and credentials, and any number of revocations and
transitions. The proof has two halves:

- The tables. `HandlersSound` says of every handler and of every kind of caller
  that it admits and serves: the check that its service functions make fits the
  rows that they touch (`Reaches`), and the caller was let in by a lookup that finds
  no revoked credential, and with a management key only while the connection is
  active or to administer it (`Entered`). `ClientsServed` says of every command and
  tool that each handler it asks takes what it sends. Both are proved by groups of
  handlers, by unfolding them; a handler added to the table must be shown to be
  sound.
- The steps. `ApiInv` says what each lookup has established about a request, and
  that a later one may rely on: after the credential (`Looked`), the connection
  (`Connects`), the function of `auth-context` (`Enters`) and the service function
  (`Serves`). It is not enough that each check was made: a check may be stale when
  rows are touched. `Scoped` keeps of a check only what no later step undoes, and
  `Connects` records the status that the request saw rather than the one that is.

`TouchedOwn` then shows that what `Reaches` allows lies within `StandsFor` or is
for anybody, and `CapturedOwn` that a capture with a key adds clicks of its app.

`Attribution_proof`, from `AttributionAssumption`: `TypesHold`,
`AnswersNameTheFirst`, `RedactedStaysErased`, `RedactedTracksNobody` and
`TermsPinned`. `IInv` has three parts: the administrators' rows; `DataOK`, what a
referral has to do with its click and its customer (`RowFits`); and `CallsOK`.
The last says what a request that holds locks still relies on (`Fits`: the
customer it will write is kept and has no referral, the version it pinned is the
one in force) and which locks exclude each other (`Apart`). Without `Apart` the
invariant is not inductive: two requests could pin for one customer.

`AppDirectory_proof`, from `AppDirectoryAssumption`: `TypesHold`,
`DefaultIsUnique`, `LogoIsStored`, `JoinsAcceptCurrent` and `JoinsAreOpen`. `IInv`
is built in the same way, with the locks of the app, of a program and of the
logo. `LogoStored` needs that a request about to delete a replaced blob is the
only one with that blob, and that it is not shown any more.

`AffiliateAccounts_proof`, from `AffiliateAccountsAssumption`: `TypesHold`,
`ClicksAreKept` (`ClicksKeepLink`), `CodesAreUnique` (`OneLinkPerCode`) and
`NoKeyIsForgotten` (`KeysDieFirst`). No lock holds here. The first two follow from
what the database refuses, and the invariant adds that who owns a link is a
member. For the third, every key that a deletion listed is revoked, still to do,
or the one in hand, and no key comes back.

Every safety property of the passing runs is the property of a theorem. Only
model-checked: `EventuallyAcked`, since TLAPS has no liveness under fairness.
`DebtAppliedOnce` does not hold. The types of `Attribution`, `AppDirectory`,
`AffiliateAccounts`, `Payouts`, `RevenueLedger`, `StripeConnections` and
`StripeEvents` are proved and not listed with their runs.

## Not modelled, and why

- The dashboard, the affiliate pages, the components and the emails, which are
  nearly half of the lines: they show what the API answers and keep no state of
  the system.
- Outgoing webhooks beyond what Stripe events announce: one attempt with a
  timeout, of which nothing is promised.
- Audit rows, email logs, times of last use and rate limits: written, and read by
  no decision that a property is about.
- Currency conversion (the program rejects it), encryption, CSV text, identifiers
  and other formatting.
- Seeds, scripts and the routes under `/api/dev`, which are tools of development.

What would come next: manual adjustments of administrators and the recurring
window of a rule in `RevenueLedger`; and the refinement of the ledger actions of
`Payouts` by `RevenueLedger`.
