# Formal models of MassPay

MassPay pays salaries and bonuses to mobile-money accounts in bulk. A company
(tenant) loads a wallet, creates a batch of transfers, has it approved, and a
pool of workers sends one transfer per item to Orange Money or Moov Money. A
company is admitted after its documents were reviewed (KYB). People work through
a web console whose pages hold copies of what the server knows. This directory
models in TLA+ what decides about money, the onboarding, the sessions and the
pages that change state, checks small instances with TLC and proves theorems
about instances of any size with TLAPS.

## 1. The system

### Components

| Component | Source (`src/backend/internal/` unless said) | State | Operations |
|---|---|---|---|
| Wallet service | `services/wallet.go` | one row per tenant (`available`, `reserved`, three totals), audit rows | `Recharge`, `Reserve`, `SettleItem`, `GetOrCreate` |
| Batch service | `services/batch.go` | batch rows, item rows | `Create`, `Validate`, `Execute`, `FinishItem`, `RetryItem`, reads |
| Workers | `workers/disbursement.go` | the job in each goroutine's hands | `run`, `process`, `scheduleRetry`, `notifyIfBatchDone` |
| Retry scheduler | `workers/disbursement.go:263` | members fetched and not yet moved | one tick: fetch due members, push and remove each |
| Redis | used by the two above | list of jobs, sorted set of postponed jobs | LPUSH, BRPOP, ZADD, ZRANGEBYSCORE, ZREM |
| Gateways | `gateway/gateway.go` | an OAuth token cache (one per job); at the operator, its own books | `Send`, `CheckStatus` per operator |
| Models | `models/models.go` | row types, statuses, roles | role checks, `IsDone`, `DetectOperator` |
| HTTP handlers | `handlers/handlers.go`, `monitoring.go` | tenants, users, beneficiaries, KYB documents, refresh tokens | sessions, 2FA, tenant and user administration, KYB review |
| Middleware | `middleware/` | blacklist, used TOTP codes, rate counters in Redis | `Auth`, `Require2FA`, rate limit, tenant guard |
| Notifications, mail | `notifications/`, `mail/` | none | messages about batches and accounts |
| Database, crypto, config, routes | `database/`, `crypto/`, `config/`, `routes/`, `cmd/server` | none of their own | migrations, seed, wiring |
| API client | `src/frontend/src/lib/api.ts` | token pair in localStorage, one renewal per tab | `req`, `doRefresh` |
| Gates | `src/frontend/src/app/{page,login,kyb,*/layout}.tsx` | token, role, tenant status in localStorage | login, redirects, polling of the status |
| Dossier pages | `app/admin/kyb/[id]`, `app/admin/tenants`, `app/admin/tenants/[id]`, `app/kyb` | a copy of the status and the documents | activate, suspend, reject, review, submit |
| Batch pages | `app/dashboard/batches/` | the batch being composed, a copy of the wallet, of a batch | compose, launch, validate, execute, relaunch |
| List pages | `app/dashboard/beneficiaries`, `app/dashboard/users`, `app/admin/admins`, team in `app/admin/tenants/[id]` | a copy of a table | add, import, edit, toggle, delete |
| Other pages | statistics, wallet, settings (second factor), mail, the parameters of a tenant | copies | reads, one form each |

### How they interact

An API request calls a batch-service operation. `Create` inserts the batch, its
items and the reservation in one transaction. `Validate` and `Execute` read the
batch row, check it and save *the whole row* in a later statement, with no lock
and no condition; `Execute` then pushes one job per item to the Redis list. A
worker takes a job off the list (which removes it), asks the gateway, and either
finishes the item (`FinishItem`, one transaction), settles the wallet
(`SettleItem`, another) and perhaps announces the end of the batch, or marks the
item and puts the job, with its attempt number raised, into the sorted set. The
scheduler moves due jobs back to the list, with two commands for each.

The pages act on copies. Each request goes through `req` of `api.ts`, which adds
the access token, renews the pair once per tab on a 401 and gives the session up
when that fails. An answer changes the page's copy, by patching it, by taking the
row from the answer or by loading again; nothing tells a page of changes made
elsewhere, except that the tenant's KYB page polls. Which console a browser shows
is decided by the layouts from localStorage alone.

### What is hard

* Two requests interleave between read and save, of one batch, one wallet or one
  user: no read of the code locks a row.
* A job exists only in Redis or in a worker's memory; nothing in the database
  says whether an item was settled, and settling is not idempotent.
* Each step of a worker can fail on its own, and the process can stop anywhere.
* Retries, statuses that stay pending, and an operator whose answer is lost; the
  same word of an operator means one thing in one answer and another in the next.
* The commission is rounded once for the batch and once for each item.
* Handlers read a row, check it and write it in separate statements: decisions
  and uploads of one dossier, removals of administrators, renewals of a session.
* Pages decide from stale copies, send several requests in a row of which any
  can fail, and hear answers in any order; two tabs share one localStorage.

The hazards are listed one by one in `PROJECT.json` with the line where each
bites and the properties that would catch it.

### What makes each component correct

* **Wallet**: no franc is ever created, no settlement counted twice and the liquid
  balance never negative, whatever overlaps; and as long as the operations of a
  tenant take turns, no franc is lost, the balances are what the items' reservations
  became, and the audit rows explain them.
* **Commission**: the shares add up to the batch's commission and each is fair.
* **Batch**: closed exactly when all its items are counted; approved by a second
  administrator at or above the threshold; counters and final status agree with
  the items; final states are final.
* **Workers and scheduler**: one live job per item; the retry budget is kept;
  every item of a batch in processing gets a verdict, is settled once, with its
  share, and the batch is announced.
* **Gateways**: a payment is repeated only for want of a reply; what is closed as
  paid was paid; a refund while a payment is possible needs a reply that was not
  heard, or an operator that still waits.
* **Onboarding**: races heal, so that the status is the one the history shows;
  a submission that answers a rejection reaches the administrators' queue.
* **Sessions**: one live refresh token per login; none after `Logout`; a tab
  does not lose its session by its own concurrent requests; every request ends.
* **Gates**: the console shown is the user's; redirects end; a waiting tenant
  gets in once activated.
* **Batch pages**: one press, one payment, of the lines the page showed.
* **List pages**: a page at rest agrees with its table; editing a name changes
  nothing else; an active super administrator remains.

## 2. Modules

```
WalletRows ── WalletLedger ── Wallet ── MCWallet, MoneyProofs
Commission ── Disbursement ── MCDisbursement, DisbursementProofs
    │             │ └(INSTANCE)─ Payout
    │         GatewayAnswers ── Gateway ── MCGateway
    └ CommissionSplit ── MCCommissionSplit, MoneyProofs

MoneyLemmas (Commission and WalletRows) is extended by MoneyProofs, which is about
the wallet and the commission, and by the proofs of the disbursement.

Onboarding ── MCOnboarding, OnboardingProofs
BatchConsole ── MCBatchConsole, BatchConsoleProofs
Gates ─────── MCGates, GatesProofs
Sessions ──── MCSessions, SessionsProofs
Rosters ───── MCRosters, RostersProofs
```

The five modules of the console stand side by side: each takes from the others
only what its own pages can notice of them. `Gates` lets the tenant's status
change as `Onboarding` does; `BatchConsole` lets a launched batch end, completed
or failed and refunded, which is what `Payout` allows; a 401 is the subject of
`Sessions`, and a lost session is a lost request elsewhere.

**WalletRows** has no state: the row and what each operation writes into it and
into the audit table. `SettleItem` is two operations, `charge` (success) and
`refund`. The audit types are named after the operations: `recharge`, `reserve`
(`batch_debit` in the code), `charge` (`commission`), `refund`.

**WalletLedger** is the abstract wallet: one step per operation, computed from one
row, with its audit row. That row is the current one as long as no two operations
of the tenant overlapped; once they did (`raced`), it may be any row the wallet has
had (`former`), for the read of `wallet.go` locks nothing. **Wallet** is `wallet.go`
as PostgreSQL runs it:

| Action | Code |
|---|---|
| `BeginRecharge` | `db.Transaction` and the count of the year's recharges (53-61) |
| `BeginReserve` | `Create` has inserted the batch and calls `Reserve` |
| `BeginSettle` | a worker calls `SettleItem`, once per item |
| `LoadRow` | the read of the row, 64, 98, 138 |
| `CommitRow` | save of the row computed from the copy, audit row, commit |
| `Rollback` | any error, too small a balance, a lost connection |

The code means to lock the row: `tx.Set("gorm:query_option", "FOR UPDATE")`. That is
an option of GORM v1; the GORM of `go.mod` (`gorm.io/gorm` v1.25) reads
`clause.Locking` and ignores it. So the SELECT is a plain one at READ COMMITTED, any
number of transactions may hold a copy, and each saves all columns of the row. That
is what is modelled, and all that is modelled: there is no variant with a lock.
`raced` and `former` are history; a tenant is `raced` from the moment a transaction
reads its row while another has read it and not ended.

**Commission** holds the two pure operators; **CommissionSplit** the two loops
that use them (`Create` sums and takes the commission, `Execute` divides it).

**Disbursement** is the core: batches, items, requests in progress, Redis, workers,
scheduler and faults, for one tenant.

| Action | Code |
|---|---|
| `Create` | its database transaction, but for the wallet row |
| `ReadToValidate`, `SaveValidated` | `Validate` up to its last check (156-179), then the save of the copy (181-188) |
| `ReadToExecute`, `SaveProcessing`, `EnqueueJob` | `Execute`: read and checks, save of the copy, one LPUSH of the pipeline |
| `PopJob` | BRPOP |
| `CallGateway` | `Send` or `CheckStatus` and the branch on the answer (`Answers` has what the gateway can say) |
| `FinishItem`, `SettleItem`, `NotifyIfBatchDone` | the three statements of `process` after a definitive answer; of the second, the call and its arguments |
| `MarkRetrying`, `ScheduleRetry` | `scheduleRetry`: `RetryItem`, then ZADD |
| `FetchDue`, `PushDue`, `RemoveDue` | a tick of the scheduler; which members are due is arbitrary |
| `WorkerFails`, `EnqueueFails`, `SchedulerFails`, `Crash` | an error in `process`, in either pipeline, the end of the process |

It has no balances. Which wallet operations are called, for which item and with
which amounts, is its subject; what overlapping calls do to the row is the subject of
`Wallet`. The two meet in what one assumes of the other. `Wallet` lets a worker settle
an item once (`BeginSettle`), with a share such that the shares of a batch add up to
what was reserved (`ProvisionAssumption`). `Disbursement` keeps that: `PayoutKept` (an
item is settled once, the way its verdict says) and `SettledWithinProvision` (with the
amounts and shares that were reserved), under the conditions of section 4.
Whether a reservation succeeds is not asked in `Disbursement`: a `Create` that is
refused leaves nothing, which is a `Create` that did not happen.

**Payout** is what the tenant is promised, without requests, jobs and retries:
open, approve, launch, one verdict per item, last verdict closes the batch, each
item is settled once, the way its verdict says. `Disbursement` is checked to
implement it (`PayoutKept`) with the refinement mapping at the end of that module.

**GatewayAnswers** has how the gateways read what operators reply, per operator and
call; `Disbursement` draws its answers from it. **Gateway** adds the operator's own
books: each request of an item is a transfer there, `sent` and not arrived, waiting,
paid or refused.

| Action | Code |
|---|---|
| `Send`, `Answered`, `Unheard` | `Send` of either gateway: the request goes out; its reply is read, or an error is all there is |
| `NotSent` | no token from Orange: nothing goes out |
| `CheckStatus` | Orange's, which asks nobody; Moov's search by the job's reference |
| `Conclude` (in the four above) | `process` from the answer on: success, another attempt, or failed |
| `Operator` | outside the code: a request arrives, perhaps long after the worker gave up; a transfer that waits is decided |

What an operator replies to a transfer in a given state (`OrangeSays`, `MoovTakes`,
`MoovFinds`) is external, taken from the words and codes `gateway.go` distinguishes;
a repeated request may become a second payment, since Orange's request carries nothing
to recognise it by and what Moov does with a request-id it knows is not in the code.
Every job survives here: lost jobs are a matter of `Disbursement`.

**Onboarding** is one dossier: the tenant's row, its documents and the last
history entry at the server; the requests of the administrators' pages and the
copies these hold; the tenant's upload.

| Action | Code |
|---|---|
| `Press` | a page opened or a button pressed, if the page's copy offers it (`KybOffers`, `ListOffers`, `DetailOffers`) |
| `ReadTenant`, `WriteStatus`, `RecordDecision` | the three statements of `ActivateTenant`, `SuspendTenant`, `RejectKYB` |
| `ReviewDocument`, `AddDocument`, `AddComment`, `ReadDossier` | the other handlers, one statement each |
| `Loaded`, `Decided`, `Commented`, `Refetch`, `Refetched`, `Lose` | what a page makes of an answer, or of none |
| `LoadDossier`, `Submit` | the tenant's page: `load`, `handleFileChange` |
| `Admit`, `Store`, `Requeue` | `TenantGuard`'s read, then the insertion and the last statement of `UploadMyKYBDocument` |

**Gates** is one browser: what is in localStorage, where it is, what the KYB page
shows and has asked for.

| Action | Code |
|---|---|
| `Login`, `Logout`, `Expire`, `Visit` | `handleLogin`, the two sign-outs, the 401 of `api.ts`, an address typed or reloaded |
| `Home`, `LoginPage`, `AdminLayout`, `DashboardLayout`, `KYBLayout` | the decision each page or layout takes when it mounts |
| `KYBPage`, `Poll`, `Submit`, `AnswerStatus`, `ApplyStatus` | the KYB page's requests for its status and the end of `load` |
| `ChangeStatus` | a decision on the dossier |

**Sessions** is one user in one browser with several tabs. Token pairs are
numbered in the order they are issued.

| Action | Code |
|---|---|
| `Login`, `Logout`, `Deactivate`, `ExpireAccess`, `SignOut` | the handlers, time, and the sidebar, which tells the server nothing |
| `Send`, `Serve`, `ServeAgain`, `Renew`, `Refused` | `req`: sent, answered, 401 and the shared `refreshPromise`, sent again, given up |
| `Match`, `Revoke`, `IssuePair` | the statements of `RefreshToken` |
| `Renewed`, `NotRenewed`, `LoseRenewal`, `Unanswered` | the end of `doRefresh`, if its tab is still there |

**BatchConsole** is the page "Nouveau batch" and the page of a batch.

| Action | Code |
|---|---|
| `LoadForm`, `Go`, `Pick`, `ChooseFile`, `FileRead`, `DropExtras`, `NewBatch` | the composing page between two launches, and during one |
| `Press`, `Advance`, `Refused`, `Lose` | `execute`: create, validate, execute one after the other |
| `OpenView`, `PressView`, `Show`, `Flash` | the page of a batch, by its creator or another user |
| `Create`, `ReadBatch`, `SaveBatch`, `GetBatch` | the batch service as these pages see it |
| `Finish`, `Recharge` | a launched batch ends; the wallet is credited |

`Press` sends a batch that is *fit* or not: fit is what the server's checks of content
demand (`CreateBatchRequest`, `batch.go:38-49`, and `DetectOperator`, 83): a label of 3 to
200 letters, at most 5000 lines, 100 francs or more each, numbers of a known operator.
The page checks none of these, so either can be sent, and `Create` refuses the one
that is not, as it refuses an empty batch, one above the limit and one the wallet does
not cover. Wallet operations are one step each here: what the page may notice of a
wallet is that it has less or more than it saw.

**Rosters** is the four pages that list people, in the three styles in which they
follow their requests: `patch` (administrators), `answer` (a tenant's
beneficiaries and team), `reload` (a tenant's team at the administrator's).

| Action | Code |
|---|---|
| `Load`, `Toggle`, `Delete`, `Add`, `OpenForm`, `Submit`, `Import`, `ImportRow`, `CloseImport` | the buttons, forms, the search box and the CSV import |
| `Count`, `Apply`, `List` | `hasAnotherActiveSuperAdmin`; the write; the listing |
| `Loaded`, `Done`, `Refused`, `Lose` | the page's copy after an answer, or without one |

Variables marked *history* record what a property has to except (two requests
between their read and their write, an answer that was lost) or count towards a
bound; no guard reads them but for the bounds.

The operators named `...Late`, `...Above`, `...Again` and the like, each just
before the definition it varies, are wrong versions of it, not part of the
models. They exist to show that a property notices such a fault.

### Abstractions

* Money is an unbounded integer. The commission rate is a fraction and the
  product exact; the code multiplies in float64, which can give one franc less.
  Nothing depends on that franc: provision, shares and wallet use one value.
* `Execute` saves the batch with its preloaded items; GORM then only upserts the
  items' foreign key, so the item rows are left alone by `SaveProcessing`.
* Retry delays become "any subset of the set may be due". Equal members of the
  sorted set merge, as in Redis.
* Left out: timestamps, labels, phone numbers, failure texts, log lines, the
  monitoring counters, channels and texts of notifications.
* `FinishItem` is one step: its counter is incremented by an UPDATE that locks
  the batch row until the commit, and its status read is made after it.
* One tenant with constant parameters. Changing them (`UpdateTenant`) is planned.
* Pages: wording, layout and timers of messages are left out; a document is its
  type and verdict, a line of a batch one amount (`Unit`), a person a row that is
  active, inactive or gone. Of the composing page, step 1 (a name) and the
  editing of amounts are left out: like a selection they only change the total.
  The role, the second factor and the rate limit of the batch routes
  (`routes.go:155-175`) refuse before anything is read and are left out.
* `Gates` is one tab, and what a renewal does to localStorage is in `Sessions`: that one
  in flight when the user signs out can store a pair again (`api.ts:47`) is modelled
  there, not in `Gates`.
* In `Rosters` a failed edit closes the form; on the page it stays
  open with its old copy. `EditKeepsActivation` excepts the row from then on.
* One upload of the tenant at a time; an initial load of the KYB page that fails
  is not modelled (the page then shows its error until it is opened again).
* Expiry of refresh tokens (days) is left out; access tokens expire, but not while
  requests sent again with them are under way.
* A deleted person has no session left to act with, a deactivated one neither
  (`RequireActiveUser`), so a page's requests are refused from then on.

## 3. Model checking

Every bound is a constant of the configuration: `MaxRecharges` (recharges),
`MaxFaults`, `MaxItems`, `MaxRetries` (the code's own), and in the console
`MaxDocs`, `MaxDecisions`, `MaxPresses`, `MaxLost` (lost answers), `MaxChanges`,
`MaxMoves`, `MaxLogins`, `MaxEvents`, `MaxExtras`, `MaxEdits`, `MaxLooks`. Deadlock is not
checked where the system may rightly stop: no request, no money, nothing to do.

| Run | Instance | Shows |
|---|---|---|
| `wallet_transactions` | 2 transactions at a time, 2 tenants, 2 reservations competing for one wallet, 3 items, 2 recharges (491 000 states) | `NoOverdraft`, `MoneyNeverCreated`, `TotalsNeverOverstated`, `TrailHasNoGap` whatever overlaps; `BooksMatchHolds`, `LedgerExplainsBalance` where operations took turns; `LedgerKept`, that `Wallet` implements `WalletLedger` |
| `commission_split` | up to 4 items of 5 amounts, 5 rates including 0, less than a franc per item and more than the whole (37 000) | `NothingLost`, `SharesAreFair` against the plain formula |
| `disbursement` | 1 batch of an Orange and a Moov item, 2 workers, scheduler, 3 attempts, up to two faults of a worker or the enqueueing, weak fairness (14 000) | `OneLiveJob`, `CountersMatchItems`, `SettledWithinProvision`, `RetryBudget`, `PayoutKept`, `FinalIsFinal`, `ProcessingEnds`, `ClosedIsNotified` |
| `onboarding` | all three administrators' pages, 2 requests in flight, 3 presses, 2 decisions, 2 documents, 1 loss (1 320 000) | `HistoryTellsStatus`, `SubmissionIsQueued` |
| `gates` | 2 status requests, 3 changes of status, 4 logins, expiries or typed addresses (40 000) | `ConsoleMatchesUser`, `RedirectsSettle`, `ActivatedTenantGetsIn` |
| `sessions` | 2 tabs, 3 requests (two of one tab, one that wants a code), 2 renewals, 2 logins, 2 sign-outs, expiries or lost answers (286 000) | `OneLivePerLogin`, `LogoutIsFinal`, `LiveSessionKept`, `RequestsSettle` |
| `batch_console` | 1 composing page, 1 batch page, 1 beneficiary and up to 2 imported lines, a wallet for two lines, a threshold below and a limit above two, 2 presses (644 000) | `PaidOncePerPress`, `DoneIsTrue`, `LaunchedOnce`, `SufficientUnlessSpent`, `PressEnds` |
| `rosters` | 2 administrators, 3 tenant rows, one page of each style, 2 requests in flight, 2 presses, 1 loss (241 000) | `AdminRemains`, `QuietPageAgrees`, `EditKeepsActivation` |
| `concurrent_faults` | 2 concurrent requests by 2 administrators, provision exactly at the threshold, 2 attempts, one fault of any kind (434 000) | `TypeOK`, `ClosedIffCounted`, `FourEyes` |
| `gateway` | one Orange and one Moov transfer, 3 attempts, requests and replies late or lost without bound (497 000) | `PaidOncePerReply`, `SuccessIsPaid`, `RefundedIfRefused` |

Why the bounds are enough: rows interfere in pairs, so two requests, two workers and
two wallet transactions show every race (a third reader of a wallet row only adds a
second lost update); batches meet only in the queue and at the workers, where two items
do as well, so `disbursement` has one batch and section 4 any number; two items are
what it takes for "not the last" and "the last"; two attempts give one retry, three give one after a
`CheckStatus`; faults act once because a second finds a state the first could
have led to. `concurrent_faults` has one item to afford the rest; what it checks
is proved for any number (section 4). In the console two requests in flight
show every crossing; two decisions are an earlier and a later one, two tabs and
two logins all that localStorage can be shared or inherited by; three changes of
status take a tenant from pending to rejected, pending again and active; two
presses are a launch and a second one after a failure. What one page does not
notice of a third party is nondeterministic, not bounded by their number.

`disbursement` has one request at a time on purpose: `OneLiveJob`,
`SettledWithinProvision` and `PayoutKept` are false with two, which is finding 2 below.
Section 4 proves them for any number of requests of which no two on one batch overlap.

What a property excepts is named in it, as narrow as TLC allows: without the
exception the run fails, because the code does have the race. So
`BooksMatchHolds` and `LedgerExplainsBalance` except a tenant whose wallet
operations overlapped (`raced`), `RefundedIfRefused` an item with a request whose
reply was not heard or a transfer still waiting, `HistoryTellsStatus` an upload that
read the tenant before the last decision and decisions that overlapped, `OneLivePerLogin` renewals that found one
token live together, `LiveSessionKept` a renewal by another tab and leftovers of an earlier
session, `LaunchedOnce` two requests between their read and their save,
`AdminRemains` two removals counted together, `QuietPageAgrees` rows about which
requests of the page crossed or another page wrote (while an import dialog is
open those are kept apart in `late`, since closing it lists the imported rows as
they were created). Each of these is a hazard in
`PROJECT.json`.

**Fairness** (`FairSpec`) is weak, for each request in progress, each worker and
the scheduler: goroutines that are not blocked run. No user is obliged to do
anything, and no operator to answer "success": the retry budget is what ends an
item. Liveness is stated "unless something breaks" because the code has no
recovery (see the known differences).
In `Gates` it is weak for the layouts (effects run when mounted), the KYB page's
interval and the answers to its requests; in `Sessions` for the requests and
renewals under way; in `BatchConsole` for each request served and heard. Nobody
has to press anything; a request that is lost ends with an error, as `fetch`
does. `ActivatedTenantGetsIn` excepts a status answer that is neither pending nor
active: the page stops polling on it, which is what the code says (`kyb/page.tsx:76`).

### Findings: runs that end in a violation

1. `wallet_lost_update`: two transactions read one wallet row and save it whole, the
   second over the first (`wallet.go:64`, where the lock asked for is none, against the
   comment at 63).
2. `two_executes`: two concurrent `Execute` enqueue all items twice and the
   batch's commission is settled twice (`batch.go:200` against 193).

Known differences that no run repeats, as they follow at once from the models:

* Two recharges can get one reference, as nothing protects the count it is made of
  (`wallet.go:53` against the comment at 41-43).
* Two reservations that read one balance can both pass the test of `wallet.go:103`: 300
  francs can then stand behind reservations of 355, of which the row shows only the one
  saved last (`models.go:180` takes its balance for what is left).
* Moov's search asks for the `trans-id` of the reply (`gateway.go:635`), where the
  comment at 536-537 speaks of the `request-id` sent: a transfer whose reply was not heard
  cannot be searched for, and `Send` is repeated.
* A transfer still pending at the last attempt is closed as failed and refunded, though
  it may be paid yet (`disbursement.go:195`).
* After a failed pipeline the batch stays in processing for ever; the recovery
  worker of the comment at `batch.go:252-253` does not exist.
* An error between `FinishItem` and `SettleItem` leaves a failed item without its
  refund (`disbursement.go:206` against `README.md:175`).
* `README.md:167-168` says executing takes the commission; the code takes it item
  by item from paid items only, as its own comment (`batch.go:214`) says.
* The comment at `batch.go:153` asks for a second approver *above* the threshold,
  the code and `README.md` *from* it on.
* "Relancer les échecs" on a failed batch asks for an execution, which `Execute`
  always refuses since the batch is not validated (`batches/[id]/page.tsx:94`):
  in `BatchConsole` a `retry` is refused in every state.
* Signing out in the console calls no server: the refresh token stays live until
  it expires (`Sidebar.tsx:54`, `SignOut`); `Logout` has no caller.
* A refused KYB document stays in the list when another is sent: `every()` is not true
  again, and the dossier page does not offer the activation (`kyb/[id]/page.tsx:122`).
* `Confirm2FA` checks a code against the secret it read and then writes only the switch;
  a `Setup2FA` in between has stored another secret (`handlers.go:393` against 328). A
  wrong code is answered 401, which `api.ts:72-90` takes for an expired session: it
  renews, sends again and signs the user out (`handlers.go:389`).
* A batch composed after "Nouveau batch" starts with the imported lines of the
  one before (`new/page.tsx:120`, `NewBatch`).

## 4. Proofs

Assumptions on the constants are `LedgerAssumption`, `ProvisionAssumption`, `SplitAssumption` and `DisbursementAssumption`, and for the
console `CallsOfTabs`, `FiniteCalls`, `BoundsNatural` (in `Sessions` and
`BatchConsole`), `GatewayAssumption`, `RowsOfPeople`, `PagesOfPeople`, `AmountsNatural`,
`FlowsAreNotViews`, `DirectoryFinite`, `PagesKnown`, `TypesExist`. They say that there are finitely many items, each in one batch at
one place, that sets are disjoint from their "none" values, amounts are positive and
the rate's denominator is not zero; that a batch of the wallet model reserves what
its items will take, which is `CommissionIsExact`; that a request belongs to a tab
and there are finitely many; that an administrator is present at first and a page
has a style and an operator; that the composing page and the page of a batch make
different requests and the directory is finite; that there is a type of document. TLC evaluates all of them.

**Sums** (`MoneyLemmas`). The models sum over items with the folds of the community
modules. The library's induction theorems cannot be instantiated by the provers
installed, so `MoneyLemmas` restates induction on naturals and on the subsets of a
finite set about *sets* of numbers and of sets, which they can use, and derives from
it that the fold has the recursion equation of a sum whichever element is taken
first. `SumInsert`, `SumUpdate`, `SumUnion`, `SumReindex` and the lemmas on the
rounded shares are what the proofs about money cite.

**Wallet** (`MoneyProofs`, first half), for any transactions, tenants, batches and
items, with reads that lock nothing.

* `WalletTypes`, `NoOverdraftHolds`, `MoneyNeverCreatedHolds`, whatever overlaps. A
  commit writes what was read, perhaps long ago, so neither property is inductive over
  the row. `FormerSound` says of *every* row the wallet has had that it is solvent and
  accounts for no more than was paid in, and `CopiesKnown` that a copy is one of them.
* `LedgerAlwaysKept`: `Wallet` implements `WalletLedger`. A commit is the abstract
  operation on the row that was read, `Overlap` the moment a second copy is taken,
  everything else a stutter. The invariant `Claims` is what the operation's guard needs
  at the commit: a batch being reserved by one transaction is reserved by no other, and
  an item being settled is the transaction's own.
* `TotalsNeverOverstatedHolds`: `Bounded`, again of every row the wallet has had.
* `TrailNeverBroken`: `NoGap`, the balance of every row the wallet has had is 0 or the
  end of an audit row.
* `BooksAlwaysMatch`, `LedgerAlwaysExplains`, for the tenants whose operations never
  overlapped. `TurnsFresh` says that then a copy equals the row; each operation moves
  one item, or the items of one batch, from one of the sets summed over to another, and
  `Chain`, an invariant over the audit rows up to any position, is extended by one.
  That operations take turns is the condition, not something the code sees to: the run
  `wallet_lost_update` shows what they are without it.

**Commission** (`MoneyProofs`, from `LoopInv` on), for any amounts, rate and number of items.
`SplitTypes`; `CommissionIsExact`, where the loop invariant adds that an item is left
while the loop runs, so the last one comes and takes the rest; `SharesAlwaysFair`,
where the invariant adds that what has been allocated is the sum of the floors, so
the cap of the code never cuts a share, and that a sum of floors is below the floor of
the sum by less than one per item.

**Disbursement with all its races** (`DisbursementProofs`, first half), for any number of batches,
items, users, overlapping requests, workers and faults.

* `TypesHold`, `ClosedIffCountedHolds`, `FourEyesHolds`. The invariant `IInv` has a part for each group of variables. Two
  are why it is needed. `CallOK` says what the stale copies still can do: a copy to
  be saved as validated was a draft, so its counters are below the number of items,
  and its user may approve it; a copy to be executed was validated, hence approved.
  `LaunchedJob` says that every job about belongs to a batch past draft, and
  `StaysLaunched` that no step takes a batch back there: so `FinishItem` counts in a
  row that is open, and `Counted` goes over to terminal exactly at the last item.
* `SharesHold`: every job, in the list, in the retry set, in a worker's hands or yet
  to be pushed, carries the share its item is due. `SettlementsCarryShares` has it of
  every settlement made, however often an item is settled.

**Disbursement in order** (`DisbursementProofs`, from `TakeTurns` on). The run `two_executes` shows that
overlapping requests break what follows, and a crash between the two commands of
`PushDue` and `RemoveDue` leaves a job twice. So these theorems assume `[]TakeTurns`,
that no two requests on *the same* batch are in progress together, and `NoTornMoves`,
that neither the scheduler's pipeline nor the process stops halfway. The code ensures
neither; these are the conditions under which it keeps its promise. Different batches,
any workers, their failures, lost jobs and broken enqueueing still interleave freely.

* `OneLiveJobHolds`. A count of jobs is hard to induct on, so `Orderly` says where the
  job of an item is: it is owed by a request, in the list, in the retry set, in a
  worker's hands or settled, and `Exclusive` that it is in one of them only, once. Each
  action moves one job from one place to the next.
* `RetriesWithinBudget`: the job at hand carries the attempts of its item (`Fits`),
  so the comparison of the worker, which is on the job, bounds the item.
* `CountersAlwaysMatch`, `FinalStaysFinal`: a finished item has no job left to finish
  it again, so each verdict is counted once and nothing that is final is written.
* `SettledWithinProvisionHolds`: an item is settled at most once (`Orderly`), with its
  share (`SettlementsCarryShares`), and the shares add up to the commission, so what the
  settlements of a batch take is at most its provision, and all of it with the last.
* `PayoutImplemented`: each step of `Disbursement` is a step of `Payout` or a stutter
  under the refinement mapping of the run.

**Console**, each for any number of requests, tabs, rows and pages.

* `GatesTypes`, `ConsoleIsTheUsers` (`GatesProofs`). The property speaks of the page
  shown. The invariant `Admitted` adds that a token in localStorage comes with the
  role of the user who signed in, and that a page shown with a token was entered by
  its role. A role left behind by an expired session is harmless because no token is
  left with it.
* `LogoutEnds` (`SessionsProofs`). The invariant `Final` adds that after a `Logout` no
  renewal stands between its search and its new pair either, so that the next one
  finds its token revoked and no pair is issued; a `Login` begins a new count.
* `OneTokenPerLogin`. Renewals between search and new pair are tokens to come, so
  `Bounded` counts them with the live tokens that no renewal has found yet: a renewal
  that finds an unclaimed token takes its place in the count, one that finds a claimed
  one is a fork, which the property excepts.
* `SessionAlwaysKept`. `WaitersHeard` says that a request waiting for a renewal waits
  for one that is under way; `Undisturbed` that unless the run is excused there is one
  renewal at most, the token it presents or brings is live, and every request sent
  again carries a live access token. So a 401 after a renewal, and a refused renewal,
  do not come about.
* `AdministratorRemains` (`RostersProofs`). The invariant `Safe` adds, as long as no
  two removals were counted together, that at most one is counted and not yet written,
  and that an administrator other than its row is active: so the write leaves one.
* `PagesAgree`. Every action has one of eight shapes (`StepShapes`): a request is sent,
  moves on, writes or ends, a page loads, a form or an import opens or closes. Over
  these the invariant `Agreement` is kept: `Newborn` (a row to be created is unseen
  and one request's own), `Windows` and `Uploads` (rows of an open import dialog are
  created, to be created or written elsewhere), `LoadsAgree` (an answer under way tells
  what the table holds, but for the rows it will blur) and `ListsAgree` (what a page
  shows, once the answers it awaits are applied, is the table). The last two are the
  property read forwards.
* `EditsKeepActivation`: `FormsAgree` carries the same agreement from the page's copy
  into the form, and from the form into the edit under way.
* `OneLaunch` (`BatchConsoleProofs`). As long as no two requests were between their
  read and their save, `OnceEach` says that at most one is there, that the batch still
  has the status it read, and that a draft or validated batch was not launched; so the
  one that launches finds it so.
* `DoneHolds`, `SufficiencyHolds`. `Steady` follows a launch: it is the page's only
  one, it has the lines the page showed unless these were edited, its provision was
  within the wallet the page knew, and its requests are about the batch its creation
  made. With that a creation that the page thought affordable and that passes the
  server's checks of content is refused only by a wallet with less than the page saw.
* `OnePayment`. Cardinalities are not inductive on their own: `PaidSoFar` allows a
  composition no batch of its own beyond the launches unheard of, and one more once a
  launch was heard of or its answer is on the way (`Heard`); what is answered is then
  either heard, so that the composition is over, or lost, so that it is counted.
* `HistoryAlwaysTells` (`OnboardingProofs`). The property speaks of the moment after a
  decision is recorded, so `WrittenShows` says the same of one that is written and not
  yet recorded, and `Apart` that of two decisions in progress neither passes for alone,
  so a second write cannot upset the first. `AnswersRejection` says what the requeue of
  an upload needs: if no decision was written since the tenant was read for it, the
  prospect it read is what the last decision made, whether recorded or not.
* `SubmissionsAlwaysQueued`. Made inductive by its reason, `Waiting`: a prospect has such
  a document only while the upload that stored it is about to requeue, which it will
  because the guard read a prospect (`GuardSaw`). `Numbered` keeps documents from
  answering decisions to come.
* `RostersTypes`, `SessionsTypes` and `ConsoleTypes` state the types these rest on.

The proof attempts corrected the model of the lists twice. `QuietPageAgrees` was false,
beyond the presses TLC can afford, of a row imported, deleted elsewhere, and listed
again by closing the dialog: the import now keeps such rows in `late`. And two arms of
the case that follows an answer overlapped for an added row the page does not show; TLC
took the first, the prover could take either.

Only model-checked: `Gateway` and its three properties; liveness and everything that rests on fairness (`ProcessingEnds`,
`ClosedIsNotified`, `RequestsSettle`, `RedirectsSettle`, `ActivatedTenantGetsIn`,
`PressEnds`), which is out of the prover's reach. Every other safety property a passing run checks is
a theorem, those of the disbursement in order under the two conditions above.

## 5. Plan

Done: the wallet, the commission, the disbursement, their abstract
specifications; the gateways against the operators' books; onboarding, gates, sessions,
the batch pages, the lists of people; the proofs above. Next, in this order:

1. `UpdateTenant`: commission rate, threshold and limit changing between `Create`,
   `Validate` and `Execute`.
2. The enrolment of the second factor, with two tabs setting it up and confirming.
3. The TOTP mark of used codes and the fixed window of the rate limiter; both small.
4. The invariants of `Gateway` as theorems.

## Not modelled

Mail and notification texts, HTTP parsing, PIN encryption, migrations, deployment
scripts, 2FA enrolment, statistics, the wallet and monitoring pages and the
settings pages: I/O, presentation or a single form over a single row. The layout
of every page is abstracted to which button it offers in which state.
