# A verification project for launlog-api

launlog-api is the HTTP API of a laundry chain: a Go service (echo, pgx) over one
PostgreSQL database. A *business* has *outlets*; its users are owners (`ADMIN`)
and staff (`LAUNDRY_STAFF`, assigned to outlets). They take in orders, move them
through a workflow, record and void payments, keep expenses and print receipts.
A separate platform administrator manages businesses and may open audited
*support sessions* into one.

The process keeps no business state of its own. Everything that can go wrong
between two requests goes wrong in the database: handlers run concurrently, one
READ COMMITTED transaction per call, on one or more instances of the service, and
only row locks, one advisory lock and unique indexes order them. This project
models those transactions, checks them with TLC on small instances, and proves
the most important results for every instance with TLAPS.

## 1. Inventory

For each component: its state, its operations, what is hard about it, and what
makes it correct. The list with source paths is in `PROJECT.json`, as are the
hazards, each at its line.

| Component | State | Operations | What is hard | Correct means |
|---|---|---|---|---|
| **Order workflow and status history** (`internal/service/orders.go`) | `orders`, `order_status_history` | `TransitionStatus`, `Cancel`, `StatusHistory` | two users act on one order at once; the actor is deactivated or reassigned after the middleware looked; `now()` is fixed at BEGIN, the lock comes later | the history is the path the order took; only someone with authority *at that moment* moves it |
| **Payment ledger** (`internal/service/payments.go`) | `payments`, `orders.payment_status` | `Record`, `Void`, `List` | read the total, compute the balance, insert: three statements; retries of a key; payment against cancellation | receipts never exceed the total, the status agrees with them, retries agree, receipts are permanent |
| **Order intake** (`OrderCatalog.Create`) | `orders`, `order_items`, `invoice_counters` | `Create` | the longest chain of locks of the program; retries; midnight; catalogs rewritten under it | gapless invoice numbers per outlet and day, one order per key, an order holds what was on offer |
| **Outlets, staff, permissions** (`internal/handlers/management.go`) | `users`, `user_outlets`, `user_permissions`, `outlets` | create/update outlet and staff, replace outlets, replace permissions | two owners at once; an outlet closed while staff are assigned to it | a last active owner; every active staff member has an open outlet |
| **Tenant sessions** (`internal/handlers/auth.go`) | `session_families`, `refresh_tokens` | `Login`, `Refresh`, `Logout`, registration | a refresh token used twice; rotation against logout, containment and deactivation of the business | one live token per family; a replay or a revocation ends the whole family |
| **Platform authentication** (`internal/handlers/platform_auth.go`, `cmd/platform-bootstrap`) | platform tables of the same shape | bootstrap, login, refresh, logout | as above; bootstrap run twice at once | one administrator; as above |
| **Platform tenants and support** (`internal/service/platform_tenants.go`) | `businesses.is_active`, support requests and sessions | activate, request, start, operate, end, revoke, views | an operation runs while its session ends or expires | nothing is read or written for an ended or revoked session, nothing that is over revives |
| **Outlet codes** | `business_outlet_counters` | next code | two outlets created at once, one rolled back | codes count up without a gap |
| **Onboarding, owner registration** | businesses, owners, first outlet, session | register, provision | several inserts that must be all or none | a business has an owner and an outlet |
| **Expenses** (`internal/handlers/expenses.go`) | `expenses`, `expense_categories` | create and update, under `If-Match` for expenses | lost updates; the category, the outlet, the assignment or the user switched off meanwhile | an edit replaces what its author had read, by whoever may make it at that moment |
| **Receipts and templates** (`internal/handlers/receipts.go`) | `receipt_templates` | create, update, delete, render | two templates become the default at once; the default is deleted | one default per outlet at most, the oldest template left when it is deleted |
| **Perfume and service catalogs** (`internal/service/perfumes.go`, `services.go`) | `perfumes` (versioned), `services` | create, update, soft deletion | names that meet while one of them is uncommitted; the owner and a support session edit one perfume | names are unique among live entries, audit rows tell what happened |
| **Customers** (`internal/handlers/customers.go`) | `customers` | create, update, deactivation | a deletion while an order is taken in | deletion is final |
| **Paged listings** (all `List`, `Count` and `Get` handlers) | none | pages by `LIMIT` and `OFFSET`, counts | rows are written between two pages | a walk to the last page misses nothing that was there and stayed |
| **Dashboard and reports** (`reports.sql`) | none | aggregates, one statement each | days of Asia/Jakarta, transactions across midnight | the sums agree with each other; a day that is over gains nothing |
| **Authentication rate limiter** (`internal/middleware/auth_limits.go`) | an in-memory table of windows | allow | the table at its limit | never more than the limit per window |
| **Tokens, passwords, configuration** | none | | | |
| **Server wiring, connection** | pool | routes, shutdown | | |
| **Generated API code** | none, not called | | | |

How they interact. Every tenant request passes `middleware/auth.go`, which reads
user, role, outlets and permissions *outside* the transaction of the handler: all
of it may be stale when the handler acts. Order intake, the workflow and the
ledger therefore lock outlet, user or assignment rows again themselves; the
writers of those rows are the management handlers. The workflow and the ledger
share the `orders` row: `Cancel` decides on `payment_status`, which `Record` and
`Void` keep. Intake shares catalog rows with the catalog handlers and outlets with
management. Deactivation of a business by the platform revokes session families
that login and refresh create. There are no messages and no background jobs; the
only callbacks are the deferred `tx.Rollback` calls.

## 2. How the project is laid out

| Part of the system | Detailed module | Abstract specification it implements | Instance for TLC | Proofs |
|---|---|---|---|---|
| workflow, ledger | `OrderLedger` | `OrderAccount` | `MCOrderLedger` | `OrderLedgerProofs` |
| status history | `OrderHistory` (extends `OrderLedger`) | | `MCOrderLedger` | |
| order intake | `OrderIntake` | `InvoiceBook` | `MCOrderIntake` | `OrderIntakeProofs` |
| outlets, staff, permissions, outlet codes | `StaffManagement` | `StaffRoster` | `MCStaffManagement` | `StaffManagementProofs` |
| tenant sessions, middleware, activation | `TenantSessions` | `RefreshLineage` | `MCTenantSessions` | `TenantSessionsProofs` |
| platform sessions, bootstrap | `PlatformSessions` | `RefreshLineage` | `MCPlatformSessions` | `PlatformSessionsProofs` |
| support access | `SupportAccess` | | `MCSupportAccess` | `SupportAccessProofs` |
| perfumes, services, customers | `Catalogs`, in `BackOffice` | `LiveCatalog` | `MCBackOffice` | `BackOfficeProofs` |
| expenses | `ExpenseBook`, in `BackOffice` | `ExpenseRecord` | `MCBackOffice` | `BackOfficeProofs` |
| receipt templates | `ReceiptTemplates`, in `BackOffice` | `DefaultTemplate` | `MCBackOffice` | `BackOfficeProofs` |
| listings | `Listings`, in `BackOffice` | | `MCBackOffice` | `BackOfficeProofs` |
| dashboard, reports, amounts of receipts | `OutletReports`, in `BackOffice` | | `MCBackOffice` | `BackOfficeProofs` |
| onboarding | `Onboarding`, in `BackOffice` | | `MCBackOffice` | `BackOfficeProofs` |
| rate limiter | `AuthLimiter`, in `BackOffice` | | `MCBackOffice` | `BackOfficeProofs` |

`SumTheorems` is about no component: it proves what the other proof modules need of
`sum()`, `count()` and `GROUP BY`, which the modules model with `SumFunction` and
`Cardinality`.

Components meet in rows that both lock. Each module carries, as actions of its
environment, the writes of the others that race with it, guarded by the row locks
they need there: `OrderLedger` and `OrderIntake` have the owners' writes of
`StaffManagement`, `TenantSessions` has the platform's `Activation`, `SupportAccess`
has activation, suspension, logout and the tenant's edit of a perfume. A product
of these modules is not built: what one component may do to the rows of
another is in its environment already, in any order, and the product would add
only states.

None of the seven components behind the counter writes what another one keeps: those
that list or report on tables of others have copies of these tables, whose writers are
part of their environment. `BackOffice` composes them, by `EXTENDS Onboarding` and one
named `INSTANCE` each of the others: a step of the whole is a step of one of them, and
the others rest. Their properties and the assumptions
on their constants are stated there, so that the runs and the theorems speak of the
same formulas.

What could follow: the lock modes of PostgreSQL with wait-for edges, to tell which
pairs of handlers deadlock (the models take an abort as `Rollback`, anywhere).

## 3. Modules and their correspondence to the code

`PROJECT.json` maps every definition to its lines. Names are those of the Go
methods and of the queries in `db/queries`.

All the modules of transactions cut them the same way: wherever another
transaction could tell. A step of a request is a statement that locks or decides;
the last one performs the writes and the COMMIT together, since what a READ
COMMITTED transaction writes is seen at its commit and not before (`Catalogs` and
`Onboarding`, where unique indexes make others wait for uncommitted rows, have the
rows before the commit too). `Rollback` or `HangUp` stands for every error return
without a reason of its own, a cancelled context, a lost connection, a deadlock and
a crash, at any point; the early returns with a reason are `Refuse`.

### OrderLedger

The tables are variables: `order` (a function from orders to rows with `status`,
`payment_status`, `total` and `deleted`), `history`, `payments`, and what the
management handlers write, `active`, `assigned` and `open`. `tx[r]` is the
transaction of request `r`: its phase, its decoded call, its `now()`, the order
row and the payments it has read. `acks` is a history variable: every success
`Record` reported.

The steps are BEGIN (`Begin`), the two statements of `lockLifecycleOrder`
(`LockOrder`, `LockAssignment`), the first read of `payments` (`ReadPayments`), and
the last one (`TransitionStatus`, `Cancel`, `RecordPayment`, `ReplayPayment`, `Void`).
`UpdateStaff`, `ReplaceStaffOutlets` and `UpdateOutlet` are the owners' writes that
race with it; here they are single steps that respect the row locks.

Locking follows PostgreSQL: a `FOR UPDATE` that waited re-reads the row it waited
for, so `LockOrder` sees the latest order, outlet and user; the `EXISTS` subquery on
`user_outlets` in the same statement is evaluated on the *old* snapshot, so the
model concludes nothing from it and lets the second statement decide. The
locks are held until the transaction ends.

`OrderAccount` is what workflow and ledger promise together, with no transactions:
an account advances, is cancelled while nothing is paid, is credited up to its
total and debited down to zero. `OrderLedger!Account` is the refinement mapping:
`paid` is the sum of confirmed receipts, `standing` the column `payment_status`.
`OrderHistory` adds the listing of `StatusHistory`: the rows ordered by
`(changed_at, id)`, where `changed_at` is the `now()` of the transaction.

### OrderIntake

`Create` as one transaction per request: `Begin`, `LockKey` (the advisory lock),
`LockOutlet`, `LockAssignment`, then `Replay`, a refusal or `LookUpKey`, then one
`LockCatalogRow` per customer, perfume and item, `AllocateInvoiceNumber` and
`Commit`. The environment rewrites services, perfumes and customers, deletes them,
reassigns staff, closes outlets and lets the clock run. The day of an order is the
day its transaction *began* (`GetOrderTime` returns `now()`), also when it waited
across midnight. `InvoiceBook` is what intake promises, without transactions: a book
per outlet and day, written only at its end, one entry per key and outlet.

### StaffManagement

Every management request is `Call` (what the middleware knew of its actor),
`LockActiveBusiness` and `lockOwnerContext` (the two statements of that function:
the row of the business `FOR UPDATE`, then the actor again), `Check` (the rows it is
about, with the old values of its audit row) and the commit, one action per
operation. The lock on the business orders all of them; `Activation` of the platform
needs it too. `audited` is, for each column of each user and outlet, `new_values` of
the last audit row; the old values a request read are in `tx[r].old`. Of the outlets of
a staff member these are the open ones, since `ListStaffOutletIDs` joins the outlets
that are active (`db/queries/management.sql:77-80`): a replacement also deletes the
assignments to closed outlets, and its audit row does not tell. `AuditIsChain` therefore
compares the old values with what is still open of the new values before
(`LastRecorded`); a chain without that proviso is not what the code keeps.
`StaffRoster` has the same operations in one step each, with the rules a roster has
as a whole: someone serves as administrator, nobody who stays in service is
stranded, an outlet gets the number after the last.

### TenantSessions, PlatformSessions and RefreshLineage

A family is a sequence of tokens, in the order of creation; a token is used
(`revoked_at`) and may be stale (`expires_at`). `Refresh` finds the token outside of the
transaction (`found`), locks the family if it is not revoked (`locked`), looks at the
token again (`fresh` or `replayed`), and rotates or contains; a logout locks the family
that the token in its body names; an ordinary call is admitted by the middleware
statement by statement. Clients may present any token that was ever issued, at any
time, and hang up at any point but one: containment detaches itself from the
request (`context.WithoutCancel`), so `HangUp` leaves `replayed` alone. `Activation`
switches the business off together with its families, for which it waits while they
are held, and on, for which it waits for none.

The platform's tables have the same shape and their own code; `PlatformSessions`
adds the bootstrap with its `CHECK (id = 1)` and `platformTx`, the transaction of every
privileged operation, which shares the family up to its commit. Both implement
`RefreshLineage`: a family opens with one unused token, replaces it by the next, and
once revoked never changes.

### SupportAccess

Consents (`platform_support_requests`) and sessions (`platform_support_sessions`, one per
consent), the perfume that support may edit, and everything that authority rests
on: the business trading, the owner serving, the family of the administrator, and
the clock. A request enters under its authority (`Enter`), is granted the rows it
works on (`SupportLockRequest`, `SupportLockSession`), writes, reads the clock once more
(`SupportSessionStillValid`) and commits (`SupportOperation`). Locks are shared by
operations and exclusive for what ends them; time alone runs on. That an operation
is in time is the guard of its last look at the clock and nothing more: no property
rests on it, and between that look and the commit the session may expire.

### Catalogs, ExpenseBook, ReceiptTemplates

Each request is a transaction that locks what it changes, writes it and commits it
with its audit row. `Catalogs` keeps the uncommitted rows, since an insert or a
rename waits for the transaction that holds the same key of the unique index
(`lower(name)`, with the unit for services). `ExpenseBook` locks outlet, assignment, user
and category in the order of the code and compares the version of `If-Match`;
`copy` is what each client has read. `ReceiptTemplates` locks the outlet and nothing
of the acting user, as the code does. The abstract specifications are
`LiveCatalog`, `ExpenseRecord` and `DefaultTemplate`.

### Listings, OutletReports, Onboarding, AuthLimiter

`Listings` is one walk over the pages of any of the listings, with the predicate of
its query, its order and its count, while rows are inserted, changed and removed,
staff reassigned and the clock runs. `OutletReports` has one operator per common table
expression of `GetOutletReport` and `GetOutletDashboard` over orders, payments and
expenses, and the transactions that stamp rows with the time they began.
`Onboarding` runs `createTenant` statement by statement for `Register` and
`Provision`, with `CreateStaff` of other businesses, which takes emails from the
same index. `AuthLimiter` is the table of windows behind its mutex; requests read
the clock before they have the mutex, so that one may enter with a time when its
window was not over, or no other had begun. `LimiterHolds` therefore speaks of windows
that are not over: of those a key has one at most, and through it the limit at most.
Of an arbitrary stretch as long as a window nothing of the kind holds, and the code
does not say so: windows are fixed, so twice the limit may pass around the end of
one, and a request that enters late with an old clock may open a window anew that
another has purged.

### What is abstracted

- Monetary amounts and quantities are small integers; rounding of line totals and
  the bound on the sum are kept (`MaxTotal` stands for the largest int64).
- `request_hash` is equality of payloads. Hash collisions of the advisory lock are
  left out: they make calls wait that need not.
- The unique indexes on idempotency keys and invoice numbers, and the partial index
  on the default template, are deliberately *not* modelled: the runs show that the
  locks alone suffice. Those on catalog names and emails are, since nothing else
  keeps them.
- `GetOrderForUpdate` takes its three row locks in one step. Where it could take
  some and wait for the others, the model waits for all: what the transaction
  decides on is the same. The locks of foreign keys are left out; a deadlock in
  which they take part ends, as any does, in the abort that is `Rollback`.
- Statuses that the columns allow and no code writes (`PENDING`, `REFUNDED` and the
  table `payment_refunds`) do not occur.
- Notes, names and phone numbers that no property is about, and JSON, are left out,
  and so are the audit rows of orders, payments and sessions: they are inserted in
  the same transaction and written exactly when it commits. Those of management,
  catalogs, expenses, templates and onboarding are modelled.
- `Create` does not look at `users.is_active` again, and neither does the model.
- The snapshot of the customer is taken by a trigger at insert, from a row that is
  locked; `Commit` reads the catalog at that moment.
- In `Listings` names, times, units and states are ranks 1 and 2, and a promise is
  made only while no listed row leaves or moves: such a row pulls others back onto
  pages already read, which `OFFSET` cannot help, so writing stops there.
- `OutletReports` takes the three statements of a receipt for one and leaves out who
  may see an outlet.
- `Onboarding` takes `audit_logs` and `platform_audit_logs` for one trail.

## 4. Runs

| Run | Question | Bounds | Properties |
|---|---|---|---|
| `ledger` | Do racing payments, retries, voids, transitions and cancellations keep the books right? | 2 requests, 1 order, total 0..3, 2 keys, cash and QRIS, tenders 2 and 4, 2 payments ever | `TypeOK`, `LedgerBalanced`, `CancelledHoldsNoMoney`, `RetriesAgree`, `ReadsStayCurrent`, `ReceiptsArePermanent`, `ImplementsAccount` |
| `authority` | Is authority in force whenever an order is touched? | 2 requests, owner and staff member, 2 outlets, 1 order, 1 payment, 2 clock values | `HistoryIsPath`, `AuthorityInForce` |
| `history_listing` | Is the listed history chronological? | 2 requests, 1 order, 2 clock values | `ListedInOrder`: **violated** |
| `intake_numbers` | Are numbers gapless and keys honoured, across midnight and rollbacks, and does every call end? | 2 requests, 2 keys, 2 payloads, 2 days, fairness | `NumbersGapless`, `OneOrderPerKey`, `ReadsStayCurrent`, `ImplementsBook`, `EveryCallEnds` |
| `intake_catalog` | Does an order hold what was on offer? | 1 request of an owner or a staff member that reads a service twice and a perfume, 3 offers, 2 names, 2 outlets; what two calls do to one another is the question of `intake_numbers` | `TypeOK`, `AcceptedAsOffered` |
| `staff` | Do racing owners leave a roster that is right? | 2 requests, 2 owners, 1 account to be hired, 2 outlets, all operations, activation | `OwnerRemains`, `ReadsStayCurrent`, `AuditIsChain`, `NobodyStranded`, `ImplementsRoster` |
| `staff_reactivation` | Has every active staff member an active outlet? | 1 request, owner, staff member, 1 outlet | `ActiveStaffHasOutlet`: **violated** |
| `sessions` | Does a family stay one line of descent, do revocations hold, and does a replay end it? | 2 requests, 1 family of 3 tokens, fairness | `OneLiveToken`, `ImplementsLineage`, `ReplayContained` |
| `sessions_switched_off` | Does a business that is off get no session? | 1 request, 1 family | `NoLoginWhileOff`: **violated** |
| `platform` | Is there one administrator, and does no operation outlive its session? | 2 requests, 2 families of 2 tokens | `OneAdministrator`, `PrivilegedWhileLive`, `ImplementsLineage` |
| `support` | Is every support operation covered and not blind, and is what is over over? | 2 requests, 1 consent, 2 families, 2 texts, 2 versions, 3 clock values | `OperationsCovered`, `NoBlindEdit`, `OverIsOver` |
| `back_office` | Does each component behind the counter keep its promise? | see below | `ExpensesRecorded`, `CatalogsKept`, `TemplatesServed`, `NothingMissed`, `ReportsBalance`, `ClosedDaysOnlyLose`, `TenantsWhole`, `LimiterHolds` |

Why the bounds are enough. Nearly all conflicts are between two transactions over
a row; two requests show every such pair, and each finishes and begins anew, so
sequences of calls are as long as the bounded counters allow. Total 3 with tenders 2
and 4 gives an exact payment, a partial one, change, an overpayment that is refused
and a balance of 1; two payments make a partial and a closing one. Two keys tell a
retry from a new payment. Two outlets are needed for a staff member to lose one and
keep the other. A line of 1.5 kg at a price of 1 or 3 is rounded; `MaxTotal` 7 is
exceeded by the pair of lines and by neither alone. Two days with one tick between
them put midnight before, inside and after a call. In `staff` the catalog of
permissions is empty (a list of grants is replaced by itself, and audited); the
order of rows, codes and suspensions is what the run is about. Three tokens make a
rotation of a rotation, so that a token may be replayed one and two generations
late. A consent of one or two ticks on a clock of three expires before, during and
after an operation.

`MCBackOffice` instantiates `BackOffice`. A variable says which of its components is at
work and never changes, so that their state spaces are added and not multiplied;
what a step may do besides is restricted to the bounds: expenses with two users,
one outlet, one category, two interchangeable amounts and two versions, the administrator in
service throughout; one catalog at a time, of two perfumes, two services or a customer,
with names that differ in case only and three versions; templates with two requests
about two templates, which may exchange their names, or one about three; listings of four
rows, one retired and one of another business that is there from the beginning, pages of one and two rows and one change; reports over two
orders, two payments and an expense with one transaction at a time, a day of two
ticks that begins in the middle of UTC's, which that transaction may leave; three
businesses and emails that differ in case only; a limiter of three keys, capacity 2,
limit 2 and a window of two ticks on a clock of two, where windows expire and are
purged while requests with the clock of their beginning wait. `ReportsBalance` is looked at when a
transaction has just begun, and so once for all states of the tables that differ only in what is in
progress; its theorem holds at any time.

Requests, keys, families and the amounts of expenses, which `ExpenseBook` calculates
nothing with, are interchangeable in the runs that use symmetry; no run with a liveness property uses it.

Each property has a mutant, an operator commented "A slip" next to the
definition it alters: a lock, a check or a look-up forgotten, as an edit of that
code could. Substituted for the definition it makes TLC find the property
violated.

No run disables deadlock checking: an idle request can always begin, and a
transaction can always be rolled back. (A walk of `Listings` that is over repeats its
last state.)

### Findings

`history_listing`: `order_status_history.changed_at` defaults to `now()`, the start of
the transaction. A transition that began first but waited for the order row
behind another one is listed before the transition it follows, although
`docs/api.md:56` and `api/openapi.yaml:597` call the listing chronological. The rows
themselves are right (`HistoryIsPath` holds in the order of their ids); the
order of the listing is not.

`staff_reactivation`: an active staff member "cannot be left without an active
outlet" (`docs/api.md:26`). Closing an outlet and replacing assignments see to it for
those who are active then; resuming an account does not look. Suspend, close the
last outlet, resume: an active staff member without one. The same line of
requests cannot strand anyone who stays in service (`NobodyStranded`, proved).

`sessions_switched_off`: deactivation "must invalidate effective access immediately"
(`docs/issues/issue-018-tenant-management-and-support-access.md:15`). A login that
checked the business before, and issues its session after, leaves a family that the
deactivation did not revoke. The middleware turns it away while the business is
off; once it is on again the session works.

## 5. Fairness

`FairSpec` of `OrderIntake` assumes strong fairness of `Work(r)` for each request: a
statement that can run does return, and a lock that keeps becoming free is
eventually granted. The code justifies the first by running each statement to its
end or its error within the request; PostgreSQL justifies the second by granting
heavyweight locks in the order of their queue. `FairSpec` of `TenantSessions` needs weak
fairness only: the request that detected a replay holds its lock and has one
statement to go. Nothing is assumed of `Rollback` and `HangUp`, of new calls, of the
owners' and the platform's writes or of the clock: a call must end although nobody
ever aborts it. All other runs check safety, without fairness.

## 6. Proofs

The theorems hold for any sets of requests, orders, outlets, users, families, keys,
goods, consents and texts, and for any bounds.

| Module | Theorem | Statement |
|---|---|---|
| `OrderLedgerProofs` | `TypeCorrect` | `Spec => []TypeOK` |
| | `ReadsCurrent` | `Spec => []ReadsStayCurrent` |
| | `AuthorityAlwaysInForce` | `Spec => AuthorityInForce` |
| | `LedgerStaysBalanced` | `Spec => []LedgerBalanced` |
| | `NothingPaidOnCancelled` | `Spec => []CancelledHoldsNoMoney` |
| | `ReceiptsStay` | `Spec => ReceiptsArePermanent` |
| | `RetriesAlwaysAgree` | `Spec => []RetriesAgree` |
| | `HistoryStaysPath` | `Spec => []HistoryIsPath` |
| | `LedgerImplementsAccount` | `Spec => ImplementsAccount` |
| `OrderIntakeProofs` | `TypeCorrect` | `Spec => []TypeOK` |
| | `ReadsCurrent` | `Spec => []ReadsStayCurrent` |
| | `NumbersAlwaysGapless` | `Spec => []NumbersGapless` |
| | `OneOrderForEveryKey` | `Spec => []OneOrderPerKey` |
| | `OrdersAsOffered` | `Spec => AcceptedAsOffered` |
| | `IntakeImplementsBook` | `Spec => ImplementsBook` |
| `StaffManagementProofs` | `TypeCorrect` | `Spec => []TypeOK` |
| | `HolderIsCurrent` | `Spec => []ReadsStayCurrent` |
| | `AnOwnerRemains` | `Spec => []OwnerRemains` |
| | `NobodyIsStranded` | `Spec => NobodyStranded` |
| | `AuditHasNoGap` | `Spec => AuditIsChain` |
| | `RequestsImplementRoster` | `Spec => ImplementsRoster` |
| `TenantSessionsProofs` | `TypeCorrect`, `HolderIsCurrent` | `Spec => []TypeOK`, `Spec => []ReadsStayCurrent` |
| | `OnlyTheLastLives` | `Spec => []OneLiveToken` |
| | `SessionsImplementLineage` | `Spec => ImplementsLineage` |
| `PlatformSessionsProofs` | `TypeCorrect`, `OnlyTheLastLives` | `Spec => []TypeOK`, `Spec => []OneLiveToken` |
| | `OneIsBootstrapped` | `Spec => []OneAdministrator` |
| | `OperationsArePrivileged` | `Spec => []PrivilegedWhileLive` |
| | `SessionsImplementLineage` | `Spec => ImplementsLineage` |
| `SupportAccessProofs` | `TypeCorrect` | `Spec => []TypeOK` |
| | `OperationsAreCovered` | `Spec => []OperationsCovered` |
| | `EditsAreSeen` | `Spec => []NoBlindEdit` |
| | `WhatIsOverStaysOver` | `Spec => OverIsOver` |
| `BackOfficeProofs` | `ExpensesAlwaysRecorded` | `BackOfficeSpec => ExpensesRecorded` |
| | `CatalogsAlwaysKept` | `BackOfficeSpec => CatalogsKept` |
| | `TemplatesAlwaysServed` | `BackOfficeSpec => TemplatesServed` |
| | `NothingIsMissed` | `BackOfficeSpec => []NothingMissed` |
| | `ClosedDaysAlwaysOnlyLose` | `BackOfficeSpec => ClosedDaysOnlyLose` |
| | `ReportsStaySound` | `BackOfficeSpec => [](ReportTypes /\ ReportSound)` |
| | `ReportsAlwaysBalance` | `BackOfficeSpec => [](Reports!Balances /\ ReportsBalance)` |
| | `LimiterAlwaysHolds` | `BackOfficeSpec => []LimiterHolds` |
| | `TenantsTypeCorrect`, `EmailsAreUnique` | `BackOfficeSpec => []TenantTypes`, `BackOfficeSpec => []OneEach` |
| | `TenantsAlwaysWhole` | `BackOfficeSpec => []TenantsWhole` |
| `SumTheorems` | `SumWithout` | a sum may be begun with any of its elements |
| | `SumOfGroups` | a sum is the sum of the sums of its groups |

The argument is the same in all of them. What a step writes is computed from rows
that were read some steps before, so no invariant on the tables is inductive by
itself. What makes the step right is that those rows cannot have changed: an
invariant about the transactions (`ReadsStayCurrent`, or `Current` of the proof
modules) says what each of them counts on from each phase on, and that two of them
do not hold the same row. With a type invariant it is inductive, because every
action that writes a row either is the holder's own last step or is kept out by the
lock; the results about the tables follow from it.

In `OrderLedger` a transaction that holds its locks has read the order row, the
receipts, the user, the outlet and the assignment as they still are, and
`RowsFree`, `UserLocked` and `OutletLocked` keep the others out. `AuthorityInForce` follows
for each step. `LedgerInv` adds to the two invariants on money that receipts have ids
of their own and positive amounts and that no payment is computed for a cancelled
order; the sum over receipts then changes by exactly the receipt added or voided
(`SumsOfEntries`), which makes each commit the step of `OrderAccount` that its operation promises.
`RetriesInv` ties what was reported to the receipts: a key names one receipt of an
order, and each report agrees with the receipt of its key, also after it is voided.
The history is a path because who appends to it holds the order whose status is the
last row's.

In `OrderIntake` a call past each lock finds the outlet open, its user assigned, its
key still new, every row it copied active and unchanged and, once it took it, the
counter at its number; and no two calls hold one key or one counter. With a type
invariant (`Shape` of the proof module) this is inductive. `Commit` is the only step
that makes an order, and the results, that it is the step of `InvoiceBook` among
them, are what it does under that invariant. `TypeCorrect` adds that the total of an
order is a number that an int64 holds. The total of its items is a recursive function of their
position; that each value of it is a number follows without induction, since the
least position where it were none would have a predecessor (`<` on the naturals is
well-founded).

In `StaffManagement` one request holds the business and what it checked is still so;
with it go the audit rows (the last one about a column carries its value, or the
outlets a user was given, open or not, which makes the next one's old value right) and the codes (the counter is the highest
code, so that the next is the number after the last). The refinement is then one
lemma per operation: the commit is the step of `StaffRoster`, everything else a
stutter.

In the two modules of sessions, who locked a family is alone in it, those who share
it included, and the family is not revoked under them. The unused tokens of a
family are then always its last one: `Rotate` is the only step that appends, holds
the family and found its token unused, hence last. That makes the steps of
`RefreshLineage` of them. The bootstrap needs that a row which is inserted and not
committed keeps every other out while no administrator is there.

In `SupportAccess` an operation that was granted its rows shares the consent, the
session, the owner and the family, so that whatever would take them away waits; a
start holds its consent alone. For the edit one more fact is needed, that a version
is given to one text only: a client's copy is never ahead of the perfume and, at
the same version, is the perfume.

In `BackOffice` each component has an inductive invariant of its own, which the steps of
the others leave alone.

- Expenses (`ExpenseInv`): from its locks on, a request's user serves, its outlet is open, its expense
  is the one it read (`Entering`, `Amending`), from the lock of the category on that is in use
  (`Filing`), and `DesksApart` keeps others off the rows. That an author had read what
  the edit replaces needs one more fact: a client's copy is the expense or has a
  lower version (`CopiesAreOld`), and the edit carries a version that its author's copy
  has reached.
- Catalogs (`CatalogInv`): what is written and not committed has the key of no live entry
  and of nothing else that is written (`OwnersApart`, `Clear`); the row that was read is held.
- Templates (`TemplateInv`): the lock on the outlet is held by one (`OneHolder`), so that what was
  decided under it, the template that was read and whether a default exists, is still so at the
  commit (`Decided`); with at most one default before it, there is at most one after (`OneDefault`).
  The oldest template left is defined by a choice; that both specifications choose the same is a
  lemma (`SameOldest`).
- Listings (`WalkInv`): a row that was listed at the beginning and not yet shown has as many
  rows before it as the pages so far have held (`StillAhead`). The order of each listing is total,
  since it ends in the id (`PrecedesIsTotal`); a page is the rows that have between so many and so
  many others before them, so that its rows are counted (`ShownAreAsMany`) and no row ahead falls between
  two pages.
- Closed days (`ReportTypes`): what is written is dated by the BEGIN of its transaction, and a
  transaction in progress keeps the day of its BEGIN open; a moment lies within a range exactly
  when its day is one of it (`WithinItsDays`, the arithmetic of `report_range` against that of
  `Day`, for any length of the day and any offset).
- Reports that agree (`ReportSound`): each table of a report is one of dated rows (`TableOf`), and
  its summary is that of the rows (`TableAddsUp`), whether they are grouped by day, by method or by
  customer; a range adds up to its days because each moment is of one day (`SummaryByDay`), and
  the empty days of the calendar add nothing (`CalendarAddsUp`). That the worth of the
  orders is what was collected, is asked for or was cancelled does not follow from the shape of
  the queries: the query never shows less than nothing as outstanding, and counts what a
  cancelled order holds as collected. It needs that no order is paid more than it
  costs and that a cancelled one holds nothing, which `Record`, `Void` and `Cancel` keep
  (`SoundRecord`, `SoundVoid`, `SoundCancel`), since each changes one payment or the state of one
  order. What was received equals what was collected because a payment's order is there
  (`AllIsTold`). The run has one transaction at a time; the theorem has any number.
- Limiter (`LimiterInv`): an entry whose window is not over counts at least what has passed in it, up
  to the limit (`Recalled`), and no entry counts more than has passed (`Earned`); no waiting request is
  ahead of the clock (`Late`), so that a purge takes no window that is not over.
- Onboarding (`TenantInv`): the rows that a transaction has written and not committed are those
  its phase says (`Wrote`); ids and emails are unique among all rows, committed or not,
  because whoever inserts one waits for the others. A commit then shows all the rows of
  one business at once, and that is why each is whole.

Sums are folds over sets in an order that nobody chose. `SumTheorems` shows that there
is such a fold for every finite set, that the order does not matter (`SumWithout`), and
from that what becomes of sums that are added (`SumOfTwo`), cut (`SumOfPart`), grouped
(`SumOfGroups`, `CountOfGroups`) or taken over other names of the same rows
(`SumRenamed`). Each would be an induction over finite sets; the provers cannot
instantiate that theorem, and the lemmas argue by the smallest set for which they would
fail (`SmallestSet`), which there is because `<` on the naturals is well-founded.

Assumptions: the named `ASSUME`s on the constants of each module, their shapes
(non-empty bounds, owners among users, names that are no user's or family's, marks of
missing rows that are no names, ids of rows that are their own, a day with a length, finite
tables for the reports, totals and payments that are not negative, no request called like the
mark of committed rows). TLC evaluates them in every run of the modules. Nothing
is assumed of `sum()`.

Only model-checked: liveness (`EveryCallEnds`, `ReplayContained`), which is out of the
prover's reach, as is ENABLED. The three properties that are violated are refuted by TLC
and need no proof.

## 7. Not modelled

- Rendering of receipts (texts, messages, QR code) and validation and search of
  text: formatting, or single statements over nothing that moves.
- Password hashing, token signing, parsing of configuration and zone names: no
  state.
- Routes, order of middleware, pool and shutdown: they only surround the handlers.
- The generated API code (`internal/api/openapi.gen.go`, 16,973 of the 31,665 lines of the
  implementation): the handlers do not call it. What the map covers is nearly all
  of the handlers, services and queries that change state; the rest of the
  unmapped lines are generated row scanning, request decoding and wiring.
- Grants of permission are modelled as rows; their use is one look by the
  middleware, and nothing promises that revoking one stops requests in progress.
- Which pairs of transactions deadlock: PostgreSQL aborts one of them, which every
  model allows everywhere.
