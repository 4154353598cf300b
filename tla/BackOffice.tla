----------------------------- MODULE BackOffice -----------------------------
(***************************************************************************)
(* The components behind the counter side by side: expenses, catalogs,     *)
(* receipt templates, listings, reports, the limiter of authentication     *)
(* and, extended here, onboarding.  Listings and reports have copies of    *)
(* the tables they read, and nobody writes what another one keeps, so that *)
(* a step of the whole is a step of one of them and the others rest.       *)
(***************************************************************************)
EXTENDS Onboarding

CONSTANTS
  Users, Admins, Outlets, Expenses, Categories, Headings, Amounts, MaxExpenseVersion,
  Perfumes, Services, Customers, Names, Units, MaxVersion,
  Templates, Titles,
  Rows, Branches, Business, PageSizes, MaxToday, MaxChanges,
  Orders, Customer, Total, Payments, Methods, Receipts, DayLength, Offset, MaxClock, MaxReportRangeDays,
  Keys, Capacity, Limit, Window, MaxTime

\* An expense is no category, and the mark of a category that is not there is no name.
ASSUME ExpenseAssumption == Expenses \cap Categories = {} /\ "none" \notin Headings

\* The limits of the limiter are positive, and there are finitely many routes and peers.
ASSUME LimiterAssumption ==
  /\ IsFiniteSet(Keys)
  /\ Capacity \in Nat /\ MaxTime \in Nat
  /\ Limit \in Nat \ {0} /\ Window \in Nat \ {0}

\* Ids of templates are positive; the marks of a row that is not there are no titles.
ASSUME TemplateAssumption ==
  /\ Templates \subseteq Nat \ {0}
  /\ "absent" \notin Titles /\ "deleted" \notin Titles

\* Rows have ids of their own; a page has at least one row.
ASSUME ListingAssumption ==
  /\ IsFiniteSet(Rows)
  /\ Rows \subseteq [id : Int, business : {r.business : r \in Rows}, outlet : Branches, name : Int,
                     unit : Int, active : BOOLEAN, deleted : BOOLEAN, at : Int, status : Int]
  /\ \A r, s \in Rows : r.id = s.id => r = s
  /\ PageSizes \subseteq Nat \ {0}

\* A day has a length, and Jakarta is not behind UTC; tables are finite, and no order and
\* no payment is of less than nothing.
ASSUME ReportAssumption ==
  /\ DayLength \in Nat \ {0} /\ Offset \in Nat /\ MaxClock \in Nat
  /\ IsFiniteSet(Orders) /\ IsFiniteSet(Payments) /\ IsFiniteSet(Expenses)
  /\ \A o \in Orders : Total[o] \in Nat
  /\ Receipts \subseteq Nat

VARIABLES
  expense, category, expenseTrail, active, assigned, open, copy, expenseTx,
  table, catalogTrail, catalogTx,
  template, templateTrail, outletOpen, serving, templateTx,
  ask, rows, reach, trading, today, changes, walk, seen, first, disturbed,
  order, payment, spending, clock, began,
  entries, time, waiting, passed

ExpenseDesk ==
  INSTANCE ExpenseBook WITH
    Names <- Headings, MaxVersion <- MaxExpenseVersion, trail <- expenseTrail, tx <- expenseTx

Catalog == INSTANCE Catalogs WITH trail <- catalogTrail, tx <- catalogTx

TemplateShelf ==
  INSTANCE ReceiptTemplates WITH
    Names <- Titles, trail <- templateTrail, open <- outletOpen, tx <- templateTx

Pages == INSTANCE Listings WITH Outlets <- Branches, table <- rows, assigned <- reach

Reports == INSTANCE OutletReports WITH Amounts <- Receipts, expense <- spending

Limiter == INSTANCE AuthLimiter

expenseVars == <<expense, category, expenseTrail, active, assigned, open, copy, expenseTx>>
catalogVars == <<table, catalogTrail, catalogTx>>
templateVars == <<template, templateTrail, outletOpen, serving, templateTx>>
listingVars == <<ask, rows, reach, trading, today, changes, walk, seen, first, disturbed>>
reportVars == <<order, payment, spending, clock, began>>
limiterVars == <<entries, time, waiting, passed>>
backOfficeVars ==
  <<expenseVars, catalogVars, templateVars, listingVars, reportVars, vars, limiterVars>>

BackOfficeInit ==
  /\ ExpenseDesk!Init /\ Catalog!Init /\ TemplateShelf!Init /\ Pages!Init /\ Reports!Init
  /\ Init /\ Limiter!Init

ExpenseStep ==
  /\ ExpenseDesk!Next
  /\ UNCHANGED <<catalogVars, templateVars, listingVars, reportVars, vars, limiterVars>>
CatalogStep ==
  /\ Catalog!Next
  /\ UNCHANGED <<expenseVars, templateVars, listingVars, reportVars, vars, limiterVars>>
TemplateStep ==
  /\ TemplateShelf!Next
  /\ UNCHANGED <<expenseVars, catalogVars, listingVars, reportVars, vars, limiterVars>>
ListingStep ==
  /\ Pages!Next
  /\ UNCHANGED <<expenseVars, catalogVars, templateVars, reportVars, vars, limiterVars>>
ReportStep ==
  /\ Reports!Next
  /\ UNCHANGED <<expenseVars, catalogVars, templateVars, listingVars, vars, limiterVars>>
TenantStep ==
  /\ Next
  /\ UNCHANGED <<expenseVars, catalogVars, templateVars, listingVars, reportVars, limiterVars>>
LimiterStep ==
  /\ Limiter!Next
  /\ UNCHANGED <<expenseVars, catalogVars, templateVars, listingVars, reportVars, vars>>

BackOfficeNext ==
  \/ ExpenseStep \/ CatalogStep \/ TemplateStep \/ ListingStep \/ ReportStep \/ TenantStep
  \/ LimiterStep

BackOfficeSpec == BackOfficeInit /\ [][BackOfficeNext]_backOfficeVars
----------------------------------------------------------------------------
(***************************************************************************)
(* Properties                                                              *)
(***************************************************************************)
\* Expenses and categories with their audit rows go through the states of ExpenseRecord:
\* an expense that is there is edited by who may, at the version that was read, in an open
\* outlet, and what was done is what the trail says (Create, Update, writeExpenseAudit).
ExpensesRecorded == ExpenseDesk!ImplementsRecord

\* What the catalog shows at each moment is a LiveCatalog: no two live entries share a
\* name, versions go up by one, each write with its audit row (perfumes, services, customers).
CatalogsKept == Catalog!ImplementsCatalog

\* Templates of an outlet go through the states of DefaultTemplate: names of their own,
\* one default at most, and another in its place when it is deleted (mutateTemplate).
TemplatesServed == TemplateShelf!ImplementsDefault

\* A client that reads a listing to its last page has seen what was listed when it began,
\* and can open each row it was shown (the List and the Get handlers, pageInfo).
NothingMissed == Pages!NothingMissed /\ Pages!ShownIsFound

\* The reports of a day that is over only lose the payments that are voided (Record, Create).
ClosedDaysOnlyLose == Reports!ClosedDaysOnlyLose

\* The reports of an outlet agree with each other and with its dashboard: days, methods,
\* orders and customers add up to the same, whatever they are counted by (GetOutletReport,
\* GetOutletDashboard, receipt).
ReportsBalance == Reports!ReportsBalance

\* Nobody has a second window before the first is over, none is refused below the limit
\* but for a full table (AuthLimiter.Middleware).
LimiterHolds == Limiter!LimiterHolds
============================================================================
