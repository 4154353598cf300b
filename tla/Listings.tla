------------------------------ MODULE Listings ------------------------------
(***************************************************************************)
(* The paged listings.  Every List handler reads a page with one statement *)
(* (LIMIT and OFFSET) and counts the rows with another; a client asks for  *)
(* page 1, 2, ... up to the totalPages of the latest answer.  Rows are     *)
(* written meanwhile, between the pages and between the two statements.    *)
(*                                                                         *)
(* Names, times, units and states of the rows are ranks, 1 or 2: nothing   *)
(* but their order and equality matters.  One kind of listing is walked at *)
(* a time.                                                                 *)
(***************************************************************************)
EXTENDS Integers, FiniteSets, Sequences

CONSTANTS
  Rows,       \* the rows that may be written, each with an id of its own
  Outlets,    \* outlets of the business
  Business,   \* the business of the tenant that asks
  PageSizes,  \* values of pageSize
  MaxToday,   \* bound on today
  MaxChanges  \* bound on the changes of rows

VARIABLES
  ask,       \* the query: kind of listing, filters and pageSize
  table,     \* the table, as committed
  assigned,  \* outlets the middleware finds assigned to the user
  trading,   \* outlets.is_active
  today,     \* the date in Asia/Jakarta
  changes,   \* how many rows were changed
  walk,      \* [page, total, phase]: what the client asks next, and what it was told
  seen,      \* ids the client has been shown
  first,     \* ids that were listed when the walk began
  disturbed  \* a listed row has left the listing, or moved in it

Ranks == 1 .. 2

vars == <<ask, table, assigned, trading, today, changes, walk, seen, first, disturbed>>
----------------------------------------------------------------------------
(***************************************************************************)
(* Requests: the query parameters each handler takes, as the set of values *)
(* that pass: all of them where a parameter is left out.                   *)
(***************************************************************************)
Plain(kind) ==
  [kind |-> kind, size |-> 1, role |-> "ADMIN", search |-> Ranks, active |-> BOOLEAN, unit |-> Ranks,
   outlets |-> Outlets, status |-> Ranks, from |-> 0, to |-> 0]
Roles == {"ADMIN", "LAUNDRY_STAFF"}

ListOutlets == {Plain("outlets")}
ListStaff == {Plain("staff")}
ListCategories ==
  {[Plain("categories") EXCEPT !.search = s, !.active = i] : s \in {Ranks, {1}}, i \in {BOOLEAN, {TRUE}}}
ListPerfumes ==
  {[Plain("perfumes") EXCEPT !.search = s, !.active = i] :
     s \in {Ranks, {1}}, i \in {BOOLEAN, {TRUE}, {FALSE}}}
ListServices ==
  {[Plain("services") EXCEPT !.unit = u, !.active = i] : u \in {Ranks, {1}}, i \in {BOOLEAN, {TRUE}}}
ListCustomers == {[Plain("customers") EXCEPT !.search = s] : s \in {Ranks, {1}}}
OrderHistory == {[Plain("history") EXCEPT !.role = r] : r \in Roles}
OrderFilter(role, outlets, status) ==
  [Plain("orders") EXCEPT !.role = role, !.outlets = outlets, !.status = status]
ListOrders ==
  {OrderFilter(r, x, s) :
     r \in Roles, x \in {Outlets} \cup {{y} : y \in Outlets}, s \in {Ranks, {1}}}
ListPayments == {Plain("payments")}
\* 0 where a bound is left out.
ListExpensesParams(role, from, to) ==
  [Plain("expenses") EXCEPT !.role = role, !.from = from, !.to = to]
ListExpenses == {ListExpensesParams(r, f, t) : r \in Roles, f \in 0 .. 1, t \in 0 .. 2}
Businesses == {[Plain("businesses") EXCEPT !.active = i] : i \in {BOOLEAN, {TRUE}}}
Views == {Plain("support requests"), Plain("support sessions"), Plain("platform audit")}
SupportOperation == {Plain("support outlets"), Plain("support perfumes")}
BusinessAudit == {Plain("business audit")}

Asks ==
  LET all == ListOutlets \cup ListStaff \cup ListCategories \cup ListPerfumes \cup ListServices
             \cup ListCustomers \cup OrderHistory \cup ListOrders \cup ListPayments
             \cup ListExpenses \cup Businesses \cup Views \cup SupportOperation \cup BusinessAudit
  IN  {[q EXCEPT !.size = n] : q \in all, n \in PageSizes}
----------------------------------------------------------------------------
(***************************************************************************)
(* The WHERE clauses, which the List and the Count query of a kind share   *)
(***************************************************************************)
Own == {r \in table : r.business = Business}
Kept == {r \in Own : ~ r.deleted}
InReach == {r \in Own : ask.role = "ADMIN" \/ r.outlet \in assigned}

OutletRows == Own
StaffRows == Own
CustomerRows == {r \in Kept : r.name \in ask.search}
CategoryRows == {r \in Own : r.name \in ask.search /\ r.active \in ask.active}
PerfumeRows == {r \in Kept : r.name \in ask.search /\ r.active \in ask.active}
ServiceRows ==
  {r \in Kept : r.name \in ask.search /\ r.unit \in ask.unit /\ r.active \in ask.active}
OrderRows == {r \in InReach : r.outlet \in ask.outlets /\ r.status \in ask.status}
\* Of one customer, of one order.
HistoryRows == InReach
PaymentRows == Own
BusinessRows == {r \in table : r.active \in ask.active}
SupportRequestRows == Own
SupportSessionRows == Own
SupportPerfumeRows == Kept
\* Of every business.
PlatformAuditRows == table
BusinessAuditRows == Own

\* A bound that is left out is the other one, both are today.
expenseDateRange ==
  CASE ask.from = 0 /\ ask.to = 0 -> <<today, today>>
    [] ask.from = 0 /\ ask.to # 0 -> <<ask.to, ask.to>>
    [] ask.from # 0 /\ ask.to = 0 -> <<ask.from, ask.from>>
    [] OTHER -> <<ask.from, ask.to>>
ExpenseRows ==
  {r \in InReach : r.outlet \in trading /\ r.at \in expenseDateRange[1] .. expenseDateRange[2]}

CountOutlets == Cardinality(OutletRows)
CountStaff == Cardinality(StaffRows)
CountCustomers == Cardinality(CustomerRows)
CountExpenseCategories == Cardinality(CategoryRows)
CountPerfumes == Cardinality(PerfumeRows)
CountServices == Cardinality(ServiceRows)
CountOrders == Cardinality(OrderRows)
CountCustomerOrderHistory == Cardinality(HistoryRows)
CountOrderPayments == Cardinality(PaymentRows)
CountExpenses == Cardinality(ExpenseRows)
PlatformCountBusinesses == Cardinality(BusinessRows)
SupportCountRequests == Cardinality(SupportRequestRows)
SupportCountSessions == Cardinality(SupportSessionRows)
SupportCountPerfumes == Cardinality(SupportPerfumeRows)
PlatformAuditCount == Cardinality(PlatformAuditRows)
BusinessAuditCount == Cardinality(BusinessAuditRows)

\* One row by its id, for those kinds that can be opened; an order with its items, and a
\* customer that was deleted for the history of its orders.
GetOutlet(id) == {r \in Own : r.id = id}
GetStaff(id) == {r \in Own : r.id = id}
GetCustomer(id) == {r \in Kept : r.id = id}
GetExpenseCategory(id) == {r \in Own : r.id = id}
GetPerfume(id) == {r \in Kept : r.id = id}
GetService(id) == {r \in Kept : r.id = id}
GetOrder(id) == {r \in InReach : r.id = id}
GetExpense(id) == {r \in InReach : r.id = id /\ r.outlet \in trading}
PlatformGetBusiness(id) == {r \in table : r.id = id}
SupportGetRequest(id) == {r \in Own : r.id = id}

Opens == {"outlets", "staff", "customers", "categories", "perfumes", "services", "orders",
          "history", "expenses", "businesses", "support requests"}
Opened(id) ==
  CASE ask.kind = "outlets" -> GetOutlet(id)
    [] ask.kind = "staff" -> GetStaff(id)
    [] ask.kind = "customers" -> GetCustomer(id)
    [] ask.kind = "categories" -> GetExpenseCategory(id)
    [] ask.kind = "perfumes" -> GetPerfume(id)
    [] ask.kind = "services" -> GetService(id)
    [] ask.kind \in {"orders", "history"} -> GetOrder(id)
    [] ask.kind = "expenses" -> GetExpense(id)
    [] ask.kind = "businesses" -> PlatformGetBusiness(id)
    [] ask.kind = "support requests" -> SupportGetRequest(id)

Listed ==
  CASE ask.kind \in {"outlets", "support outlets"} -> OutletRows
    [] ask.kind = "staff" -> StaffRows
    [] ask.kind = "customers" -> CustomerRows
    [] ask.kind = "categories" -> CategoryRows
    [] ask.kind = "perfumes" -> PerfumeRows
    [] ask.kind = "services" -> ServiceRows
    [] ask.kind = "orders" -> OrderRows
    [] ask.kind = "history" -> HistoryRows
    [] ask.kind = "payments" -> PaymentRows
    [] ask.kind = "expenses" -> ExpenseRows
    [] ask.kind = "businesses" -> BusinessRows
    [] ask.kind = "support requests" -> SupportRequestRows
    [] ask.kind = "support sessions" -> SupportSessionRows
    [] ask.kind = "support perfumes" -> SupportPerfumeRows
    [] ask.kind = "platform audit" -> PlatformAuditRows
    [] ask.kind = "business audit" -> BusinessAuditRows

Counted ==
  CASE ask.kind \in {"outlets", "support outlets"} -> CountOutlets
    [] ask.kind = "staff" -> CountStaff
    [] ask.kind = "customers" -> CountCustomers
    [] ask.kind = "categories" -> CountExpenseCategories
    [] ask.kind = "perfumes" -> CountPerfumes
    [] ask.kind = "services" -> CountServices
    [] ask.kind = "orders" -> CountOrders
    [] ask.kind = "history" -> CountCustomerOrderHistory
    [] ask.kind = "payments" -> CountOrderPayments
    [] ask.kind = "expenses" -> CountExpenses
    [] ask.kind = "businesses" -> PlatformCountBusinesses
    [] ask.kind = "support requests" -> SupportCountRequests
    [] ask.kind = "support sessions" -> SupportCountSessions
    [] ask.kind = "support perfumes" -> SupportCountPerfumes
    [] ask.kind = "platform audit" -> PlatformAuditCount
    [] ask.kind = "business audit" -> BusinessAuditCount
----------------------------------------------------------------------------
(***************************************************************************)
(* ORDER BY, LIMIT and OFFSET                                              *)
(***************************************************************************)
\* A slip: rows of equal names come as they please.
ByNameOnly(r) == <<r.name>>

ByName(r) == <<r.name, r.id>>
ByNameAndUnit(r) == <<r.name, r.unit, r.id>>
Newest(r) == <<-r.at, -r.id>>
Oldest(r) == <<r.at, r.id>>
Latest(r) == <<-r.id>>
ById(r) == <<r.id>>

Key(r) ==
  CASE ask.kind \in {"customers", "categories", "perfumes"} -> ByName(r)
    [] ask.kind = "services" -> ByNameAndUnit(r)
    [] ask.kind \in {"orders", "history", "expenses"} -> Newest(r)
    [] ask.kind = "payments" -> Oldest(r)
    [] ask.kind \in {"support requests", "support sessions", "platform audit", "business audit"} -> Latest(r)
    [] ask.kind \in {"outlets", "staff", "businesses", "support outlets", "support perfumes"} -> ById(r)

Precedes(k, l) == \E i \in DOMAIN k : k[i] < l[i] /\ \A j \in 1 .. i - 1 : k[j] = l[j]

\* The first n rows: rows with equal keys come in any order, a new one each time.
FirstRows(n) ==
  {A \in SUBSET Listed :
     /\ Cardinality(A) = IF n < Cardinality(Listed) THEN n ELSE Cardinality(Listed)
     /\ \A x \in A, y \in Listed \ A : ~ Precedes(Key(y), Key(x))}

\* The offset; one beyond int32 is refused.
pagination(page, size) == (page - 1) * size

Pages(page) ==
  LET offset == pagination(page, ask.size)
  IN  UNION {{B \ A : A \in {C \in FirstRows(offset) : C \subseteq B}} :
               B \in FirstRows(offset + ask.size)}

\* A slip: a last page that is not full is not counted.
pageInfoFull(size, total) == total \div size

\* totalPages, here and in platformPage.
pageInfo(size, total) == (total + size - 1) \div size
----------------------------------------------------------------------------
Init ==
  /\ ask \in Asks
  /\ table \in SUBSET Rows
  /\ assigned = Outlets /\ trading = Outlets
  /\ today = 1
  /\ changes = 0
  /\ walk = [page |-> 1, total |-> 0, phase |-> "list"]
  /\ seen = {}
  /\ first = {r.id : r \in Listed}
  /\ disturbed = FALSE

\* Orders of one outlet: FORBIDDEN when it is not assigned.
orderHasOutlet ==
  ask.kind = "orders" /\ ask.role # "ADMIN" => ask.outlets = Outlets \/ ask.outlets \subseteq assigned

\* The List query of the page.
ListPage ==
  /\ walk.phase = "list" /\ orderHasOutlet
  /\ \E rows \in Pages(walk.page) : seen' = seen \cup {r.id : r \in rows}
  /\ walk' = [walk EXCEPT !.phase = "count"]
  /\ UNCHANGED <<ask, table, assigned, trading, today, changes, first, disturbed>>

\* The Count query, and the answer.
CountRows ==
  /\ walk.phase = "count"
  /\ walk' = IF walk.page < pageInfo(ask.size, Counted)
             THEN [page |-> walk.page + 1, total |-> Counted, phase |-> "list"]
             ELSE [walk EXCEPT !.total = Counted, !.phase = "done"]
  /\ UNCHANGED <<ask, table, assigned, trading, today, changes, seen, first, disturbed>>

\* A statement fails, and the client asks for the page once more.
Fail ==
  /\ walk.phase = "count"
  /\ walk' = [walk EXCEPT !.phase = "list"]
  /\ UNCHANGED <<ask, table, assigned, trading, today, changes, seen, first, disturbed>>

Forbid ==
  /\ walk.phase = "list" /\ ~ orderHasOutlet
  /\ walk' = [walk EXCEPT !.phase = "done"]
  /\ UNCHANGED <<ask, table, assigned, trading, today, changes, seen, first, disturbed>>

\* Whether each row that was listed is listed still, where it was.
Shown == {<<r.id, Key(r)>> : r \in Listed}
Notice ==
  /\ UNCHANGED <<ask, walk, seen, first>>
  /\ disturbed' = (disturbed \/ ~ Shown \subseteq Shown')
----------------------------------------------------------------------------
(***************************************************************************)
(* The rest of the system                                                  *)
(***************************************************************************)
\* Inserts commit in any order: neither ids nor times need be the last.
Insert ==
  /\ \E r \in Rows :
       /\ \A x \in table : x.id # r.id
       /\ table' = table \cup {r}
  /\ UNCHANGED <<assigned, trading, today, changes>>
  /\ Notice

\* Updates and soft deletions, of those that the listing shows.
Change ==
  /\ changes < MaxChanges
  /\ changes' = changes + 1
  /\ \E x \in table :
       \E y \in {[x EXCEPT !.active = ~ @], [x EXCEPT !.deleted = TRUE],
                 [x EXCEPT !.name = 3 - @], [x EXCEPT !.status = 3 - @]} :
         table' = (table \ {x}) \cup {y}
  /\ UNCHANGED <<assigned, trading, today>>
  /\ Notice
  /\ Shown' # Shown

\* ReplaceStaffOutlets and UpdateOutlet of StaffManagement.
Reassign ==
  /\ ask.role = "LAUNDRY_STAFF"
  /\ \E x \in assigned : assigned' = assigned \ {x}
  /\ UNCHANGED <<table, trading, today, changes>>
  /\ Notice
Close ==
  /\ ask.kind = "expenses"
  /\ \E x \in trading : trading' = trading \ {x}
  /\ UNCHANGED <<table, assigned, today, changes>>
  /\ Notice

Midnight ==
  /\ ask.kind = "expenses" /\ today < MaxToday
  /\ today' = today + 1
  /\ UNCHANGED <<table, assigned, trading, changes>>
  /\ Notice

\* Nothing is written any more when the walk is over or its promise void.
Next ==
  \/ ListPage \/ CountRows \/ Fail \/ Forbid
  \/ /\ walk.phase # "done" /\ ~ disturbed
     /\ Insert \/ Change \/ Reassign \/ Close \/ Midnight
  \/ walk.phase = "done" /\ UNCHANGED vars

Spec == Init /\ [][Next]_vars
----------------------------------------------------------------------------
(***************************************************************************)
(* Properties                                                              *)
(***************************************************************************)
\* A client that reads to the last page has been shown every row that was listed when
\* it began, whatever was inserted, and in whatever order, before, between and after
\* the List and the Count query of each page -- unless a listed row left or moved,
\* which pulls others back onto pages already read (List handlers, pageInfo).
NothingMissed == walk.phase = "done" /\ ~ disturbed => first \subseteq seen

\* Whatever a page has shown opens as long as it is listed: the queries of one row are
\* as wide as those of the listings, which other hands wrote (the Get handlers).
ShownIsFound == ~ disturbed /\ ask.kind \in Opens => \A id \in seen : Opened(id) # {}
============================================================================
