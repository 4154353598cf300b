---------------------------- MODULE ExpenseBook ----------------------------
(***************************************************************************)
(* ExpenseHandler of internal/handlers/expenses.go: expenses and their     *)
(* categories are created and edited in READ COMMITTED transactions, edits *)
(* carry the version that their client read (If-Match), while owners       *)
(* deactivate users, move assignments and close outlets.                   *)
(*                                                                         *)
(* Create locks outlet, user and assignment FOR SHARE, then the category;  *)
(* Update locks expense, outlet and user FOR UPDATE, then assignment and   *)
(* category FOR SHARE.  The locks are held until the commit.               *)
(***************************************************************************)
EXTENDS Integers

CONSTANTS
  Requests,    \* requests in progress at the same time, one transaction each
  Users,       \* users.id
  Admins,      \* users with role ADMIN; the others are laundry staff
  Outlets,     \* outlets.id
  Expenses,    \* ids of expenses that may be created
  Categories,  \* ids of categories that may be created
  Names,       \* names of categories in lower case
  Amounts,     \* bound: expenses.amount
  MaxVersion   \* bound: expenses.version

VARIABLES
  expense,   \* table expenses; version 0 where there is no row
  category,  \* table expense_categories: name and is_active
  trail,     \* per expense and category, old_values and new_values of its last audit row
  active,    \* users with is_active
  assigned,  \* table user_outlets: pairs <<user, outlet>>
  open,      \* outlets with is_active
  copy,      \* per user and expense, the last response of Get that showed it
  tx         \* the transaction of each request

staffing == <<active, assigned, open>>
vars == <<expense, category, trail, active, assigned, open, copy, tx>>
----------------------------------------------------------------------------
(***************************************************************************)
(* Rows and calls                                                          *)
(***************************************************************************)
NoRow == [version |-> 0]
Expense ==
  [version : 1 .. MaxVersion, outlet : Outlets, category : Categories, amount : Amounts]
NoCategory == [name |-> "none", active |-> FALSE]
ExpenseCategory == [name : Names, active : BOOLEAN]

\* Requests whose body passed expenseRequest's checks; If-Match is chosen by Call.
CreateCalls ==
  {[op |-> "Create", by |-> u, expense |-> e, outlet |-> x, category |-> k, amount |-> a] :
     u \in Users, e \in Expenses, x \in Outlets, k \in Categories, a \in Amounts}
UpdateCalls ==
  {[op |-> "Update", by |-> u, expense |-> e, category |-> k, amount |-> a, match |-> v] :
     u \in Users, e \in Expenses, k \in Categories, a \in Amounts, v \in 1 .. MaxVersion}
CategoryCalls ==
  {[op |-> op, category |-> k, name |-> n, active |-> a] :
     op \in {"CreateCategory", "UpdateCategory"}, k \in Categories, n \in Names, a \in BOOLEAN}
Calls == CreateCalls \cup UpdateCalls \cup CategoryCalls

NoCall == [op |-> "none"]
IdleTx == [phase |-> "idle", call |-> NoCall, old |-> NoRow, new |-> NoRow]
Phases == {"idle", "called", "locked", "assigned", "category", "written"}

TypeOK ==
  /\ expense \in [Expenses -> Expense \cup {NoRow}]
  /\ category \in [Categories -> ExpenseCategory \cup {NoCategory}]
  /\ \A e \in Expenses : trail[e] \in (Expense \cup {NoRow}) \X (Expense \cup {NoRow})
  /\ \A k \in Categories :
       trail[k] \in (ExpenseCategory \cup {NoCategory}) \X (ExpenseCategory \cup {NoCategory})
  /\ active \subseteq Users /\ assigned \subseteq Users \X Outlets /\ open \subseteq Outlets
  /\ copy \in [Users -> [Expenses -> Expense \cup {NoRow}]]
  /\ \A r \in Requests :
       /\ tx[r].phase \in Phases
       /\ tx[r].call \in Calls \cup {NoCall}
       /\ tx[r].old \in Expense \cup {NoRow}

IsCategoryCall(c) == c.op \in {"CreateCategory", "UpdateCategory"}
----------------------------------------------------------------------------
(***************************************************************************)
(* Row locks                                                               *)
(***************************************************************************)
Past(r, phases) == tx[r].phase \in phases
Locked == {"locked", "assigned", "category", "written"}

\* The outlet an expense request works for.
OutletFor(r) == IF tx[r].call.op = "Create" THEN tx[r].call.outlet ELSE tx[r].old.outlet

Working(r, op) == tx[r].call.op = op /\ Past(r, Locked)

\* FOR SHARE OF o, u by Create, FOR UPDATE OF e, o, u by Update.
SharesOutlet(r, x) == Working(r, "Create") /\ tx[r].call.outlet = x
SharesUser(r, u) == Working(r, "Create") /\ tx[r].call.by = u
HoldsExpense(r, e) == Working(r, "Update") /\ tx[r].call.expense = e
HoldsOutlet(r, x) == Working(r, "Update") /\ tx[r].old.outlet = x
HoldsUser(r, u) == Working(r, "Update") /\ tx[r].call.by = u

\* A slip: GetActiveExpenseCategory without its FOR SHARE.
SharesCategoryForgotten(r, k) == FALSE

SharesCategory(r, k) ==
  ~ IsCategoryCall(tx[r].call) /\ Past(r, {"category", "written"}) /\ tx[r].call.category = k

HoldsCategory(r, k) ==
  /\ tx[r].call.op = "UpdateCategory" /\ tx[r].call.category = k
  /\ Past(r, {"locked", "written"})

\* What an UPDATE of the row by somebody else waits for.
UserLocked(u) == \E r \in Requests : SharesUser(r, u) \/ HoldsUser(r, u)
OutletLocked(x) == \E r \in Requests : SharesOutlet(r, x) \/ HoldsOutlet(r, x)
AssignmentLocked(u, x) ==
  \E r \in Requests :
    /\ ~ IsCategoryCall(tx[r].call) /\ Past(r, {"assigned", "category", "written"})
    /\ u \notin Admins /\ tx[r].call.by = u /\ OutletFor(r) = x
----------------------------------------------------------------------------
(***************************************************************************)
(* Queries                                                                 *)
(***************************************************************************)
MayServe(u, x) == u \in Admins \/ <<u, x>> \in assigned

LockActiveExpenseOutlet(u, x) == x \in open /\ u \in active /\ MayServe(u, x)
LockExpenseOutletAssignment(u, x) == <<u, x>> \in assigned
GetActiveExpenseCategory(k) == category[k].active

GetExpense(u, e) ==
  expense[e] # NoRow /\ expense[e].outlet \in open /\ MayServe(u, expense[e].outlet)
GetExpenseForUpdate(u, e) == GetExpense(u, e) /\ u \in active

\* The statements that write find everything once more.
CreateExpense(c) ==
  IF LockActiveExpenseOutlet(c.by, c.outlet) /\ GetActiveExpenseCategory(c.category)
  THEN {[version |-> 1, outlet |-> c.outlet, category |-> c.category, amount |-> c.amount]}
  ELSE {}

\* A slip: the version stays as it was.
UpdateExpenseUncounted(c) ==
  IF /\ GetExpenseForUpdate(c.by, c.expense) /\ GetActiveExpenseCategory(c.category)
     /\ expense[c.expense].version = c.match
  THEN {[expense[c.expense] EXCEPT !.category = c.category, !.amount = c.amount]}
  ELSE {}

UpdateExpense(c) ==
  IF /\ GetExpenseForUpdate(c.by, c.expense) /\ GetActiveExpenseCategory(c.category)
     /\ expense[c.expense].version = c.match
  THEN {[expense[c.expense] EXCEPT
           !.version = @ + 1, !.category = c.category, !.amount = c.amount]}
  ELSE {}

GetExpenseCategoryForUpdate(k) == category[k] # NoCategory

\* expense_categories_business_name_uq, for deactivated categories too.
NameTaken(c) == \E k \in Categories \ {c.category} : category[k].name = c.name
NameHeld(r, c) ==
  \E s \in Requests \ {r} :
    /\ IsCategoryCall(tx[s].call) /\ tx[s].phase = "written"
    /\ tx[s].call.category # c.category
    /\ c.name \in {tx[s].call.name, category[tx[s].call.category].name}

CreateExpenseCategory(c) == [category EXCEPT ![c.category] = [name |-> c.name, active |-> TRUE]]
UpdateExpenseCategory(c) == [category EXCEPT ![c.category] = [name |-> c.name, active |-> c.active]]
InsertExpenseAuditLog(e, old, new) == [trail EXCEPT ![e] = <<old, new>>]
InsertExpenseCategoryAuditLog(k, old, new) == [trail EXCEPT ![k] = <<old, new>>]

Finish(r) == tx' = [tx EXCEPT ![r] = IdleTx]
Move(r, phase) == tx' = [tx EXCEPT ![r].phase = phase]

Init ==
  /\ expense = [e \in Expenses |-> NoRow]
  /\ category = [k \in Categories |-> NoCategory]
  /\ trail = [e \in Expenses \cup Categories |->
                IF e \in Expenses THEN <<NoRow, NoRow>> ELSE <<NoCategory, NoCategory>>]
  /\ active = Users /\ assigned = Users \X Outlets /\ open = Outlets
  /\ copy = [u \in Users |-> [e \in Expenses |-> NoRow]]
  /\ tx = [r \in Requests |-> IdleTx]
----------------------------------------------------------------------------
(***************************************************************************)
(* Requests about expenses                                                 *)
(***************************************************************************)
Others(r) == Requests \ {r}
Fresh(c) == \A r \in Requests :
  /\ tx[r].call.op = "Create" /\ c.op = "Create" => tx[r].call.expense # c.expense
  /\ tx[r].call.op = "CreateCategory" /\ c.op = "CreateCategory" =>
       tx[r].call.category # c.category

\* Rows that are created have ids of their own; an edit carries the ETag of the
\* response that its client saw (expenseETag, parseExpenseETag).
Call(r) ==
  /\ tx[r].phase = "idle"
  /\ \E c \in Calls :
       /\ Fresh(c)
       /\ c.op = "Create" => expense[c.expense] = NoRow
       /\ c.op = "Update" => c.match = copy[c.by][c.expense].version /\ c.match < MaxVersion
       /\ c.op = "CreateCategory" => category[c.category] = NoCategory /\ c.active
       /\ tx' = [tx EXCEPT ![r] = [@ EXCEPT !.phase = "called", !.call = c]]
  /\ UNCHANGED <<expense, category, trail, staffing, copy>>

\* The first statement of Create.
LockForCreate(r) ==
  LET c == tx[r].call
  IN  /\ tx[r].phase = "called" /\ c.op = "Create"
      /\ \A s \in Others(r) : ~ HoldsOutlet(s, c.outlet) /\ ~ HoldsUser(s, c.by)
      /\ LockActiveExpenseOutlet(c.by, c.outlet)
      /\ Move(r, "locked")
      /\ UNCHANGED <<expense, category, trail, staffing, copy>>

\* The first statement of Update, and the comparison of its versions.
LockForUpdate(r) ==
  LET c == tx[r].call
  IN  /\ tx[r].phase = "called" /\ c.op = "Update"
      /\ GetExpenseForUpdate(c.by, c.expense)
      /\ \A s \in Others(r) :
           /\ ~ HoldsExpense(s, c.expense)
           /\ ~ HoldsOutlet(s, expense[c.expense].outlet)
           /\ ~ SharesOutlet(s, expense[c.expense].outlet)
           /\ ~ HoldsUser(s, c.by) /\ ~ SharesUser(s, c.by)
      /\ expense[c.expense].version = c.match
      /\ tx' = [tx EXCEPT ![r] = [@ EXCEPT !.phase = "locked", !.old = expense[c.expense]]]
      /\ UNCHANGED <<expense, category, trail, staffing, copy>>

\* Staff also lock their assignment.
LockAssignment(r) ==
  /\ tx[r].phase = "locked" /\ ~ IsCategoryCall(tx[r].call)
  /\ tx[r].call.by \in Admins \/ LockExpenseOutletAssignment(tx[r].call.by, OutletFor(r))
  /\ Move(r, "assigned")
  /\ UNCHANGED <<expense, category, trail, staffing, copy>>

LockCategory(r) ==
  /\ tx[r].phase = "assigned"
  /\ \A s \in Others(r) : ~ HoldsCategory(s, tx[r].call.category)
  /\ GetActiveExpenseCategory(tx[r].call.category)
  /\ Move(r, "category")
  /\ UNCHANGED <<expense, category, trail, staffing, copy>>

Statement(c) == IF c.op = "Create" THEN CreateExpense(c) ELSE UpdateExpense(c)

Write(r) ==
  /\ tx[r].phase = "category"
  /\ \E row \in Statement(tx[r].call) :
       tx' = [tx EXCEPT ![r] = [@ EXCEPT !.phase = "written", !.new = row]]
  /\ UNCHANGED <<expense, category, trail, staffing, copy>>

\* The audit row and the commit; the response shows the new row to its client.
writeExpenseAudit(r) == InsertExpenseAuditLog(tx[r].call.expense, tx[r].old, tx[r].new)

Commit(r, op) ==
  LET c == tx[r].call
  IN  /\ tx[r].phase = "written" /\ c.op = op
      /\ expense' = [expense EXCEPT ![c.expense] = tx[r].new]
      /\ trail' = writeExpenseAudit(r)
      /\ Finish(r)
      /\ UNCHANGED <<category, staffing, copy>>
Create(r) == Commit(r, "Create")
Update(r) == Commit(r, "Update")

Get(u, e) ==
  /\ GetExpense(u, e)
  /\ copy' = [copy EXCEPT ![u][e] = expense[e]]
  /\ UNCHANGED <<expense, category, trail, staffing, tx>>
----------------------------------------------------------------------------
(***************************************************************************)
(* Requests about categories                                               *)
(***************************************************************************)
LockCategoryRow(r) ==
  LET c == tx[r].call
  IN  /\ tx[r].phase = "called" /\ c.op = "UpdateCategory"
      /\ \A s \in Requests : ~ SharesCategory(s, c.category) /\ ~ HoldsCategory(s, c.category)
      /\ GetExpenseCategoryForUpdate(c.category)
      /\ Move(r, "locked")
      /\ UNCHANGED <<expense, category, trail, staffing, copy>>

WriteCategory(r) ==
  LET c == tx[r].call
  IN  /\ \/ tx[r].phase = "called" /\ c.op = "CreateCategory"
         \/ tx[r].phase = "locked" /\ c.op = "UpdateCategory"
      /\ ~ NameHeld(r, c) /\ ~ NameTaken(c)
      /\ Move(r, "written")
      /\ UNCHANGED <<expense, category, trail, staffing, copy>>

writeExpenseCategoryAudit(k, after) == InsertExpenseCategoryAuditLog(k, category[k], after[k])

CreateCategory(r) ==
  /\ tx[r].phase = "written" /\ tx[r].call.op = "CreateCategory"
  /\ category' = CreateExpenseCategory(tx[r].call)
  /\ trail' = writeExpenseCategoryAudit(tx[r].call.category, category')
  /\ Finish(r)
  /\ UNCHANGED <<expense, staffing, copy>>

UpdateCategory(r) ==
  /\ tx[r].phase = "written" /\ tx[r].call.op = "UpdateCategory"
  /\ category' = UpdateExpenseCategory(tx[r].call)
  /\ trail' = writeExpenseCategoryAudit(tx[r].call.category, category')
  /\ Finish(r)
  /\ UNCHANGED <<expense, staffing, copy>>
----------------------------------------------------------------------------
(***************************************************************************)
(* Early returns, and everybody else                                       *)
(***************************************************************************)
\* No row, an assignment or a category that is gone, STALE_EXPENSE, and
\* EXPENSE_CATEGORY_CONFLICT.
Refused(r) ==
  LET c == tx[r].call
  IN  \/ tx[r].phase = "called" /\ c.op = "Create" /\ ~ LockActiveExpenseOutlet(c.by, c.outlet)
      \/ /\ tx[r].phase = "called" /\ c.op = "Update"
         /\ ~ (GetExpenseForUpdate(c.by, c.expense) /\ expense[c.expense].version = c.match)
      \/ /\ tx[r].phase = "locked" /\ ~ IsCategoryCall(c) /\ c.by \notin Admins
         /\ ~ LockExpenseOutletAssignment(c.by, OutletFor(r))
      \/ tx[r].phase = "assigned" /\ ~ GetActiveExpenseCategory(c.category)
      \/ tx[r].phase = "category" /\ Statement(c) = {}
      \/ tx[r].phase = "called" /\ IsCategoryCall(c) /\ ~ NameHeld(r, c) /\ NameTaken(c)
      \/ tx[r].phase = "locked" /\ IsCategoryCall(c) /\ ~ NameHeld(r, c) /\ NameTaken(c)

\* Also a cancelled request context, a deadlock or a crash.
Rollback(r) ==
  /\ tx[r].phase # "idle"
  /\ Finish(r)
  /\ UNCHANGED <<expense, category, trail, staffing, copy>>
Refuse(r) == Refused(r) /\ Rollback(r)

\* UpdateStaff, ReplaceStaffOutlets and UpdateOutlet of StaffManagement.
UpdateStaff ==
  \E u \in Users :
    /\ ~ UserLocked(u)
    /\ active' = IF u \in active THEN active \ {u} ELSE active \cup {u}
    /\ UNCHANGED <<assigned, open>>
ReplaceStaffOutlets ==
  \E u \in Users, x \in Outlets :
    /\ ~ UserLocked(u) /\ ~ OutletLocked(x) /\ ~ AssignmentLocked(u, x)
    /\ assigned' = IF <<u, x>> \in assigned THEN assigned \ {<<u, x>>} ELSE assigned \cup {<<u, x>>}
    /\ UNCHANGED <<active, open>>
UpdateOutlet ==
  \E x \in Outlets :
    /\ ~ OutletLocked(x)
    /\ open' = IF x \in open THEN open \ {x} ELSE open \cup {x}
    /\ UNCHANGED <<active, assigned>>
Staffing ==
  /\ UpdateStaff \/ ReplaceStaffOutlets \/ UpdateOutlet
  /\ UNCHANGED <<expense, category, trail, copy, tx>>

Work(r) ==
  \/ LockForCreate(r) \/ LockForUpdate(r) \/ LockAssignment(r) \/ LockCategory(r) \/ Write(r)
  \/ Create(r) \/ Update(r) \/ LockCategoryRow(r) \/ WriteCategory(r)
  \/ CreateCategory(r) \/ UpdateCategory(r) \/ Refuse(r)

Next ==
  \/ \E r \in Requests : Call(r) \/ Work(r) \/ Rollback(r)
  \/ \E u \in Users, e \in Expenses : Get(u, e)
  \/ Staffing

Spec == Init /\ [][Next]_vars
----------------------------------------------------------------------------
(***************************************************************************)
(* Properties                                                              *)
(***************************************************************************)
\* The transactions implement ExpenseRecord: an edit replaces what its client had
\* read and nothing newer, and at the commit the user, the outlet, the assignment
\* and the category are still what the checks found (Create, Update: "Updated
\* atomically for each expense edit to prevent lost updates").
Recorded(row) ==
  IF row = NoRow THEN [amount |-> 0]
  ELSE [outlet |-> row.outlet, category |-> row.category, amount |-> row.amount]

Record ==
  INSTANCE ExpenseRecord WITH
    record <- [e \in Expenses |-> Recorded(expense[e])],
    read <- [u \in Users |-> [e \in Expenses |-> Recorded(copy[u][e])]],
    told <- [e \in Expenses \cup Categories |->
               IF e \in Expenses THEN <<Recorded(trail[e][1]), Recorded(trail[e][2])>> ELSE trail[e]],
    heading <- category, Unused <- NoCategory

ImplementsRecord == Record!Spec
============================================================================
