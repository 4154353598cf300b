--------------------------- MODULE BackOfficeProofs ---------------------------
(***************************************************************************)
(* Proofs about the components of BackOffice, one after the other, for any *)
(* number of requests, rows and keys.  Each rests on an inductive          *)
(* invariant of its own component: a step of another leaves its variables  *)
(* alone.                                                                  *)
(***************************************************************************)
EXTENDS BackOffice, SumTheorems, TLAPS
-------------------------------------------------------------------------------
(***************************************************************************)
(* The expenses.  From the locks on, what a request checked stays so until *)
(* its commit: its user serves, its outlet is open, its expense is the one *)
(* it read and its category in use.  Nobody holds a newer copy of an       *)
(* expense than what is there.                                             *)
(***************************************************************************)
ExpenseRow ==
  [version : Nat \ {0}, outlet : Outlets, category : Categories, amount : Amounts]
CategoryRow == [name : Headings, active : BOOLEAN]

DeskTx ==
  [phase : ExpenseDesk!Phases, call : ExpenseDesk!Calls \cup {ExpenseDesk!NoCall},
   old : ExpenseRow \cup {ExpenseDesk!NoRow}, new : ExpenseRow \cup {ExpenseDesk!NoRow}]

ExpenseTypes ==
  /\ expense \in [Expenses -> ExpenseRow \cup {ExpenseDesk!NoRow}]
  /\ category \in [Categories -> CategoryRow \cup {ExpenseDesk!NoCategory}]
  /\ expenseTrail = [x \in Expenses \cup Categories |-> expenseTrail[x]]
  /\ active \subseteq Users /\ assigned \subseteq Users \X Outlets /\ open \subseteq Outlets
  /\ copy \in [Users -> [Expenses -> ExpenseRow \cup {ExpenseDesk!NoRow}]]
  /\ expenseTx \in [Requests -> DeskTx]

\* What was read is what is there, or older.
CopiesAreOld ==
  \A u \in Users, e \in Expenses :
    \/ copy[u][e] = expense[e]
    \/ copy[u][e].version < expense[e].version

AtWork(r) == ExpenseDesk!Past(r, ExpenseDesk!Locked)
OutletOf(r) == ExpenseDesk!OutletFor(r)

\* Its user may enter an expense of the outlet.
Entitled(u, x) == ExpenseDesk!LockActiveExpenseOutlet(u, x)

Entering(r) ==
  LET c == expenseTx[r].call
  IN  c.op = "Create" =>
        /\ expense[c.expense] = ExpenseDesk!NoRow /\ expenseTx[r].old = ExpenseDesk!NoRow
        /\ AtWork(r) => Entitled(c.by, c.outlet)

Amending(r) ==
  LET c == expenseTx[r].call
  IN  c.op = "Update" =>
        /\ c.match <= copy[c.by][c.expense].version
        /\ AtWork(r) => /\ expenseTx[r].old = expense[c.expense]
                        /\ expenseTx[r].old # ExpenseDesk!NoRow
                        /\ expenseTx[r].old.version = c.match
                        /\ Entitled(c.by, expenseTx[r].old.outlet)

\* The category is in use, and the row that is written is of it.
Filing(r) ==
  LET c == expenseTx[r].call
  IN  /\ expenseTx[r].phase \in {"assigned", "category"} => c.op \in {"Create", "Update"}
      /\ c.op = "none" => expenseTx[r].phase = "idle"
      /\ c.op \in {"Create", "Update"} /\ expenseTx[r].phase \in {"category", "written"} =>
           category[c.category].active
      /\ c.op \in {"Create", "Update"} /\ expenseTx[r].phase = "written" =>
           /\ expenseTx[r].new \in ExpenseRow
           /\ expenseTx[r].new.category = c.category /\ expenseTx[r].new.outlet = OutletOf(r)
           /\ c.op = "Update" => expenseTx[r].new.version = c.match + 1

Classifying(r) ==
  LET c == expenseTx[r].call
  IN  /\ c.op = "CreateCategory" => category[c.category] = ExpenseDesk!NoCategory
      /\ c.op = "UpdateCategory" /\ expenseTx[r].phase \in {"locked", "written"} =>
           category[c.category] # ExpenseDesk!NoCategory

\* No two requests write the same row, and none one that another counts on.
DeskApart(r, s) ==
  LET c == expenseTx[r].call
      d == expenseTx[s].call
  IN  /\ c.op = "Create" /\ d.op = "Create" => c.expense # d.expense
      /\ c.op = "CreateCategory" /\ d.op = "CreateCategory" => c.category # d.category
      /\ ~ (ExpenseDesk!HoldsExpense(r, c.expense) /\ ExpenseDesk!HoldsExpense(s, c.expense))
      /\ ~ (ExpenseDesk!SharesCategory(r, c.category) /\ ExpenseDesk!HoldsCategory(s, c.category))
DesksApart == \A r, s \in Requests : r # s => DeskApart(r, s)

DeskIdle(r) == expenseTx[r].phase = "idle" => expenseTx[r] = ExpenseDesk!IdleTx

ExpenseInv ==
  /\ ExpenseTypes /\ CopiesAreOld /\ DesksApart
  /\ \A r \in Requests : DeskIdle(r) /\ Entering(r) /\ Amending(r) /\ Filing(r) /\ Classifying(r)

LEMMA ExpenseCallIs ==
  ASSUME NEW c \in ExpenseDesk!Calls \cup {ExpenseDesk!NoCall}
  PROVE  /\ c.op \in {"none", "Create", "Update", "CreateCategory", "UpdateCategory"}
         /\ c.op \in {"Create", "Update"} =>
              c.by \in Users /\ c.expense \in Expenses /\ c.category \in Categories /\ c.amount \in Amounts
         /\ c.op = "Create" => c.outlet \in Outlets
         /\ c.op = "Update" => c.match \in Nat \ {0}
         /\ c.op \in {"CreateCategory", "UpdateCategory"} =>
              c.category \in Categories /\ c.name \in Headings /\ c.active \in BOOLEAN
<1>1. CASE c \in ExpenseDesk!CreateCalls
  BY <1>1 DEF ExpenseDesk!CreateCalls
<1>2. CASE c \in ExpenseDesk!UpdateCalls
  BY <1>2 DEF ExpenseDesk!UpdateCalls
<1>3. CASE c \in ExpenseDesk!CategoryCalls
  BY <1>3 DEF ExpenseDesk!CategoryCalls
<1>4. CASE c = ExpenseDesk!NoCall
  BY <1>4 DEF ExpenseDesk!NoCall
<1> QED BY <1>1, <1>2, <1>3, <1>4 DEF ExpenseDesk!Calls

LEMMA DeskTxIs ==
  ASSUME ExpenseInv, NEW r \in Requests
  PROVE  /\ expenseTx = [s \in Requests |-> expenseTx[s]]
         /\ expenseTx[r] \in DeskTx
         /\ expenseTx[r].phase \in ExpenseDesk!Phases
         /\ expenseTx[r].call \in ExpenseDesk!Calls \cup {ExpenseDesk!NoCall}
         /\ expenseTx[r].old \in ExpenseRow \cup {ExpenseDesk!NoRow}
         /\ expenseTx[r].new \in ExpenseRow \cup {ExpenseDesk!NoRow}
  BY DEF ExpenseInv, ExpenseTypes, DeskTx

LEMMA ExpenseInit == ExpenseDesk!Init => ExpenseInv
  BY DEF ExpenseDesk!Init, ExpenseInv, ExpenseTypes, DeskTx, CopiesAreOld, DesksApart, DeskApart, DeskIdle,
         Entering, Amending, Filing, Classifying, ExpenseDesk!IdleTx, ExpenseDesk!NoCall, ExpenseDesk!NoRow,
         ExpenseDesk!NoCategory, ExpenseDesk!Phases, ExpenseDesk!HoldsExpense, ExpenseDesk!Working,
         ExpenseDesk!SharesCategory, ExpenseDesk!IsCategoryCall, ExpenseDesk!Past

\* The transaction of one request moves, and the tables rest.
LEMMA ExpenseMove ==
  ASSUME ExpenseInv, NEW r \in Requests,
         UNCHANGED <<expense, category, expenseTrail, active, assigned, open, copy>>,
         expenseTx' = [expenseTx EXCEPT ![r] = expenseTx'[r]],
         expenseTx'[r] \in DeskTx,
         DeskIdle(r)', Entering(r)', Amending(r)', Filing(r)', Classifying(r)',
         \A s \in Requests \ {r} : DeskApart(r, s)' /\ DeskApart(s, r)'
  PROVE  ExpenseInv'
<1>1. \A s \in Requests \ {r} : expenseTx'[s] = expenseTx[s]
  BY DEF ExpenseInv, ExpenseTypes
<1>2. ExpenseTypes'
  BY DEF ExpenseInv, ExpenseTypes
<1>3. CopiesAreOld'
  BY DEF ExpenseInv, CopiesAreOld
<1>4. DesksApart'
  <2>1. ASSUME NEW s \in Requests \ {r}, NEW q \in Requests \ {r}, s # q
        PROVE  DeskApart(s, q)'
    BY <1>1, <2>1 DEF ExpenseInv, DesksApart, DeskApart, ExpenseDesk!HoldsExpense, ExpenseDesk!Working,
         ExpenseDesk!SharesCategory, ExpenseDesk!HoldsCategory, ExpenseDesk!Past
  <2> QED BY <2>1 DEF DesksApart
<1>5. ASSUME NEW s \in Requests \ {r}
      PROVE  (DeskIdle(s) /\ Entering(s) /\ Amending(s) /\ Filing(s) /\ Classifying(s))'
  <2>1. DeskIdle(s) /\ Entering(s) /\ Amending(s) /\ Filing(s) /\ Classifying(s)
    BY DEF ExpenseInv
  <2>2. expenseTx'[s] = expenseTx[s]
    BY <1>1
  <2> QED BY <2>1, <2>2 DEF DeskIdle, Entering, Amending, Filing, Classifying, AtWork, Entitled, OutletOf,
            ExpenseDesk!Past, ExpenseDesk!LockActiveExpenseOutlet, ExpenseDesk!MayServe,
            ExpenseDesk!OutletFor
<1> QED BY <1>2, <1>3, <1>4, <1>5 DEF ExpenseInv

LEMMA ExpenseRollback ==
  ASSUME ExpenseInv, NEW r \in Requests, ExpenseDesk!Rollback(r)
  PROVE  ExpenseInv'
<1>1. UNCHANGED <<expense, category, expenseTrail, active, assigned, open, copy>>
  BY DEF ExpenseDesk!Rollback, ExpenseDesk!staffing
<1>2. /\ expenseTx'[r] = ExpenseDesk!IdleTx
      /\ expenseTx' = [expenseTx EXCEPT ![r] = expenseTx'[r]]
  BY DeskTxIs DEF ExpenseDesk!Rollback, ExpenseDesk!Finish
<1>3. ExpenseDesk!IdleTx \in DeskTx
  BY DEF ExpenseDesk!IdleTx, DeskTx, ExpenseDesk!Phases
<1>4. DeskIdle(r)' /\ Entering(r)' /\ Amending(r)' /\ Filing(r)' /\ Classifying(r)'
  BY <1>2 DEF DeskIdle, Entering, Amending, Filing, Classifying, ExpenseDesk!IdleTx, ExpenseDesk!NoCall
<1>5. \A s \in Requests \ {r} : DeskApart(r, s)' /\ DeskApart(s, r)'
  BY <1>2 DEF DeskApart, ExpenseDesk!IdleTx, ExpenseDesk!NoCall, ExpenseDesk!HoldsExpense,
       ExpenseDesk!Working, ExpenseDesk!SharesCategory, ExpenseDesk!HoldsCategory, ExpenseDesk!Past
<1> QED BY <1>1, <1>2, <1>3, <1>4, <1>5, ExpenseMove

LEMMA ExpenseCall ==
  ASSUME ExpenseInv, NEW r \in Requests, ExpenseDesk!Call(r)
  PROVE  ExpenseInv'
<1>1. UNCHANGED <<expense, category, expenseTrail, active, assigned, open, copy>>
  BY DEF ExpenseDesk!Call, ExpenseDesk!staffing
<1>2. PICK c \in ExpenseDesk!Calls :
        /\ ExpenseDesk!Fresh(c)
        /\ c.op = "Create" => expense[c.expense] = ExpenseDesk!NoRow
        /\ c.op = "Update" => c.match = copy[c.by][c.expense].version
        /\ c.op = "CreateCategory" => category[c.category] = ExpenseDesk!NoCategory
        /\ expenseTx' = [expenseTx EXCEPT ![r] = [@ EXCEPT !.phase = "called", !.call = c]]
  BY DEF ExpenseDesk!Call
<1>3. expenseTx[r] = ExpenseDesk!IdleTx /\ expenseTx[r].old = ExpenseDesk!NoRow
  BY DEF ExpenseInv, DeskIdle, ExpenseDesk!Call, ExpenseDesk!IdleTx
<1> DEFINE new == [expenseTx[r] EXCEPT !.phase = "called", !.call = c]
<1>4. /\ new \in DeskTx /\ new.phase = "called" /\ new.call = c /\ new.old = ExpenseDesk!NoRow
  BY <1>3, DeskTxIs DEF DeskTx, ExpenseDesk!Phases
<1>5. expenseTx' = [expenseTx EXCEPT ![r] = new]
  BY <1>2
<1> HIDE DEF new
<1>6. /\ expenseTx'[r] = new
      /\ expenseTx' = [expenseTx EXCEPT ![r] = expenseTx'[r]]
      /\ \A s \in Requests \ {r} : expenseTx'[s] = expenseTx[s]
  BY <1>5, DeskTxIs
<1>7. c.op = "Update" => copy[c.by][c.expense].version \in Int
  BY <1>2, ExpenseCallIs
<1>10. c.op # "none"
  BY DEF ExpenseDesk!Calls, ExpenseDesk!CreateCalls, ExpenseDesk!UpdateCalls, ExpenseDesk!CategoryCalls
<1>8. DeskIdle(r)' /\ Entering(r)' /\ Amending(r)' /\ Filing(r)' /\ Classifying(r)'
  <2>1. expenseTx'[r].phase = "called" /\ expenseTx'[r].call = c /\ ~ AtWork(r)'
    BY <1>4, <1>6 DEF AtWork, ExpenseDesk!Past, ExpenseDesk!Locked
  <2>2. DeskIdle(r)' /\ Filing(r)'
    BY <2>1, <1>10 DEF DeskIdle, Filing
  <2>3. Entering(r)'
    BY <1>1, <1>2, <1>4, <1>6, <2>1 DEF Entering
  <2>4. Amending(r)'
    BY <1>1, <1>2, <1>7, <2>1 DEF Amending
  <2>5. Classifying(r)'
    BY <1>1, <1>2, <2>1 DEF Classifying
  <2> QED BY <2>2, <2>3, <2>4, <2>5
<1>9. \A s \in Requests \ {r} : DeskApart(r, s)' /\ DeskApart(s, r)'
  BY <1>2, <1>4, <1>6
  DEF DeskApart, ExpenseDesk!Fresh, ExpenseDesk!HoldsExpense, ExpenseDesk!Locked,
      ExpenseDesk!Working, ExpenseDesk!SharesCategory, ExpenseDesk!HoldsCategory, ExpenseDesk!Past
<1> QED BY <1>1, <1>4, <1>6, <1>8, <1>9, ExpenseMove

\* A transaction that goes on to its next phase.
LEMMA DeskMoves ==
  ASSUME ExpenseInv, NEW r \in Requests, NEW p \in ExpenseDesk!Phases, ExpenseDesk!Move(r, p)
  PROVE  /\ expenseTx'[r] \in DeskTx
         /\ expenseTx' = [expenseTx EXCEPT ![r] = expenseTx'[r]]
         /\ expenseTx'[r].phase = p /\ expenseTx'[r].call = expenseTx[r].call
         /\ expenseTx'[r].old = expenseTx[r].old /\ expenseTx'[r].new = expenseTx[r].new
         /\ \A s \in Requests \ {r} : expenseTx'[s] = expenseTx[s]
<1> DEFINE new == [expenseTx[r] EXCEPT !.phase = p]
<1>1. /\ new \in DeskTx /\ new.phase = p /\ new.call = expenseTx[r].call
      /\ new.old = expenseTx[r].old /\ new.new = expenseTx[r].new
  BY DeskTxIs DEF DeskTx
<1>2. expenseTx' = [expenseTx EXCEPT ![r] = new]
  BY DEF ExpenseDesk!Move
<1> HIDE DEF new
<1>3. /\ expenseTx'[r] = new
      /\ expenseTx' = [expenseTx EXCEPT ![r] = expenseTx'[r]]
      /\ \A s \in Requests \ {r} : expenseTx'[s] = expenseTx[s]
  BY <1>2, DeskTxIs
<1> QED BY <1>1, <1>3

LEMMA ExpenseLockForCreate ==
  ASSUME ExpenseInv, NEW r \in Requests, ExpenseDesk!LockForCreate(r)
  PROVE  ExpenseInv'
<1>1. UNCHANGED <<expense, category, expenseTrail, active, assigned, open, copy>>
  BY DEF ExpenseDesk!LockForCreate, ExpenseDesk!staffing
<1>2. /\ expenseTx'[r] \in DeskTx /\ expenseTx' = [expenseTx EXCEPT ![r] = expenseTx'[r]]
      /\ expenseTx'[r].phase = "locked" /\ expenseTx'[r].call = expenseTx[r].call
      /\ expenseTx'[r].old = expenseTx[r].old
      /\ \A s \in Requests \ {r} : expenseTx'[s] = expenseTx[s]
  BY DeskMoves DEF ExpenseDesk!LockForCreate, ExpenseDesk!Phases
<1>3. /\ expenseTx[r].call.op = "Create"
      /\ ExpenseDesk!LockActiveExpenseOutlet(expenseTx[r].call.by, expenseTx[r].call.outlet)
  BY DEF ExpenseDesk!LockForCreate
<1>4. DeskIdle(r)' /\ Entering(r)' /\ Amending(r)' /\ Filing(r)' /\ Classifying(r)'
  BY <1>1, <1>2, <1>3
  DEF ExpenseInv, DeskIdle, Entering, Amending, Filing, Classifying, Entitled,
      ExpenseDesk!LockActiveExpenseOutlet, ExpenseDesk!MayServe
<1>5. \A s \in Requests \ {r} : DeskApart(r, s)' /\ DeskApart(s, r)'
  BY <1>2, <1>3
  DEF ExpenseInv, DesksApart, DeskApart, ExpenseDesk!HoldsExpense, ExpenseDesk!IsCategoryCall,
      ExpenseDesk!Working, ExpenseDesk!SharesCategory, ExpenseDesk!HoldsCategory, ExpenseDesk!Past
<1> QED BY <1>1, <1>2, <1>4, <1>5, ExpenseMove

LEMMA ExpenseLockForUpdate ==
  ASSUME ExpenseInv, NEW r \in Requests, ExpenseDesk!LockForUpdate(r)
  PROVE  ExpenseInv'
<1> DEFINE c == expenseTx[r].call
<1>1. UNCHANGED <<expense, category, expenseTrail, active, assigned, open, copy>>
  BY DEF ExpenseDesk!LockForUpdate, ExpenseDesk!staffing
<1>2. /\ c.op = "Update" /\ ExpenseDesk!GetExpenseForUpdate(c.by, c.expense)
      /\ expense[c.expense].version = c.match
      /\ \A s \in Requests \ {r} : ~ ExpenseDesk!HoldsExpense(s, c.expense)
      /\ expenseTx' = [expenseTx EXCEPT ![r] = [@ EXCEPT !.phase = "locked", !.old = expense[c.expense]]]
  BY DEF ExpenseDesk!LockForUpdate, ExpenseDesk!Others
<1>3. c \in ExpenseDesk!Calls \cup {ExpenseDesk!NoCall} /\ c.expense \in Expenses
  BY <1>2, DeskTxIs, ExpenseCallIs
<1>4. /\ expense[c.expense] \in ExpenseRow \cup {ExpenseDesk!NoRow}
      /\ expense[c.expense] # ExpenseDesk!NoRow
      /\ Entitled(c.by, expense[c.expense].outlet)
  BY <1>2, <1>3 DEF ExpenseInv, ExpenseTypes, Entitled, ExpenseDesk!GetExpenseForUpdate,
       ExpenseDesk!GetExpense, ExpenseDesk!LockActiveExpenseOutlet
<1> DEFINE new == [expenseTx[r] EXCEPT !.phase = "locked", !.old = expense[c.expense]]
<1>5. /\ new \in DeskTx /\ new.phase = "locked" /\ new.call = c /\ new.old = expense[c.expense]
  BY <1>4, DeskTxIs DEF DeskTx, ExpenseDesk!Phases
<1>6. expenseTx' = [expenseTx EXCEPT ![r] = new]
  BY <1>2
<1> HIDE DEF new
<1>7. /\ expenseTx'[r] = new
      /\ expenseTx' = [expenseTx EXCEPT ![r] = expenseTx'[r]]
      /\ \A s \in Requests \ {r} : expenseTx'[s] = expenseTx[s]
  BY <1>6, DeskTxIs
<1>8. DeskIdle(r)' /\ Entering(r)' /\ Amending(r)' /\ Filing(r)' /\ Classifying(r)'
  <2>1. expenseTx'[r].phase = "locked" /\ expenseTx'[r].call = c /\ expenseTx'[r].old = expense[c.expense]
    BY <1>5, <1>7
  <2>2. DeskIdle(r)' /\ Filing(r)' /\ Entering(r)' /\ Classifying(r)'
    BY <1>2, <2>1 DEF DeskIdle, Filing, Entering, Classifying
  <2>3. c.match <= copy[c.by][c.expense].version
    BY <1>2 DEF ExpenseInv, Amending
  <2>4. Amending(r)'
    BY <1>1, <1>2, <1>4, <2>1, <2>3
    DEF Amending, Entitled, ExpenseDesk!LockActiveExpenseOutlet, ExpenseDesk!MayServe
  <2> QED BY <2>2, <2>4
<1>9. \A s \in Requests \ {r} : DeskApart(r, s)' /\ DeskApart(s, r)'
  BY <1>2, <1>5, <1>7
  DEF DeskApart, ExpenseDesk!HoldsExpense, ExpenseDesk!Locked,
      ExpenseDesk!Working, ExpenseDesk!SharesCategory, ExpenseDesk!HoldsCategory, ExpenseDesk!Past
<1> QED BY <1>1, <1>5, <1>7, <1>8, <1>9, ExpenseMove

LEMMA ExpenseLockAssignment ==
  ASSUME ExpenseInv, NEW r \in Requests, ExpenseDesk!LockAssignment(r)
  PROVE  ExpenseInv'
<1>1. UNCHANGED <<expense, category, expenseTrail, active, assigned, open, copy>>
  BY DEF ExpenseDesk!LockAssignment, ExpenseDesk!staffing
<1>2. /\ expenseTx'[r] \in DeskTx /\ expenseTx' = [expenseTx EXCEPT ![r] = expenseTx'[r]]
      /\ expenseTx'[r].phase = "assigned" /\ expenseTx'[r].call = expenseTx[r].call
      /\ expenseTx'[r].old = expenseTx[r].old
      /\ \A s \in Requests \ {r} : expenseTx'[s] = expenseTx[s]
  BY DeskMoves DEF ExpenseDesk!LockAssignment, ExpenseDesk!Phases
<1>3. /\ expenseTx[r].call.op \in {"Create", "Update", "none"} /\ expenseTx[r].phase = "locked"
  BY DeskTxIs, ExpenseCallIs DEF ExpenseDesk!LockAssignment, ExpenseDesk!IsCategoryCall
<1>4. expenseTx[r].call.op \in {"Create", "Update"}
  BY <1>3 DEF ExpenseInv, Filing
<1>5. DeskIdle(r)' /\ Entering(r)' /\ Amending(r)' /\ Filing(r)' /\ Classifying(r)'
  BY <1>1, <1>2, <1>3, <1>4
  DEF ExpenseInv, DeskIdle, Entering, Amending, Filing, Classifying, Entitled, AtWork, ExpenseDesk!Past,
      ExpenseDesk!Locked, ExpenseDesk!LockActiveExpenseOutlet, ExpenseDesk!MayServe
<1>6. \A s \in Requests \ {r} : DeskApart(r, s)' /\ DeskApart(s, r)'
  BY <1>2, <1>3, <1>4
  DEF ExpenseInv, DesksApart, DeskApart, ExpenseDesk!HoldsExpense, ExpenseDesk!IsCategoryCall,
      ExpenseDesk!Locked,
      ExpenseDesk!Working, ExpenseDesk!SharesCategory, ExpenseDesk!HoldsCategory, ExpenseDesk!Past
<1> QED BY <1>1, <1>2, <1>5, <1>6, ExpenseMove

LEMMA ExpenseLockCategory ==
  ASSUME ExpenseInv, NEW r \in Requests, ExpenseDesk!LockCategory(r)
  PROVE  ExpenseInv'
<1>1. UNCHANGED <<expense, category, expenseTrail, active, assigned, open, copy>>
  BY DEF ExpenseDesk!LockCategory, ExpenseDesk!staffing
<1>2. /\ expenseTx'[r] \in DeskTx /\ expenseTx' = [expenseTx EXCEPT ![r] = expenseTx'[r]]
      /\ expenseTx'[r].phase = "category" /\ expenseTx'[r].call = expenseTx[r].call
      /\ expenseTx'[r].old = expenseTx[r].old
      /\ \A s \in Requests \ {r} : expenseTx'[s] = expenseTx[s]
  BY DeskMoves DEF ExpenseDesk!LockCategory, ExpenseDesk!Phases
<1>3. /\ expenseTx[r].call.op \in {"Create", "Update"} /\ expenseTx[r].phase = "assigned"
      /\ category[expenseTx[r].call.category].active
      /\ \A s \in Requests \ {r} : ~ ExpenseDesk!HoldsCategory(s, expenseTx[r].call.category)
  BY DEF ExpenseInv, Filing, ExpenseDesk!LockCategory, ExpenseDesk!GetActiveExpenseCategory,
         ExpenseDesk!Others
<1>4. DeskIdle(r)' /\ Entering(r)' /\ Amending(r)' /\ Filing(r)' /\ Classifying(r)'
  BY <1>1, <1>2, <1>3
  DEF ExpenseInv, DeskIdle, Entering, Amending, Filing, Classifying, Entitled, AtWork, ExpenseDesk!Past,
      ExpenseDesk!Locked, ExpenseDesk!LockActiveExpenseOutlet, ExpenseDesk!MayServe
<1>5. \A s \in Requests \ {r} : DeskApart(r, s)' /\ DeskApart(s, r)'
  BY <1>2, <1>3
  DEF ExpenseInv, DesksApart, DeskApart, ExpenseDesk!HoldsExpense, ExpenseDesk!IsCategoryCall,
      ExpenseDesk!Locked,
      ExpenseDesk!Working, ExpenseDesk!SharesCategory, ExpenseDesk!HoldsCategory, ExpenseDesk!Past
<1> QED BY <1>1, <1>2, <1>4, <1>5, ExpenseMove

\* The row that a request writes.
LEMMA ExpenseStatement ==
  ASSUME ExpenseInv, NEW r \in Requests, expenseTx[r].call.op \in {"Create", "Update"},
         AtWork(r), NEW row \in ExpenseDesk!Statement(expenseTx[r].call)
  PROVE  /\ row \in ExpenseRow
         /\ row.category = expenseTx[r].call.category /\ row.outlet = OutletOf(r)
         /\ expenseTx[r].call.op = "Update" => row.version = expenseTx[r].call.match + 1
<1> DEFINE c == expenseTx[r].call
<1>1. c \in ExpenseDesk!Calls \cup {ExpenseDesk!NoCall}
  BY DeskTxIs
<1>2. c.category \in Categories /\ c.amount \in Amounts /\ c.expense \in Expenses
  BY <1>1, ExpenseCallIs
<1>3. CASE c.op = "Create"
  <2>1. c.outlet \in Outlets
    BY <1>1, <1>3, ExpenseCallIs
  <2>2. row = [version |-> 1, outlet |-> c.outlet, category |-> c.category, amount |-> c.amount]
    BY <1>3 DEF ExpenseDesk!Statement, ExpenseDesk!CreateExpense
  <2> QED BY <1>2, <1>3, <2>1, <2>2 DEF ExpenseRow, OutletOf, ExpenseDesk!OutletFor
<1>4. CASE c.op = "Update"
  <2>1. /\ expense[c.expense].version = c.match
        /\ row = [expense[c.expense] EXCEPT !.version = @ + 1, !.category = c.category, !.amount = c.amount]
    BY <1>4 DEF ExpenseDesk!Statement, ExpenseDesk!UpdateExpense
  <2>2. expenseTx[r].old = expense[c.expense] /\ expenseTx[r].old # ExpenseDesk!NoRow
    BY <1>4 DEF ExpenseInv, Amending
  <2>3. expense[c.expense] \in ExpenseRow
    BY <1>2, <2>2 DEF ExpenseInv, ExpenseTypes
  <2>4. PICK x \in ExpenseRow : x = expense[c.expense]
    BY <2>3
  <2>5. row = [x EXCEPT !.version = x.version + 1, !.category = c.category, !.amount = c.amount]
    BY <2>1, <2>4
  <2>6. row \in ExpenseRow /\ row.category = c.category /\ row.outlet = x.outlet /\ row.version = x.version + 1
    <3>1. PICK v \in Nat \ {0}, k \in Categories, a \in Amounts :
            v = x.version + 1 /\ k = c.category /\ a = c.amount
      BY <1>2 DEF ExpenseRow
    <3>2. row = [x EXCEPT !.version = v, !.category = k, !.amount = a]
      BY <2>5, <3>1, Zenon
    <3>3. row \in ExpenseRow /\ row.category = k /\ row.outlet = x.outlet /\ row.version = v
      BY <3>2 DEF ExpenseRow
    <3> QED BY <3>1, <3>3
  <2>7. x.version = c.match /\ OutletOf(r) = x.outlet
    BY <1>4, <2>1, <2>2, <2>4 DEF OutletOf, ExpenseDesk!OutletFor
  <2> QED BY <2>6, <2>7
<1> QED BY <1>3, <1>4

LEMMA ExpenseWrite ==
  ASSUME ExpenseInv, NEW r \in Requests, ExpenseDesk!Write(r)
  PROVE  ExpenseInv'
<1> DEFINE c == expenseTx[r].call
<1>1. UNCHANGED <<expense, category, expenseTrail, active, assigned, open, copy>>
  BY DEF ExpenseDesk!Write, ExpenseDesk!staffing
<1>2. /\ expenseTx[r].phase = "category" /\ c.op \in {"Create", "Update"} /\ AtWork(r)
      /\ category[c.category].active
  BY DEF ExpenseDesk!Write, ExpenseInv, Filing, AtWork, ExpenseDesk!Past, ExpenseDesk!Locked
<1>3. PICK row \in ExpenseDesk!Statement(c) :
        expenseTx' = [expenseTx EXCEPT ![r] = [@ EXCEPT !.phase = "written", !.new = row]]
  BY DEF ExpenseDesk!Write
<1>4. /\ row \in ExpenseRow /\ row.category = c.category /\ row.outlet = OutletOf(r)
      /\ c.op = "Update" => row.version = c.match + 1
  BY <1>2, ExpenseStatement
<1> DEFINE new == [expenseTx[r] EXCEPT !.phase = "written", !.new = row]
<1>5. /\ new \in DeskTx /\ new.phase = "written" /\ new.call = c /\ new.old = expenseTx[r].old
      /\ new.new = row
  BY <1>4, DeskTxIs DEF DeskTx, ExpenseDesk!Phases
<1>6. expenseTx' = [expenseTx EXCEPT ![r] = new]
  BY <1>3
<1> HIDE DEF new
<1>7. /\ expenseTx'[r] = new
      /\ expenseTx' = [expenseTx EXCEPT ![r] = expenseTx'[r]]
      /\ \A s \in Requests \ {r} : expenseTx'[s] = expenseTx[s]
  BY <1>6, DeskTxIs
<1>8. DeskIdle(r)' /\ Entering(r)' /\ Amending(r)' /\ Filing(r)' /\ Classifying(r)'
  <2>1. /\ expenseTx'[r].phase = "written" /\ expenseTx'[r].call = c /\ expenseTx'[r].new = row
        /\ expenseTx'[r].old = expenseTx[r].old
    BY <1>5, <1>7
  <2>2. OutletOf(r)' = OutletOf(r)
    BY <2>1 DEF OutletOf, ExpenseDesk!OutletFor
  <2>3. DeskIdle(r)' /\ Filing(r)' /\ Classifying(r)'
    BY <1>1, <1>2, <1>4, <2>1, <2>2 DEF DeskIdle, Filing, Classifying
  <2>4. Entering(r)' /\ Amending(r)'
    BY <1>1, <1>2, <2>1 DEF ExpenseInv, Entering, Amending, Entitled,
         ExpenseDesk!LockActiveExpenseOutlet, ExpenseDesk!MayServe
  <2> QED BY <2>3, <2>4
<1>9. \A s \in Requests \ {r} : DeskApart(r, s)' /\ DeskApart(s, r)'
  BY <1>2, <1>5, <1>7
  DEF ExpenseInv, DesksApart, DeskApart, ExpenseDesk!HoldsExpense, ExpenseDesk!Locked,
      ExpenseDesk!IsCategoryCall,
      ExpenseDesk!Working, ExpenseDesk!SharesCategory, ExpenseDesk!HoldsCategory, ExpenseDesk!Past
<1> QED BY <1>1, <1>5, <1>7, <1>8, <1>9, ExpenseMove

LEMMA ExpenseLockCategoryRow ==
  ASSUME ExpenseInv, NEW r \in Requests, ExpenseDesk!LockCategoryRow(r)
  PROVE  ExpenseInv'
<1>1. UNCHANGED <<expense, category, expenseTrail, active, assigned, open, copy>>
  BY DEF ExpenseDesk!LockCategoryRow, ExpenseDesk!staffing
<1>2. /\ expenseTx'[r] \in DeskTx /\ expenseTx' = [expenseTx EXCEPT ![r] = expenseTx'[r]]
      /\ expenseTx'[r].phase = "locked" /\ expenseTx'[r].call = expenseTx[r].call
      /\ expenseTx'[r].old = expenseTx[r].old
      /\ \A s \in Requests \ {r} : expenseTx'[s] = expenseTx[s]
  BY DeskMoves DEF ExpenseDesk!LockCategoryRow, ExpenseDesk!Phases
<1>3. /\ expenseTx[r].call.op = "UpdateCategory"
      /\ category[expenseTx[r].call.category] # ExpenseDesk!NoCategory
      /\ \A s \in Requests : /\ ~ ExpenseDesk!SharesCategory(s, expenseTx[r].call.category)
                             /\ ~ ExpenseDesk!HoldsCategory(s, expenseTx[r].call.category)
  BY DEF ExpenseDesk!LockCategoryRow, ExpenseDesk!GetExpenseCategoryForUpdate
<1>4. DeskIdle(r)' /\ Entering(r)' /\ Amending(r)' /\ Filing(r)' /\ Classifying(r)'
  BY <1>1, <1>2, <1>3 DEF DeskIdle, Entering, Amending, Filing, Classifying
<1>5. \A s \in Requests \ {r} : DeskApart(r, s)' /\ DeskApart(s, r)'
  BY <1>2, <1>3
  DEF DeskApart, ExpenseDesk!HoldsExpense, ExpenseDesk!IsCategoryCall, ExpenseDesk!Locked,
      ExpenseDesk!Working, ExpenseDesk!SharesCategory, ExpenseDesk!HoldsCategory, ExpenseDesk!Past
<1> QED BY <1>1, <1>2, <1>4, <1>5, ExpenseMove

LEMMA ExpenseWriteCategory ==
  ASSUME ExpenseInv, NEW r \in Requests, ExpenseDesk!WriteCategory(r)
  PROVE  ExpenseInv'
<1>1. UNCHANGED <<expense, category, expenseTrail, active, assigned, open, copy>>
  BY DEF ExpenseDesk!WriteCategory, ExpenseDesk!staffing
<1>2. /\ expenseTx'[r] \in DeskTx /\ expenseTx' = [expenseTx EXCEPT ![r] = expenseTx'[r]]
      /\ expenseTx'[r].phase = "written" /\ expenseTx'[r].call = expenseTx[r].call
      /\ expenseTx'[r].old = expenseTx[r].old
      /\ \A s \in Requests \ {r} : expenseTx'[s] = expenseTx[s]
  BY DeskMoves DEF ExpenseDesk!WriteCategory, ExpenseDesk!Phases
<1>3. \/ expenseTx[r].call.op = "CreateCategory"
      \/ expenseTx[r].call.op = "UpdateCategory" /\ expenseTx[r].phase = "locked"
  BY DEF ExpenseDesk!WriteCategory
<1>4. DeskIdle(r)' /\ Entering(r)' /\ Amending(r)' /\ Filing(r)' /\ Classifying(r)'
  BY <1>1, <1>2, <1>3 DEF ExpenseInv, DeskIdle, Entering, Amending, Filing, Classifying
<1>5. \A s \in Requests \ {r} : DeskApart(r, s)' /\ DeskApart(s, r)'
  BY <1>2, <1>3
  DEF ExpenseInv, DesksApart, DeskApart, ExpenseDesk!HoldsExpense, ExpenseDesk!IsCategoryCall,
      ExpenseDesk!Locked,
      ExpenseDesk!Working, ExpenseDesk!SharesCategory, ExpenseDesk!HoldsCategory, ExpenseDesk!Past
<1> QED BY <1>1, <1>2, <1>4, <1>5, ExpenseMove

\* A request that ends leaves the pairs of the others as they were.
LEMMA DeskEnds ==
  ASSUME ExpenseInv, NEW r \in Requests, ExpenseDesk!Finish(r)
  PROVE  /\ expenseTx' \in [Requests -> DeskTx] /\ DesksApart'
         /\ DeskIdle(r)' /\ Entering(r)' /\ Amending(r)' /\ Filing(r)' /\ Classifying(r)'
         /\ \A s \in Requests \ {r} : expenseTx'[s] = expenseTx[s]
<1>1. /\ expenseTx'[r] = ExpenseDesk!IdleTx
      /\ \A s \in Requests \ {r} : expenseTx'[s] = expenseTx[s]
  BY DeskTxIs DEF ExpenseDesk!Finish
<1>2. expenseTx' \in [Requests -> DeskTx]
  <2>1. ExpenseDesk!IdleTx \in DeskTx
    BY DEF ExpenseDesk!IdleTx, DeskTx, ExpenseDesk!Phases
  <2> QED BY <2>1 DEF ExpenseDesk!Finish, ExpenseInv, ExpenseTypes
<1>3. DeskIdle(r)' /\ Entering(r)' /\ Amending(r)' /\ Filing(r)' /\ Classifying(r)'
  BY <1>1 DEF DeskIdle, Entering, Amending, Filing, Classifying, ExpenseDesk!IdleTx, ExpenseDesk!NoCall
<1>4. \A s \in Requests \ {r} : DeskApart(r, s)' /\ DeskApart(s, r)'
  BY <1>1 DEF DeskApart, ExpenseDesk!IdleTx, ExpenseDesk!NoCall, ExpenseDesk!HoldsExpense,
       ExpenseDesk!Working, ExpenseDesk!SharesCategory, ExpenseDesk!HoldsCategory, ExpenseDesk!Past
<1>5. \A s, q \in Requests \ {r} : s # q => DeskApart(s, q)'
  BY <1>1 DEF ExpenseInv, DesksApart, DeskApart, ExpenseDesk!HoldsExpense, ExpenseDesk!Working,
         ExpenseDesk!SharesCategory, ExpenseDesk!HoldsCategory, ExpenseDesk!Past
<1>6. DesksApart'
  BY <1>4, <1>5 DEF DesksApart
<1> QED BY <1>1, <1>2, <1>3, <1>6

\* What a request commits about an expense.
LEMMA CommittedIs ==
  ASSUME ExpenseInv, NEW r \in Requests, ExpenseDesk!Create(r) \/ ExpenseDesk!Update(r)
  PROVE  LET c == expenseTx[r].call
             t == expenseTx[r]
         IN  /\ c.op \in {"Create", "Update"}
             /\ c.by \in Users /\ c.expense \in Expenses
             /\ t.old = expense[c.expense] /\ t.new \in ExpenseRow
             /\ t.new.category = c.category /\ t.new.outlet = OutletOf(r)
             /\ category[c.category].active
             /\ Entitled(c.by, t.new.outlet)
             /\ t.old.version < t.new.version
             /\ c.op = "Create" => t.old = ExpenseDesk!NoRow
             /\ c.op = "Update" => /\ t.old # ExpenseDesk!NoRow /\ t.new.outlet = t.old.outlet
                                   /\ copy[c.by][c.expense] = t.old
             /\ expense' = [expense EXCEPT ![c.expense] = t.new]
             /\ expenseTrail' = [expenseTrail EXCEPT ![c.expense] = <<t.old, t.new>>]
             /\ ExpenseDesk!Finish(r)
             /\ UNCHANGED <<category, active, assigned, open, copy>>
<1> DEFINE c == expenseTx[r].call
           t == expenseTx[r]
<1>1. c.op \in {"Create", "Update"} /\ t.phase = "written"
  BY DEF ExpenseDesk!Create, ExpenseDesk!Update, ExpenseDesk!Commit
<1>2. /\ expense' = [expense EXCEPT ![c.expense] = t.new]
      /\ expenseTrail' = [expenseTrail EXCEPT ![c.expense] = <<t.old, t.new>>]
      /\ ExpenseDesk!Finish(r)
      /\ UNCHANGED <<category, active, assigned, open, copy>>
  BY DEF ExpenseDesk!Create, ExpenseDesk!Update, ExpenseDesk!Commit, ExpenseDesk!staffing,
         ExpenseDesk!writeExpenseAudit, ExpenseDesk!InsertExpenseAuditLog
<1>4. /\ c.by \in Users /\ c.expense \in Expenses
      /\ c.op = "Update" => c.match \in Nat \ {0}
  BY <1>1, DeskTxIs, ExpenseCallIs
<1>5. /\ t.new \in ExpenseRow /\ t.new.category = c.category /\ t.new.outlet = OutletOf(r)
      /\ category[c.category].active
      /\ c.op = "Update" => t.new.version = c.match + 1
  BY <1>1 DEF ExpenseInv, Filing
<1>6. AtWork(r)
  BY <1>1 DEF AtWork, ExpenseDesk!Past, ExpenseDesk!Locked
<1>7. CASE c.op = "Create"
  <2>1. t.old = ExpenseDesk!NoRow /\ t.old = expense[c.expense] /\ Entitled(c.by, t.new.outlet)
    BY <1>5, <1>6, <1>7 DEF ExpenseInv, Entering, OutletOf, ExpenseDesk!OutletFor
  <2>2. t.old.version < t.new.version
    BY <1>5, <2>1 DEF ExpenseDesk!NoRow, ExpenseRow
  <2> QED BY <1>1, <1>2, <1>4, <1>5, <1>7, <2>1, <2>2
<1>8. CASE c.op = "Update"
  <2>1. /\ t.old # ExpenseDesk!NoRow /\ t.old = expense[c.expense] /\ t.old.version = c.match
        /\ t.new.outlet = t.old.outlet /\ Entitled(c.by, t.new.outlet)
        /\ c.match <= copy[c.by][c.expense].version
    BY <1>5, <1>6, <1>8 DEF ExpenseInv, Amending, OutletOf, ExpenseDesk!OutletFor
  <2>2. t.old.version < t.new.version
    BY <1>4, <1>5, <1>8, <2>1
  <2>3. copy[c.by][c.expense] = t.old
    <3>1. \A row \in ExpenseRow \cup {ExpenseDesk!NoRow} : row.version \in Int
      BY DEF ExpenseRow, ExpenseDesk!NoRow
    <3>2. /\ copy[c.by][c.expense] \in ExpenseRow \cup {ExpenseDesk!NoRow}
          /\ expense[c.expense] \in ExpenseRow \cup {ExpenseDesk!NoRow}
      BY <1>4 DEF ExpenseInv, ExpenseTypes
    <3>3. \/ copy[c.by][c.expense] = expense[c.expense]
          \/ copy[c.by][c.expense].version < expense[c.expense].version
      BY <1>4 DEF ExpenseInv, CopiesAreOld
    <3>4. copy[c.by][c.expense].version \in Int /\ expense[c.expense].version \in Int
      BY <3>1, <3>2
    <3> QED BY <2>1, <3>3, <3>4
  <2> QED BY <1>1, <1>2, <1>4, <1>5, <1>8, <2>1, <2>2, <2>3
<1> QED BY <1>1, <1>7, <1>8

LEMMA ExpenseCommit ==
  ASSUME ExpenseInv, NEW r \in Requests, ExpenseDesk!Create(r) \/ ExpenseDesk!Update(r)
  PROVE  ExpenseInv'
<1>1. PICK c \in ExpenseDesk!Calls \cup {ExpenseDesk!NoCall}, t \in DeskTx :
        c = expenseTx[r].call /\ t = expenseTx[r]
  BY DeskTxIs
<1>2. /\ c.op \in {"Create", "Update"}
      /\ c.by \in Users /\ c.expense \in Expenses
      /\ t.old = expense[c.expense] /\ t.new \in ExpenseRow
      /\ t.old.version < t.new.version
      /\ c.op = "Create" => t.old = ExpenseDesk!NoRow
      /\ c.op = "Update" => t.old # ExpenseDesk!NoRow
      /\ expense' = [expense EXCEPT ![c.expense] = t.new]
      /\ expenseTrail' = [expenseTrail EXCEPT ![c.expense] = <<t.old, t.new>>]
      /\ UNCHANGED <<category, active, assigned, open, copy>>
      /\ t.phase = "written"
  BY <1>1, CommittedIs DEF ExpenseDesk!Create, ExpenseDesk!Update, ExpenseDesk!Commit
<1>3. /\ expenseTx' \in [Requests -> DeskTx] /\ DesksApart'
      /\ DeskIdle(r)' /\ Entering(r)' /\ Amending(r)' /\ Filing(r)' /\ Classifying(r)'
      /\ \A s \in Requests \ {r} : expenseTx'[s] = expenseTx[s]
  BY CommittedIs, DeskEnds
<1>4. /\ expense'[c.expense] = t.new
      /\ \A e \in Expenses \ {c.expense} : expense'[e] = expense[e]
      /\ expense' \in [Expenses -> ExpenseRow \cup {ExpenseDesk!NoRow}]
  BY <1>2 DEF ExpenseInv, ExpenseTypes
<1>5. expenseTrail' = [x \in Expenses \cup Categories |-> expenseTrail'[x]]
  BY <1>2 DEF ExpenseInv, ExpenseTypes
<1>6. ExpenseTypes'
  BY <1>2, <1>3, <1>4, <1>5 DEF ExpenseInv, ExpenseTypes
<1>7. CopiesAreOld'
  <2>1. SUFFICES ASSUME NEW u \in Users, NEW e \in Expenses
                 PROVE  copy[u][e] = expense'[e] \/ copy[u][e].version < expense'[e].version
    BY <1>2 DEF CopiesAreOld
  <2>2. copy[u][e] = expense[e] \/ copy[u][e].version < expense[e].version
    BY DEF ExpenseInv, CopiesAreOld
  <2>3. copy[u][e].version \in Int /\ t.old.version \in Int /\ t.new.version \in Int
    BY <1>2 DEF ExpenseInv, ExpenseTypes, DeskTx, ExpenseRow, ExpenseDesk!NoRow
  <2>4. CASE e = c.expense
    BY <1>2, <1>4, <2>2, <2>3, <2>4
  <2>5. CASE e # c.expense
    BY <1>4, <2>2, <2>5
  <2> QED BY <2>4, <2>5
<1>8. ASSUME NEW s \in Requests \ {r}
      PROVE  (DeskIdle(s) /\ Entering(s) /\ Amending(s) /\ Filing(s) /\ Classifying(s))'
  <2>1. DeskIdle(s) /\ Entering(s) /\ Amending(s) /\ Filing(s) /\ Classifying(s)
    BY DEF ExpenseInv
  <2>2. expenseTx'[s] = expenseTx[s]
    BY <1>3
  <2>3. (DeskIdle(s) /\ Filing(s) /\ Classifying(s))'
    BY <1>2, <2>1, <2>2 DEF DeskIdle, Filing, Classifying, OutletOf, ExpenseDesk!OutletFor
  <2>4. DeskApart(r, s)
    BY DEF ExpenseInv, DesksApart
  <2>5. PICK d \in ExpenseDesk!Calls \cup {ExpenseDesk!NoCall} : d = expenseTx[s].call
    BY DeskTxIs
  <2>6. d.op \in {"Create", "Update"} => d.expense \in Expenses
    BY <2>5, ExpenseCallIs
  <2>7. Entering(s)'
    <3>1. SUFFICES ASSUME d.op = "Create"
                   PROVE  /\ expense'[d.expense] = ExpenseDesk!NoRow
                          /\ expenseTx[s].old = ExpenseDesk!NoRow
                          /\ AtWork(s) => Entitled(d.by, d.outlet)
      BY <1>2, <2>2, <2>5 DEF Entering, AtWork, Entitled, ExpenseDesk!Past,
           ExpenseDesk!LockActiveExpenseOutlet, ExpenseDesk!MayServe
    <3>2. /\ expense[d.expense] = ExpenseDesk!NoRow /\ expenseTx[s].old = ExpenseDesk!NoRow
          /\ AtWork(s) => Entitled(d.by, d.outlet)
      BY <2>1, <2>5, <3>1 DEF Entering
    <3>3. d.expense # c.expense
      BY <1>1, <1>2, <2>4, <2>5, <3>1, <3>2 DEF DeskApart
    <3> QED BY <1>4, <2>6, <3>1, <3>2, <3>3
  <2>8. Amending(s)'
    <3>1. SUFFICES ASSUME d.op = "Update", AtWork(s)
                   PROVE  expense'[d.expense] = expense[d.expense]
      BY <1>2, <2>1, <2>2, <2>5 DEF Amending, AtWork, Entitled, ExpenseDesk!Past,
           ExpenseDesk!LockActiveExpenseOutlet, ExpenseDesk!MayServe
    <3>2. expense[d.expense] # ExpenseDesk!NoRow
      BY <2>1, <2>5, <3>1 DEF Amending
    <3>3. d.expense # c.expense
      BY <1>1, <1>2, <2>4, <2>5, <3>1, <3>2 DEF DeskApart, AtWork, ExpenseDesk!HoldsExpense,
           ExpenseDesk!Working, ExpenseDesk!Past, ExpenseDesk!Locked
    <3> QED BY <1>4, <2>6, <3>1, <3>3
  <2> QED BY <2>3, <2>7, <2>8
<1> QED BY <1>3, <1>6, <1>7, <1>8 DEF ExpenseInv

\* What a request commits about a category.
LEMMA ClassifiedIs ==
  ASSUME ExpenseInv, NEW r \in Requests,
         ExpenseDesk!CreateCategory(r) \/ ExpenseDesk!UpdateCategory(r)
  PROVE  LET k == expenseTx[r].call.category
         IN  /\ k \in Categories
             /\ category' = [category EXCEPT ![k] = category'[k]]
             /\ category'[k] \in CategoryRow /\ category'[k] # ExpenseDesk!NoCategory
             /\ expenseTrail' = [expenseTrail EXCEPT ![k] = <<category[k], category'[k]>>]
             /\ expenseTx[r].call.op = "CreateCategory" => category'[k].active
             /\ ExpenseDesk!Finish(r)
             /\ UNCHANGED <<expense, active, assigned, open, copy>>
<1>1. PICK c \in ExpenseDesk!Calls \cup {ExpenseDesk!NoCall} : c = expenseTx[r].call
  BY DeskTxIs
<1>2. c.op \in {"CreateCategory", "UpdateCategory"}
  BY <1>1 DEF ExpenseDesk!CreateCategory, ExpenseDesk!UpdateCategory
<1>3. c.category \in Categories /\ c.name \in Headings /\ c.active \in BOOLEAN
  BY <1>2, ExpenseCallIs
<1>4. PICK a \in BOOLEAN :
        /\ category' = [category EXCEPT ![c.category] = [name |-> c.name, active |-> a]]
        /\ c.op = "CreateCategory" => a
  BY <1>1, <1>3 DEF ExpenseDesk!CreateCategory, ExpenseDesk!UpdateCategory,
       ExpenseDesk!CreateExpenseCategory, ExpenseDesk!UpdateExpenseCategory
<1> DEFINE v == [name |-> c.name, active |-> a]
<1>5. v \in CategoryRow /\ v # ExpenseDesk!NoCategory /\ v.active = a
  BY <1>3, ExpenseAssumption DEF CategoryRow, ExpenseDesk!NoCategory
<1>6. category' = [category EXCEPT ![c.category] = v]
  BY <1>4
<1> HIDE DEF v
<1>7. category'[c.category] = v
  BY <1>3, <1>6 DEF ExpenseInv, ExpenseTypes
<1>8. expenseTrail' = [expenseTrail EXCEPT ![c.category] = <<category[c.category], category'[c.category]>>]
  BY <1>1 DEF ExpenseDesk!CreateCategory, ExpenseDesk!UpdateCategory,
       ExpenseDesk!writeExpenseCategoryAudit, ExpenseDesk!InsertExpenseCategoryAuditLog
<1>9. ExpenseDesk!Finish(r) /\ UNCHANGED <<expense, active, assigned, open, copy>>
  BY DEF ExpenseDesk!CreateCategory, ExpenseDesk!UpdateCategory, ExpenseDesk!staffing
<1> QED BY <1>1, <1>3, <1>4, <1>5, <1>6, <1>7, <1>8, <1>9

LEMMA ExpenseClassify ==
  ASSUME ExpenseInv, NEW r \in Requests,
         ExpenseDesk!CreateCategory(r) \/ ExpenseDesk!UpdateCategory(r)
  PROVE  ExpenseInv'
<1>1. PICK k \in Categories :
        /\ k = expenseTx[r].call.category
        /\ category' = [category EXCEPT ![k] = category'[k]]
        /\ category'[k] \in CategoryRow /\ category'[k] # ExpenseDesk!NoCategory
        /\ expenseTrail' = [expenseTrail EXCEPT ![k] = <<category[k], category'[k]>>]
        /\ expenseTx[r].call.op = "CreateCategory" => category'[k].active
        /\ UNCHANGED <<expense, active, assigned, open, copy>>
  BY ClassifiedIs
<1>2. /\ expenseTx[r].phase = "written"
      /\ expenseTx[r].call.op \in {"CreateCategory", "UpdateCategory"}
  BY DEF ExpenseDesk!CreateCategory, ExpenseDesk!UpdateCategory
<1>3. /\ expenseTx' \in [Requests -> DeskTx] /\ DesksApart'
      /\ DeskIdle(r)' /\ Entering(r)' /\ Amending(r)' /\ Filing(r)' /\ Classifying(r)'
      /\ \A s \in Requests \ {r} : expenseTx'[s] = expenseTx[s]
  BY ClassifiedIs, DeskEnds
<1>4. /\ \A j \in Categories \ {k} : category'[j] = category[j]
      /\ category' \in [Categories -> CategoryRow \cup {ExpenseDesk!NoCategory}]
  BY <1>1 DEF ExpenseInv, ExpenseTypes
<1>5. expenseTrail' = [x \in Expenses \cup Categories |-> expenseTrail'[x]]
  BY <1>1 DEF ExpenseInv, ExpenseTypes
<1>6. ExpenseTypes' /\ CopiesAreOld'
  BY <1>1, <1>3, <1>4, <1>5 DEF ExpenseInv, ExpenseTypes, CopiesAreOld
<1>7. ASSUME NEW s \in Requests \ {r}
      PROVE  (DeskIdle(s) /\ Entering(s) /\ Amending(s) /\ Filing(s) /\ Classifying(s))'
  <2>1. DeskIdle(s) /\ Entering(s) /\ Amending(s) /\ Filing(s) /\ Classifying(s)
    BY DEF ExpenseInv
  <2>2. expenseTx'[s] = expenseTx[s]
    BY <1>3
  <2>3. (DeskIdle(s) /\ Entering(s) /\ Amending(s))'
    BY <1>1, <2>1, <2>2 DEF DeskIdle, Entering, Amending, AtWork, Entitled, ExpenseDesk!Past,
         ExpenseDesk!LockActiveExpenseOutlet, ExpenseDesk!MayServe
  <2>4. DeskApart(r, s) /\ DeskApart(s, r)
    BY DEF ExpenseInv, DesksApart
  <2>5. PICK d \in ExpenseDesk!Calls \cup {ExpenseDesk!NoCall} : d = expenseTx[s].call
    BY DeskTxIs
  <2>6. d.op # "none" => d.category \in Categories
    BY <2>5, ExpenseCallIs
  <2>7. Filing(s)'
    <3>1. SUFFICES ASSUME d.op \in {"Create", "Update"}, expenseTx[s].phase \in {"category", "written"}
                   PROVE  category'[d.category].active
      BY <2>1, <2>2, <2>5 DEF Filing, OutletOf, ExpenseDesk!OutletFor
    <3>2. category[d.category].active
      BY <2>1, <2>5, <3>1 DEF Filing
    <3>3. CASE expenseTx[r].call.op = "CreateCategory"
      BY <1>1, <1>4, <2>6, <3>1, <3>2, <3>3
    <3>4. CASE expenseTx[r].call.op = "UpdateCategory"
      <4>1. ExpenseDesk!SharesCategory(s, d.category)
        BY <2>5, <3>1 DEF ExpenseDesk!SharesCategory, ExpenseDesk!IsCategoryCall, ExpenseDesk!Past
      <4>2. k # d.category
        BY <1>1, <1>2, <2>4, <2>5, <3>4, <4>1
        DEF DeskApart, ExpenseDesk!HoldsCategory, ExpenseDesk!Past
      <4> QED BY <1>4, <2>6, <3>1, <3>2, <4>2
    <3> QED BY <1>2, <3>3, <3>4
  <2>8. Classifying(s)'
    <3>1. ASSUME d.op = "CreateCategory"
          PROVE  category'[d.category] = ExpenseDesk!NoCategory
      <4>1. category[d.category] = ExpenseDesk!NoCategory
        BY <2>1, <2>5, <3>1 DEF Classifying
      <4>2. d.category # k
        BY <1>1, <1>2, <2>4, <2>5, <3>1, <4>1 DEF DeskApart, Classifying, ExpenseInv
      <4> QED BY <1>4, <2>6, <3>1, <4>1, <4>2
    <3>2. ASSUME d.op = "UpdateCategory", expenseTx[s].phase \in {"locked", "written"}
          PROVE  category'[d.category] # ExpenseDesk!NoCategory
      BY <1>1, <1>4, <2>1, <2>5, <2>6, <3>2 DEF Classifying
    <3> QED BY <2>2, <2>5, <3>1, <3>2 DEF Classifying
  <2> QED BY <2>3, <2>7, <2>8
<1> QED BY <1>3, <1>6, <1>7 DEF ExpenseInv

\* Somebody reads an expense.
LEMMA ExpenseGet ==
  ASSUME ExpenseInv, NEW u \in Users, NEW e \in Expenses, ExpenseDesk!Get(u, e)
  PROVE  ExpenseInv'
<1>1. /\ UNCHANGED <<expense, category, expenseTrail, active, assigned, open, expenseTx>>
      /\ copy' = [copy EXCEPT ![u][e] = expense[e]]
  BY DEF ExpenseDesk!Get, ExpenseDesk!staffing
<1>2. /\ copy' \in [Users -> [Expenses -> ExpenseRow \cup {ExpenseDesk!NoRow}]]
      /\ \A v \in Users, f \in Expenses :
           copy'[v][f] = IF v = u /\ f = e THEN expense[e] ELSE copy[v][f]
  <2>1. copy[u] \in [Expenses -> ExpenseRow \cup {ExpenseDesk!NoRow}]
    BY DEF ExpenseInv, ExpenseTypes
  <2> DEFINE new == [copy[u] EXCEPT ![e] = expense[e]]
  <2>2. /\ new \in [Expenses -> ExpenseRow \cup {ExpenseDesk!NoRow}]
        /\ \A f \in Expenses : new[f] = IF f = e THEN expense[e] ELSE copy[u][f]
    BY <2>1 DEF ExpenseInv, ExpenseTypes
  <2>3. copy' = [copy EXCEPT ![u] = new]
    BY <1>1
  <2> HIDE DEF new
  <2> QED BY <2>2, <2>3 DEF ExpenseInv, ExpenseTypes
<1>3. ExpenseTypes'
  BY <1>1, <1>2 DEF ExpenseInv, ExpenseTypes
<1>4. CopiesAreOld'
  BY <1>1, <1>2 DEF ExpenseInv, CopiesAreOld
<1>5. DesksApart'
  BY <1>1 DEF ExpenseInv, DesksApart, DeskApart, ExpenseDesk!HoldsExpense,
       ExpenseDesk!Working, ExpenseDesk!SharesCategory, ExpenseDesk!HoldsCategory, ExpenseDesk!Past
<1>6. ASSUME NEW s \in Requests
      PROVE  (DeskIdle(s) /\ Entering(s) /\ Amending(s) /\ Filing(s) /\ Classifying(s))'
  <2>1. DeskIdle(s) /\ Entering(s) /\ Amending(s) /\ Filing(s) /\ Classifying(s)
    BY DEF ExpenseInv
  <2>2. (DeskIdle(s) /\ Entering(s) /\ Filing(s) /\ Classifying(s))'
    BY <1>1, <2>1 DEF DeskIdle, Entering, Filing, Classifying, AtWork, Entitled, OutletOf,
            ExpenseDesk!Past, ExpenseDesk!LockActiveExpenseOutlet, ExpenseDesk!MayServe,
            ExpenseDesk!OutletFor
  <2>3. PICK d \in ExpenseDesk!Calls \cup {ExpenseDesk!NoCall} : d = expenseTx[s].call
    BY DeskTxIs
  <2>4. ASSUME d.op = "Update"
        PROVE  d.match <= copy'[d.by][d.expense].version
    <3>1. d.match \in Int /\ d.by \in Users /\ d.expense \in Expenses
      BY <2>3, <2>4, ExpenseCallIs
    <3>2. d.match <= copy[d.by][d.expense].version
      BY <2>1, <2>3, <2>4 DEF Amending
    <3>3. copy[d.by][d.expense].version \in Int /\ expense[d.expense].version \in Int
      BY <3>1 DEF ExpenseInv, ExpenseTypes, ExpenseRow, ExpenseDesk!NoRow
    <3>4. \/ copy[d.by][d.expense] = expense[d.expense]
          \/ copy[d.by][d.expense].version < expense[d.expense].version
      BY <3>1 DEF ExpenseInv, CopiesAreOld
    <3> QED BY <1>2, <3>1, <3>2, <3>3, <3>4
  <2>5. Amending(s)'
    BY <1>1, <2>1, <2>3, <2>4 DEF Amending, AtWork, Entitled, ExpenseDesk!Past,
         ExpenseDesk!LockActiveExpenseOutlet, ExpenseDesk!MayServe
  <2> QED BY <2>2, <2>5
<1> QED BY <1>3, <1>4, <1>5, <1>6 DEF ExpenseInv

\* The owner changes who serves where, and waits for whoever counts on it.
LEMMA ExpenseStaffing ==
  ASSUME ExpenseInv, ExpenseDesk!Staffing
  PROVE  ExpenseInv'
<1>1. UNCHANGED <<expense, category, expenseTrail, copy, expenseTx>>
  BY DEF ExpenseDesk!Staffing
<1>2. active' \subseteq Users /\ assigned' \subseteq Users \X Outlets /\ open' \subseteq Outlets
  <2>1. active \subseteq Users /\ assigned \subseteq Users \X Outlets /\ open \subseteq Outlets
    BY DEF ExpenseInv, ExpenseTypes
  <2>2. CASE ExpenseDesk!UpdateStaff
    BY <2>1, <2>2 DEF ExpenseDesk!UpdateStaff
  <2>3. CASE ExpenseDesk!ReplaceStaffOutlets
    <3>1. PICK u \in Users, x \in Outlets :
            /\ assigned' = IF <<u, x>> \in assigned THEN assigned \ {<<u, x>>}
                           ELSE assigned \cup {<<u, x>>}
            /\ UNCHANGED <<active, open>>
      BY <2>3 DEF ExpenseDesk!ReplaceStaffOutlets
    <3>2. <<u, x>> \in Users \X Outlets
      OBVIOUS
    <3> QED BY <2>1, <3>1, <3>2
  <2>4. CASE ExpenseDesk!UpdateOutlet
    BY <2>1, <2>4 DEF ExpenseDesk!UpdateOutlet
  <2> QED BY <2>2, <2>3, <2>4 DEF ExpenseDesk!Staffing
<1>3. ASSUME NEW u, NEW x, Entitled(u, x), ExpenseDesk!UserLocked(u), ExpenseDesk!OutletLocked(x)
      PROVE  Entitled(u, x)'
  <2>1. CASE ExpenseDesk!UpdateStaff
    BY <1>3, <2>1 DEF ExpenseDesk!UpdateStaff, Entitled, ExpenseDesk!LockActiveExpenseOutlet,
         ExpenseDesk!MayServe
  <2>2. CASE ExpenseDesk!ReplaceStaffOutlets
    BY <1>3, <2>2 DEF ExpenseDesk!ReplaceStaffOutlets, Entitled, ExpenseDesk!LockActiveExpenseOutlet,
         ExpenseDesk!MayServe
  <2>3. CASE ExpenseDesk!UpdateOutlet
    BY <1>3, <2>3 DEF ExpenseDesk!UpdateOutlet, Entitled, ExpenseDesk!LockActiveExpenseOutlet,
         ExpenseDesk!MayServe
  <2> QED BY <2>1, <2>2, <2>3 DEF ExpenseDesk!Staffing
<1>4. ExpenseTypes' /\ CopiesAreOld'
  BY <1>1, <1>2 DEF ExpenseInv, ExpenseTypes, CopiesAreOld
<1>5. DesksApart'
  BY <1>1 DEF ExpenseInv, DesksApart, DeskApart, ExpenseDesk!HoldsExpense,
       ExpenseDesk!Working, ExpenseDesk!SharesCategory, ExpenseDesk!HoldsCategory, ExpenseDesk!Past
<1>6. ASSUME NEW s \in Requests
      PROVE  (DeskIdle(s) /\ Entering(s) /\ Amending(s) /\ Filing(s) /\ Classifying(s))'
  <2>1. DeskIdle(s) /\ Entering(s) /\ Amending(s) /\ Filing(s) /\ Classifying(s)
    BY DEF ExpenseInv
  <2>2. (DeskIdle(s) /\ Filing(s) /\ Classifying(s))'
    BY <1>1, <2>1 DEF DeskIdle, Filing, Classifying, OutletOf, ExpenseDesk!OutletFor
  <2>3. PICK d \in ExpenseDesk!Calls \cup {ExpenseDesk!NoCall}, t \in DeskTx :
          d = expenseTx[s].call /\ t = expenseTx[s]
    BY DeskTxIs
  <2>4. ASSUME d.op = "Create", AtWork(s)
        PROVE  Entitled(d.by, d.outlet)'
    <3>1. Entitled(d.by, d.outlet)
      BY <2>1, <2>3, <2>4 DEF Entering
    <3>2. ExpenseDesk!UserLocked(d.by) /\ ExpenseDesk!OutletLocked(d.outlet)
      BY <2>3, <2>4 DEF ExpenseDesk!UserLocked, ExpenseDesk!OutletLocked, ExpenseDesk!SharesUser,
           ExpenseDesk!SharesOutlet, ExpenseDesk!Working, AtWork
    <3> QED BY <3>1, <3>2, <1>3
  <2>5. ASSUME d.op = "Update", AtWork(s)
        PROVE  Entitled(d.by, t.old.outlet)'
    <3>1. Entitled(d.by, t.old.outlet)
      BY <2>1, <2>3, <2>5 DEF Amending
    <3>2. ExpenseDesk!UserLocked(d.by) /\ ExpenseDesk!OutletLocked(t.old.outlet)
      BY <2>3, <2>5 DEF ExpenseDesk!UserLocked, ExpenseDesk!OutletLocked, ExpenseDesk!HoldsUser,
           ExpenseDesk!HoldsOutlet, ExpenseDesk!Working, AtWork
    <3> QED BY <3>1, <3>2, <1>3
  <2>6. AtWork(s)' = AtWork(s)
    BY <1>1 DEF AtWork, ExpenseDesk!Past
  <2>7. Entering(s)'
    BY <1>1, <2>1, <2>3, <2>4, <2>6 DEF Entering
  <2>8. Amending(s)'
    BY <1>1, <2>1, <2>3, <2>5, <2>6 DEF Amending
  <2> QED BY <2>2, <2>7, <2>8
<1> QED BY <1>4, <1>5, <1>6 DEF ExpenseInv

\* The record as the table shows it.
LEMMA RecordedIs ==
  ASSUME NEW row \in ExpenseRow
  PROVE  /\ ExpenseDesk!Recorded(row) =
              [outlet |-> row.outlet, category |-> row.category, amount |-> row.amount]
         /\ ExpenseDesk!Recorded(row) # ExpenseDesk!Record!Nothing
<1>1. row # ExpenseDesk!NoRow
  BY DEF ExpenseRow, ExpenseDesk!NoRow
<1>2. ExpenseDesk!Recorded(row) =
        [outlet |-> row.outlet, category |-> row.category, amount |-> row.amount]
  BY <1>1 DEF ExpenseDesk!Recorded
<1>3. "outlet" \in DOMAIN [outlet |-> row.outlet, category |-> row.category, amount |-> row.amount]
  OBVIOUS
<1>4. "outlet" \notin DOMAIN ExpenseDesk!Record!Nothing
  BY DEF ExpenseDesk!Record!Nothing
<1> QED BY <1>2, <1>3, <1>4

LEMMA RecordOfNone == ExpenseDesk!Recorded(ExpenseDesk!NoRow) = ExpenseDesk!Record!Nothing
  BY DEF ExpenseDesk!Recorded, ExpenseDesk!Record!Nothing

\* What the record, the readers and the trail show.
records == [e \in Expenses |-> ExpenseDesk!Recorded(expense[e])]
readings == [u \in Users |-> [e \in Expenses |-> ExpenseDesk!Recorded(copy[u][e])]]
tellings ==
  [x \in Expenses \cup Categories |->
     IF x \in Expenses
     THEN <<ExpenseDesk!Recorded(expenseTrail[x][1]), ExpenseDesk!Recorded(expenseTrail[x][2])>>
     ELSE expenseTrail[x]]

\* A commit enters an expense, or amends the one that its author had read.
LEMMA ExpenseCommitRecords ==
  ASSUME ExpenseInv, NEW r \in Requests, ExpenseDesk!Create(r) \/ ExpenseDesk!Update(r)
  PROVE  ExpenseDesk!Record!Next
<1>1. PICK c \in ExpenseDesk!Calls \cup {ExpenseDesk!NoCall}, t \in DeskTx :
        c = expenseTx[r].call /\ t = expenseTx[r]
  BY DeskTxIs
<1>2. /\ c.op \in {"Create", "Update"}
      /\ c.by \in Users /\ c.expense \in Expenses
      /\ t.old = expense[c.expense] /\ t.new \in ExpenseRow
      /\ t.new.category = c.category /\ category[c.category].active
      /\ Entitled(c.by, t.new.outlet)
      /\ c.op = "Create" => t.old = ExpenseDesk!NoRow
      /\ c.op = "Update" => /\ t.old # ExpenseDesk!NoRow /\ t.new.outlet = t.old.outlet
                            /\ copy[c.by][c.expense] = t.old
      /\ expense' = [expense EXCEPT ![c.expense] = t.new]
      /\ expenseTrail' = [expenseTrail EXCEPT ![c.expense] = <<t.old, t.new>>]
      /\ UNCHANGED <<category, active, assigned, open, copy>>
  BY <1>1, CommittedIs
<1> DEFINE new == ExpenseDesk!Recorded(t.new)
           old == ExpenseDesk!Recorded(t.old)
<1>3. /\ new = [outlet |-> t.new.outlet, category |-> t.new.category, amount |-> t.new.amount]
      /\ new # ExpenseDesk!Record!Nothing
  BY <1>2, RecordedIs
<1>4. t.new.outlet \in Outlets /\ t.new.category \in Categories /\ t.new.amount \in Amounts
  BY <1>2 DEF ExpenseRow
<1>5. /\ expense' \in [Expenses -> ExpenseRow \cup {ExpenseDesk!NoRow}]
      /\ expense'[c.expense] = t.new
      /\ \A e \in Expenses \ {c.expense} : expense'[e] = expense[e]
  BY <1>2 DEF ExpenseInv, ExpenseTypes
<1>6. /\ expenseTrail'[c.expense] = <<t.old, t.new>>
      /\ \A x \in (Expenses \cup Categories) \ {c.expense} : expenseTrail'[x] = expenseTrail[x]
  BY <1>2 DEF ExpenseInv, ExpenseTypes
<1>7. records[c.expense] = old /\ records'[c.expense] = new
  BY <1>2, <1>5 DEF records
<1>8. records' = [records EXCEPT ![c.expense] = records'[c.expense]]
  BY <1>5 DEF records
<1>9. tellings' = [tellings EXCEPT ![c.expense] = <<records[c.expense], records'[c.expense]>>]
  <2>1. tellings' = [x \in Expenses \cup Categories |-> tellings'[x]]
    BY DEF tellings
  <2>2. tellings'[c.expense] = <<old, new>>
    BY <1>2, <1>6 DEF tellings
  <2>3. \A x \in (Expenses \cup Categories) \ {c.expense} : tellings'[x] = tellings[x]
    BY <1>6 DEF tellings
  <2>4. tellings = [x \in Expenses \cup Categories |-> tellings[x]]
    BY DEF tellings
  <2> QED BY <1>7, <2>1, <2>2, <2>3, <2>4
<1>10. readings' = readings
  BY <1>2 DEF readings
<1>11. ExpenseDesk!Record!Write(c.expense, t.new.outlet)
  <2>1. t.new.category \in ExpenseDesk!Record!inUse
    BY <1>2, <1>4 DEF ExpenseDesk!Record!inUse
  <2>2. /\ records'[c.expense] # ExpenseDesk!Record!Nothing
        /\ records'[c.expense].outlet = t.new.outlet
        /\ records'[c.expense].category = t.new.category
        /\ records'[c.expense].amount = t.new.amount
    BY <1>3, <1>7
  <2> QED BY <1>2, <1>4, <1>8, <1>9, <1>10, <2>1, <2>2
       DEF ExpenseDesk!Record!Write, records, tellings, readings
<1>12. ExpenseDesk!Record!Answers(c.by, t.new.outlet)
  BY <1>2 DEF Entitled, ExpenseDesk!LockActiveExpenseOutlet, ExpenseDesk!MayServe,
       ExpenseDesk!Record!Answers
<1>13. CASE c.op = "Create"
  <2>1. records[c.expense] = ExpenseDesk!Record!Nothing
    BY <1>2, <1>7, <1>13, RecordOfNone
  <2>2. ExpenseDesk!Record!Enter(c.by, c.expense)
    BY <1>4, <1>11, <1>12, <2>1 DEF ExpenseDesk!Record!Enter, records
  <2> QED BY <1>2, <2>2 DEF ExpenseDesk!Record!Next
<1>14. CASE c.op = "Update"
  <2>1. t.old \in ExpenseRow
    BY <1>2, <1>14 DEF ExpenseInv, ExpenseTypes
  <2>2. /\ records[c.expense] # ExpenseDesk!Record!Nothing
        /\ records[c.expense].outlet = t.new.outlet
    BY <1>2, <1>7, <1>14, <2>1, RecordedIs
  <2>3. readings[c.by][c.expense] = records[c.expense]
    BY <1>2, <1>7, <1>14 DEF readings
  <2>4. ExpenseDesk!Record!Amend(c.by, c.expense)
    <3>1. ExpenseDesk!Record!Answers(c.by, records[c.expense].outlet)
      BY <1>12, <2>2 DEF ExpenseDesk!Record!Answers
    <3>2. ExpenseDesk!Record!Write(c.expense, records[c.expense].outlet)
      BY <1>11, <2>2, Zenon DEF ExpenseDesk!Record!Write
    <3> QED BY <3>2, <2>2, <2>3, <3>1, Zenon DEF ExpenseDesk!Record!Amend, records, readings
  <2> QED BY <1>2, <2>4 DEF ExpenseDesk!Record!Next
<1> QED BY <1>2, <1>13, <1>14

\* Whoever reads an expense may, and has its record then.
LEMMA ExpenseGetReads ==
  ASSUME ExpenseInv, NEW u \in Users, NEW e \in Expenses, ExpenseDesk!Get(u, e)
  PROVE  ExpenseDesk!Record!Next
<1>1. /\ UNCHANGED <<expense, category, expenseTrail, active, assigned, open>>
      /\ copy' = [copy EXCEPT ![u][e] = expense[e]]
      /\ expense[e] # ExpenseDesk!NoRow /\ expense[e].outlet \in open
      /\ u \in Admins \/ <<u, expense[e].outlet>> \in assigned
  BY DEF ExpenseDesk!Get, ExpenseDesk!staffing, ExpenseDesk!GetExpense, ExpenseDesk!MayServe
<1>2. expense[e] \in ExpenseRow
  BY <1>1 DEF ExpenseInv, ExpenseTypes
<1>3. /\ records[e] # ExpenseDesk!Record!Nothing /\ records[e].outlet = expense[e].outlet
  BY <1>2, RecordedIs DEF records
<1>4. records' = records /\ tellings' = tellings
  BY <1>1 DEF records, tellings
<1>5. readings' = [readings EXCEPT ![u][e] = records[e]]
  <2>1. \A v \in Users, f \in Expenses :
          copy'[v][f] = IF v = u /\ f = e THEN expense[e] ELSE copy[v][f]
    <3>1. copy[u] \in [Expenses -> ExpenseRow \cup {ExpenseDesk!NoRow}]
      BY DEF ExpenseInv, ExpenseTypes
    <3> DEFINE new == [copy[u] EXCEPT ![e] = expense[e]]
    <3>2. \A f \in Expenses : new[f] = IF f = e THEN expense[e] ELSE copy[u][f]
      BY <3>1
    <3>3. copy' = [copy EXCEPT ![u] = new]
      BY <1>1
    <3> HIDE DEF new
    <3> QED BY <3>2, <3>3 DEF ExpenseInv, ExpenseTypes
  <2>2. readings' = [v \in Users |-> [f \in Expenses |-> ExpenseDesk!Recorded(copy'[v][f])]]
    BY DEF readings, ExpenseDesk!Recorded
  <2>3. \A f \in Expenses : ExpenseDesk!Recorded(copy'[u][f]) = IF f = e THEN records[e] ELSE readings[u][f]
    BY <2>1 DEF readings, records
  <2>4. [f \in Expenses |-> ExpenseDesk!Recorded(copy'[u][f])] = [readings[u] EXCEPT ![e] = records[e]]
    BY <2>3 DEF readings
  <2>5. \A v \in Users \ {u} :
          [f \in Expenses |-> ExpenseDesk!Recorded(copy'[v][f])] = readings[v]
    BY <2>1 DEF readings
  <2>6. readings = [v \in Users |-> readings[v]]
    BY DEF readings
  <2> QED BY <2>2, <2>4, <2>5, <2>6
<1>6. ExpenseDesk!Record!Read(u, e)
  <2>1. /\ records[e].outlet \in open
        /\ u \in Admins \/ <<u, records[e].outlet>> \in assigned
    BY <1>1, <1>3
  <2> QED BY <1>1, <1>3, <1>4, <1>5, <2>1, Zenon
       DEF ExpenseDesk!Record!Read, records, readings, tellings
<1> QED BY <1>6 DEF ExpenseDesk!Record!Next

LEMMA ExpenseClassifyRecords ==
  ASSUME ExpenseInv, NEW r \in Requests,
         ExpenseDesk!CreateCategory(r) \/ ExpenseDesk!UpdateCategory(r)
  PROVE  ExpenseDesk!Record!Next
<1>1. PICK k \in Categories :
        /\ category' = [category EXCEPT ![k] = category'[k]]
        /\ category'[k] # ExpenseDesk!NoCategory
        /\ expenseTrail' = [expenseTrail EXCEPT ![k] = <<category[k], category'[k]>>]
        /\ UNCHANGED <<expense, active, assigned, open, copy>>
  BY ClassifiedIs
<1>2. k \notin Expenses
  BY ExpenseAssumption
<1>3. records' = records /\ readings' = readings
  BY <1>1 DEF records, readings
<1>4. tellings' = [tellings EXCEPT ![k] = <<category[k], category'[k]>>]
  <2>1. /\ expenseTrail'[k] = <<category[k], category'[k]>>
        /\ \A x \in (Expenses \cup Categories) \ {k} : expenseTrail'[x] = expenseTrail[x]
    BY <1>1 DEF ExpenseInv, ExpenseTypes
  <2>2. tellings' = [x \in Expenses \cup Categories |-> tellings'[x]]
    BY DEF tellings
  <2>3. tellings'[k] = <<category[k], category'[k]>>
    BY <1>2, <2>1 DEF tellings
  <2>4. \A x \in (Expenses \cup Categories) \ {k} : tellings'[x] = tellings[x]
    BY <2>1 DEF tellings
  <2>5. tellings = [x \in Expenses \cup Categories |-> tellings[x]]
    BY DEF tellings
  <2> QED BY <2>2, <2>3, <2>4, <2>5
<1>5. ExpenseDesk!Record!Classify(k)
  BY <1>1, <1>3, <1>4, Zenon DEF ExpenseDesk!Record!Classify, records, readings, tellings
<1> QED BY <1>5 DEF ExpenseDesk!Record!Next

LEMMA ExpenseStaffingRecords ==
  ASSUME ExpenseInv, ExpenseDesk!Staffing
  PROVE  ExpenseDesk!Record!Next
<1>1. active' \subseteq Users /\ assigned' \subseteq Users \X Outlets /\ open' \subseteq Outlets
  BY ExpenseStaffing DEF ExpenseInv, ExpenseTypes
<1>2. UNCHANGED <<expense, category, expenseTrail, copy>>
  BY DEF ExpenseDesk!Staffing
<1>3. records' = records /\ readings' = readings /\ tellings' = tellings
  BY <1>2 DEF records, readings, tellings
<1>4. ExpenseDesk!Record!Staffing
  BY <1>1, <1>2, <1>3, Zenon DEF ExpenseDesk!Record!Staffing, records, readings, tellings
<1> QED BY <1>4 DEF ExpenseDesk!Record!Next

LEMMA ExpenseWork ==
  ASSUME ExpenseInv, NEW r \in Requests, ExpenseDesk!Work(r)
  PROVE  /\ ExpenseInv'
         /\ \/ ExpenseDesk!Record!Next
            \/ UNCHANGED <<expense, category, expenseTrail, active, assigned, open, copy>>
<1>1. CASE \/ ExpenseDesk!LockForCreate(r) \/ ExpenseDesk!LockForUpdate(r)
           \/ ExpenseDesk!LockAssignment(r) \/ ExpenseDesk!LockCategory(r) \/ ExpenseDesk!Write(r)
           \/ ExpenseDesk!LockCategoryRow(r) \/ ExpenseDesk!WriteCategory(r)
  <2>1. UNCHANGED <<expense, category, expenseTrail, active, assigned, open, copy>>
    BY <1>1 DEF ExpenseDesk!LockForCreate, ExpenseDesk!LockForUpdate, ExpenseDesk!LockAssignment,
         ExpenseDesk!LockCategory, ExpenseDesk!Write, ExpenseDesk!LockCategoryRow,
         ExpenseDesk!WriteCategory, ExpenseDesk!staffing
  <2> QED BY <1>1, <2>1, ExpenseLockForCreate, ExpenseLockForUpdate, ExpenseLockAssignment,
            ExpenseLockCategory, ExpenseWrite, ExpenseLockCategoryRow, ExpenseWriteCategory
<1>2. CASE ExpenseDesk!Create(r) \/ ExpenseDesk!Update(r)
  BY <1>2, ExpenseCommit, ExpenseCommitRecords
<1>3. CASE ExpenseDesk!CreateCategory(r) \/ ExpenseDesk!UpdateCategory(r)
  BY <1>3, ExpenseClassify, ExpenseClassifyRecords
<1>4. CASE ExpenseDesk!Refuse(r)
  BY <1>4, ExpenseRollback DEF ExpenseDesk!Refuse, ExpenseDesk!Rollback, ExpenseDesk!staffing
<1> QED BY <1>1, <1>2, <1>3, <1>4 DEF ExpenseDesk!Work

LEMMA ExpenseNext ==
  ASSUME ExpenseInv, [ExpenseDesk!Next]_expenseVars
  PROVE  /\ ExpenseInv'
         /\ \/ ExpenseDesk!Record!Next
            \/ UNCHANGED <<expense, category, expenseTrail, active, assigned, open, copy>>
<1>1. CASE UNCHANGED expenseVars
  <2>1. UNCHANGED <<expense, category, expenseTrail, active, assigned, open, copy, expenseTx>>
    BY <1>1 DEF expenseVars
  <2>2. ExpenseTypes' /\ CopiesAreOld'
    BY <2>1 DEF ExpenseInv, ExpenseTypes, CopiesAreOld
  <2>3. DesksApart'
    BY <2>1 DEF ExpenseInv, DesksApart, DeskApart, ExpenseDesk!HoldsExpense, ExpenseDesk!Working,
           ExpenseDesk!SharesCategory, ExpenseDesk!HoldsCategory, ExpenseDesk!Past
  <2>4. \A s \in Requests : (DeskIdle(s) /\ Entering(s) /\ Amending(s) /\ Filing(s) /\ Classifying(s))'
    BY <2>1 DEF ExpenseInv, DeskIdle, Entering, Amending, Filing, Classifying, AtWork, Entitled, OutletOf,
            ExpenseDesk!Past, ExpenseDesk!LockActiveExpenseOutlet, ExpenseDesk!MayServe,
            ExpenseDesk!OutletFor
  <2> QED BY <2>1, <2>2, <2>3, <2>4 DEF ExpenseInv
<1>2. ASSUME NEW r \in Requests, ExpenseDesk!Call(r)
      PROVE  ExpenseInv' /\ UNCHANGED <<expense, category, expenseTrail, active, assigned, open, copy>>
  BY <1>2, ExpenseCall DEF ExpenseDesk!Call, ExpenseDesk!staffing
<1>3. ASSUME NEW r \in Requests, ExpenseDesk!Rollback(r)
      PROVE  ExpenseInv' /\ UNCHANGED <<expense, category, expenseTrail, active, assigned, open, copy>>
  BY <1>3, ExpenseRollback DEF ExpenseDesk!Rollback, ExpenseDesk!staffing
<1>4. ASSUME NEW u \in Users, NEW e \in Expenses, ExpenseDesk!Get(u, e)
      PROVE  ExpenseInv' /\ ExpenseDesk!Record!Next
  BY <1>4, ExpenseGet, ExpenseGetReads
<1>5. CASE ExpenseDesk!Staffing
  BY <1>5, ExpenseStaffing, ExpenseStaffingRecords
<1> QED BY <1>1, <1>2, <1>3, <1>4, <1>5, ExpenseWork DEF ExpenseDesk!Next

\* Expenses, categories and their audit rows are kept as ExpenseRecord has it, for any
\* interleaving of edits with those who deactivate users, move assignments, close outlets
\* and retire categories: no edit is lost, none rests on what ended (Create, Update).
THEOREM ExpensesAlwaysRecorded == BackOfficeSpec => ExpensesRecorded
<1>1. BackOfficeInit => ExpenseInv
  BY ExpenseInit DEF BackOfficeInit
<1>2. [BackOfficeNext]_backOfficeVars => [ExpenseDesk!Next]_expenseVars
  BY DEF BackOfficeNext, backOfficeVars, ExpenseStep, CatalogStep, TemplateStep, ListingStep,
         ReportStep, TenantStep, LimiterStep
<1>3. ExpenseInv /\ [BackOfficeNext]_backOfficeVars => ExpenseInv'
  BY <1>2, ExpenseNext
<1>4. BackOfficeInit => ExpenseDesk!Record!Init
  <2>1. SUFFICES ASSUME ExpenseDesk!Init PROVE ExpenseDesk!Record!Init
    BY DEF BackOfficeInit
  <2>2. records = [e \in Expenses |-> ExpenseDesk!Record!Nothing]
    BY <2>1, RecordOfNone DEF ExpenseDesk!Init, records
  <2>3. readings = [u \in Users |-> [e \in Expenses |-> ExpenseDesk!Record!Nothing]]
    BY <2>1, RecordOfNone DEF ExpenseDesk!Init, readings
  <2>4. tellings = [x \in Expenses \cup Categories |->
                      IF x \in Expenses THEN <<ExpenseDesk!Record!Nothing, ExpenseDesk!Record!Nothing>>
                      ELSE <<ExpenseDesk!NoCategory, ExpenseDesk!NoCategory>>]
    BY <2>1, RecordOfNone DEF ExpenseDesk!Init, tellings
  <2> QED BY <2>1, <2>2, <2>3, <2>4, Zenon
       DEF ExpenseDesk!Init, ExpenseDesk!Record!Init, records, readings, tellings
<1>5. ExpenseInv /\ [BackOfficeNext]_backOfficeVars => [ExpenseDesk!Record!Next]_(ExpenseDesk!Record!vars)
  <2>1. SUFFICES ASSUME ExpenseInv, [BackOfficeNext]_backOfficeVars, ~ ExpenseDesk!Record!Next
                 PROVE  UNCHANGED ExpenseDesk!Record!vars
    OBVIOUS
  <2>2. UNCHANGED <<expense, category, expenseTrail, active, assigned, open, copy>>
    BY <2>1, <1>2, ExpenseNext
  <2> QED BY <2>2 DEF ExpenseDesk!Record!vars
<1>6. BackOfficeSpec => ExpenseDesk!Record!Spec
  BY <1>1, <1>3, <1>4, <1>5, PTL
  DEF BackOfficeSpec, ExpenseDesk!Record!Spec
<1> QED BY <1>6 DEF ExpensesRecorded, ExpenseDesk!ImplementsRecord
-------------------------------------------------------------------------------
(***************************************************************************)
(* The catalogs.  Whoever read a row holds it, and the row of who creates  *)
(* one is its own; what is written and not committed has no key of a live  *)
(* row, or of another that is written.                                     *)
(***************************************************************************)
CatalogRow ==
  [state : {"live", "deleted"}, name : Names, unit : Units \cup {"none"}, active : BOOLEAN,
   version : Nat]
CatalogPhases == {"idle", "called", "read", "written"}

CatalogTx ==
  [phase : CatalogPhases, call : Catalog!Calls \cup {Catalog!NoCall},
   old : CatalogRow \cup {Catalog!NoRow}, new : CatalogRow \cup {Catalog!NoRow}]

CatalogTypes ==
  /\ table \in [Catalog!Entries -> CatalogRow \cup {Catalog!NoRow}]
  /\ catalogTx \in [Requests -> CatalogTx]
  /\ \A r \in Requests : catalogTx[r].phase # "idle" => catalogTx[r].call \in Catalog!Calls

\* The row a request holds, or is about to add.
Owns(r, e) ==
  /\ catalogTx[r].phase # "idle" /\ catalogTx[r].call.entry = e
  /\ catalogTx[r].phase = "called" => catalogTx[r].call.op = "Create"
OwnersApart ==
  \A r, s \in Requests : \A e \in Catalog!Entries : Owns(r, e) /\ Owns(s, e) => r = s

\* What a request knows of its row, ...
Known(r) ==
  LET c == catalogTx[r].call
      e == c.entry
  IN  /\ catalogTx[r].phase \in {"idle", "called"} => catalogTx[r].old = Catalog!NoRow
      /\ catalogTx[r].phase # "idle" /\ c.op = "Create" =>
           /\ table[e] = Catalog!NoRow /\ catalogTx[r].old = Catalog!NoRow
           /\ catalogTx[r].phase # "read"
      /\ catalogTx[r].phase \in {"read", "written"} /\ c.op # "Create" =>
           Catalog!IsLive(table[e]) /\ catalogTx[r].old = table[e]
\* ... and what it has written.
Written(r) ==
  catalogTx[r].phase = "written" =>
    /\ catalogTx[r].new \in CatalogRow
    /\ catalogTx[r].new.state = IF catalogTx[r].call.op = "Delete" THEN "deleted" ELSE "live"

\* A written row and another one that is live, or also written.
Clear(r) ==
  catalogTx[r].phase = "written" /\ Catalog!IsLive(catalogTx[r].new) =>
    LET e == catalogTx[r].call.entry
        row == catalogTx[r].new
    IN  /\ \A f \in Catalog!Entries \ {e} :
             Catalog!IsLive(table[f]) => Catalog!Key(f, table[f]) # Catalog!Key(e, row)
        /\ \A s \in Requests \ {r} :
             catalogTx[s].phase = "written" /\ Catalog!IsLive(catalogTx[s].new) =>
               Catalog!Key(catalogTx[s].call.entry, catalogTx[s].new) # Catalog!Key(e, row)

CatalogInv ==
  /\ CatalogTypes /\ OwnersApart
  /\ \A r \in Requests : Known(r) /\ Written(r) /\ Clear(r)

LEMMA CallsHaveEntries ==
  ASSUME NEW c \in Catalog!Calls
  PROVE  /\ c.entry \in Catalog!Entries /\ c.op \in {"Create", "Update", "Delete"}
         /\ c.name \in Names /\ c.unit \in Units \cup {"none"} /\ c.active \in BOOLEAN
<1>1. CASE c \in Catalog!PerfumeCalls
  <2>1. PICK op \in {"Create", "Update", "Delete"}, e \in Perfumes, n \in Names, a \in BOOLEAN :
          c = [op |-> op, entry |-> e, name |-> n, unit |-> "none", active |-> a]
    BY <1>1 DEF Catalog!PerfumeCalls
  <2> QED BY <2>1 DEF Catalog!Entries
<1>2. CASE c \in Catalog!ServiceCalls
  <2>1. PICK op \in {"Create", "Update", "Delete"}, e \in Services, n \in Names, u \in Units,
             a \in BOOLEAN :
          c = [op |-> op, entry |-> e, name |-> n, unit |-> u, active |-> a]
    BY <1>2 DEF Catalog!ServiceCalls
  <2> QED BY <2>1 DEF Catalog!Entries
<1>3. CASE c \in Catalog!CustomerCalls
  <2>1. PICK op \in {"Create", "Update", "Delete"}, e \in Customers, n \in Names :
          c = [op |-> op, entry |-> e, name |-> n, unit |-> "none", active |-> TRUE]
    BY <1>3 DEF Catalog!CustomerCalls
  <2> QED BY <2>1 DEF Catalog!Entries
<1> QED BY <1>1, <1>2, <1>3 DEF Catalog!Calls

\* What is shown of a row.
LEMMA FromLive ==
  ASSUME NEW row \in CatalogRow, row.state = "live"
  PROVE  /\ Catalog!FromRow(row) =
              [state |-> "live", name |-> row.name, unit |-> row.unit, active |-> row.active]
         /\ Catalog!FromRow(row) \in Catalog!Content
<1>1. row.name \in Names /\ row.unit \in Units \cup {"none"} /\ row.active \in BOOLEAN
  BY DEF CatalogRow
<1>2. Catalog!FromRow(row) =
        [state |-> "live", name |-> row.name, unit |-> row.unit, active |-> row.active]
  BY DEF Catalog!FromRow
<1> QED BY <1>1, <1>2 DEF Catalog!Content

LEMMA FromDeleted ==
  ASSUME NEW row, row.state = "deleted"
  PROVE  Catalog!FromRow(row) = Catalog!Deleted
  BY DEF Catalog!FromRow

LEMMA FromNone == Catalog!FromRow(Catalog!NoRow) = Catalog!NoRow
  BY DEF Catalog!FromRow, Catalog!NoRow

\* A live row is shown, a deleted one or none is not.
LEMMA ShownIsLive ==
  ASSUME NEW row \in CatalogRow \cup {Catalog!NoRow}
  PROVE  Catalog!FromRow(row) \in Catalog!Content <=> Catalog!IsLive(row)
<1>1. CASE row = Catalog!NoRow
  BY <1>1, FromNone DEF Catalog!NoRow, Catalog!Content, Catalog!IsLive
<1>2. CASE row \in CatalogRow /\ row.state = "live"
  BY <1>2, FromLive DEF Catalog!IsLive
<1>3. CASE row \in CatalogRow /\ row.state = "deleted"
  BY <1>3, FromDeleted DEF Catalog!Deleted, Catalog!Content, Catalog!IsLive
<1> QED BY <1>1, <1>2, <1>3 DEF CatalogRow

\* The index looks at what is shown.
LEMMA KeyIsShown ==
  ASSUME NEW e \in Catalog!Entries, NEW row \in CatalogRow, row.state = "live"
  PROVE  Catalog!Key(e, Catalog!FromRow(row)) = Catalog!Key(e, row)
<1>1. Catalog!FromRow(row).name = row.name /\ Catalog!FromRow(row).unit = row.unit
  BY FromLive
<1> QED BY <1>1 DEF Catalog!Key

LEMMA CatalogInit == Catalog!Init => CatalogInv
<1>1. SUFFICES ASSUME Catalog!Init PROVE CatalogInv
  OBVIOUS
<1>2. CatalogTypes
  BY <1>1 DEF Catalog!Init, CatalogTypes, CatalogTx, Catalog!IdleTx, CatalogPhases
<1>3. \A r \in Requests : catalogTx[r].phase = "idle" /\ catalogTx[r].old = Catalog!NoRow
  BY <1>1 DEF Catalog!Init, Catalog!IdleTx
<1> QED BY <1>2, <1>3 DEF CatalogInv, OwnersApart, Owns, Known, Written, Clear

LEMMA CatalogCall ==
  ASSUME CatalogInv, NEW r \in Requests, Catalog!Call(r)
  PROVE  CatalogInv'
<1>1. CatalogTypes /\ OwnersApart /\ \A s \in Requests : Known(s) /\ Written(s) /\ Clear(s)
  BY DEF CatalogInv
<1>2. PICK c \in Catalog!Calls :
        /\ c.op = "Create" => Catalog!Fresh(c.entry)
        /\ catalogTx' = [catalogTx EXCEPT ![r] = [@ EXCEPT !.phase = "called", !.call = c]]
  BY DEF Catalog!Call
<1>3. catalogTx[r].phase = "idle" /\ UNCHANGED <<table, catalogTrail>>
  BY DEF Catalog!Call
<1>4. catalogTx[r] \in CatalogTx
  BY <1>1 DEF CatalogTypes
<1>5. /\ catalogTx'[r].phase = "called" /\ catalogTx'[r].call = c
      /\ catalogTx'[r].old = catalogTx[r].old
      /\ catalogTx'[r] \in CatalogTx
      /\ \A s \in Requests \ {r} : catalogTx'[s] = catalogTx[s]
  BY <1>1, <1>2, <1>4 DEF CatalogTypes, CatalogTx, CatalogPhases
<1>6. CatalogTypes'
  BY <1>1, <1>2, <1>3, <1>5 DEF CatalogTypes
<1>7. OwnersApart'
  <2>1. SUFFICES ASSUME NEW s \in Requests \ {r}, NEW e \in Catalog!Entries, Owns(r, e)', Owns(s, e)'
                 PROVE  FALSE
    BY <1>1, <1>5 DEF OwnersApart, Owns
  <2>2. c.op = "Create" /\ c.entry = e
    BY <2>1, <1>5 DEF Owns
  <2>3. catalogTx[s].phase # "idle" /\ catalogTx[s].call.entry = e
    BY <2>1, <1>5 DEF Owns
  <2> QED BY <2>2, <2>3, <1>2 DEF Catalog!Fresh
<1>8. ASSUME NEW s \in Requests PROVE Known(s)' /\ Written(s)' /\ Clear(s)'
  <2>1. CASE s = r
    <3>1. c.op = "Create" => table[c.entry] = Catalog!NoRow
      BY <1>2 DEF Catalog!Fresh
    <3> QED BY <2>1, <3>1, <1>1, <1>3, <1>5 DEF Known, Written, Clear
  <2>2. CASE s # r
    BY <2>2, <1>1, <1>3, <1>5 DEF Known, Written, Clear
  <2> QED BY <2>1, <2>2
<1> QED BY <1>6, <1>7, <1>8 DEF CatalogInv

LEMMA CatalogRead ==
  ASSUME CatalogInv, NEW r \in Requests, Catalog!Read(r)
  PROVE  CatalogInv'
<1> DEFINE e == catalogTx[r].call.entry
<1>1. CatalogTypes /\ OwnersApart /\ \A s \in Requests : Known(s) /\ Written(s) /\ Clear(s)
  BY DEF CatalogInv
<1>2. /\ catalogTx[r].phase = "called" /\ catalogTx[r].call.op # "Create"
      /\ ~ Catalog!RowHeld(e) /\ Catalog!Found(e)
      /\ catalogTx' = [catalogTx EXCEPT ![r] = [@ EXCEPT !.phase = "read", !.old = table[e]]]
      /\ UNCHANGED <<table, catalogTrail>>
  BY DEF Catalog!Read
<1>3. catalogTx[r] \in CatalogTx /\ catalogTx[r].call \in Catalog!Calls
  BY <1>1, <1>2 DEF CatalogTypes
<1>4. e \in Catalog!Entries
  BY <1>3, CallsHaveEntries
<1>5. Catalog!IsLive(table[e])
  BY <1>2 DEF Catalog!Found, Catalog!GetPerfumeForUpdate, Catalog!GetServiceForUpdate,
              Catalog!GetCustomerForUpdate
<1>6. table[e] # Catalog!NoRow
  BY <1>5 DEF Catalog!IsLive, Catalog!NoRow
<1>7. table[e] \in CatalogRow \cup {Catalog!NoRow}
  BY <1>1, <1>4 DEF CatalogTypes
<1>8. /\ catalogTx'[r].phase = "read" /\ catalogTx'[r].call = catalogTx[r].call
      /\ catalogTx'[r].old = table[e]
      /\ catalogTx'[r] \in CatalogTx
      /\ \A s \in Requests \ {r} : catalogTx'[s] = catalogTx[s]
  BY <1>1, <1>2, <1>3, <1>7 DEF CatalogTypes, CatalogTx, CatalogPhases
<1>9. CatalogTypes'
  BY <1>1, <1>2, <1>8 DEF CatalogTypes
<1>10. OwnersApart'
  <2>1. SUFFICES ASSUME NEW s \in Requests \ {r}, Owns(s, e), Owns(r, e)'
                 PROVE  FALSE
    BY <1>1, <1>8 DEF OwnersApart, Owns
  <2>2. CASE catalogTx[s].phase = "called"
    BY <2>1, <2>2, <1>1, <1>6 DEF Owns, Known
  <2>3. CASE catalogTx[s].phase # "called"
    <3>1. catalogTx[s].phase \in {"read", "written"}
      BY <2>1, <2>3, <1>1 DEF CatalogTypes, CatalogTx, CatalogPhases, Owns
    <3> QED BY <2>1, <3>1, <1>2 DEF Catalog!RowHeld, Owns
  <2> QED BY <2>2, <2>3
<1>11. ASSUME NEW s \in Requests PROVE Known(s)' /\ Written(s)' /\ Clear(s)'
  <2>1. CASE s = r
    BY <2>1, <1>2, <1>5, <1>8 DEF Known, Written, Clear
  <2>2. CASE s # r
    BY <2>2, <1>1, <1>2, <1>8 DEF Known, Written, Clear
  <2> QED BY <2>1, <2>2
<1> QED BY <1>9, <1>10, <1>11 DEF CatalogInv

\* A statement that writes a row with a key that nobody has.
LEMMA CatalogWrite ==
  ASSUME CatalogInv, NEW r \in Requests, NEW row \in CatalogRow, row.state = "live",
         \/ catalogTx[r].phase = "called" /\ catalogTx[r].call.op = "Create"
         \/ catalogTx[r].phase = "read" /\ catalogTx[r].call.op = "Update",
         Catalog!Writes(r, row)
  PROVE  CatalogInv'
<1> DEFINE e == catalogTx[r].call.entry
<1>1. CatalogTypes /\ OwnersApart /\ \A s \in Requests : Known(s) /\ Written(s) /\ Clear(s)
  BY DEF CatalogInv
<1>2. /\ ~ Catalog!IndexHeld(r, e, row) /\ ~ Catalog!Taken(e, row)
      /\ catalogTx' = [catalogTx EXCEPT ![r] = [@ EXCEPT !.phase = "written", !.new = row]]
      /\ UNCHANGED <<table, catalogTrail>>
  BY DEF Catalog!Writes
<1>3. catalogTx[r] \in CatalogTx /\ catalogTx[r].call \in Catalog!Calls
  BY <1>1 DEF CatalogTypes
<1>4. e \in Catalog!Entries
  BY <1>3, CallsHaveEntries
<1>5. /\ catalogTx'[r].phase = "written" /\ catalogTx'[r].call = catalogTx[r].call
      /\ catalogTx'[r].old = catalogTx[r].old /\ catalogTx'[r].new = row
      /\ catalogTx'[r] \in CatalogTx
      /\ \A s \in Requests \ {r} : catalogTx'[s] = catalogTx[s]
  BY <1>1, <1>2, <1>3 DEF CatalogTypes, CatalogTx, CatalogPhases
<1>6. CatalogTypes'
  BY <1>1, <1>2, <1>3, <1>5 DEF CatalogTypes
<1>7. Owns(r, e) /\ \A s \in Requests, f \in Catalog!Entries : Owns(s, f)' <=> Owns(s, f)
  BY <1>5 DEF Owns
<1>8. OwnersApart'
  BY <1>1, <1>7 DEF OwnersApart
<1>9. ASSUME NEW s \in Requests \ {r}, catalogTx[s].phase = "written",
             Catalog!IsLive(catalogTx[s].new)
      PROVE  Catalog!Key(catalogTx[s].call.entry, catalogTx[s].new) # Catalog!Key(e, row)
  <2>1. catalogTx[s].call.entry # e
    BY <1>9, <1>7, <1>1, <1>4 DEF OwnersApart, Owns
  <2>2. ~ Catalog!Collides(e, row, catalogTx[s].call.entry, catalogTx[s].new)
    BY <1>2, <1>9 DEF Catalog!IndexHeld
  <2> QED BY <2>1, <2>2, <1>9 DEF Catalog!Collides
<1>10. ASSUME NEW f \in Catalog!Entries \ {e}, Catalog!IsLive(table[f])
       PROVE  Catalog!Key(f, table[f]) # Catalog!Key(e, row)
  BY <1>2, <1>10 DEF Catalog!Taken, Catalog!Collides
<1>11. ASSUME NEW s \in Requests PROVE Known(s)' /\ Written(s)' /\ Clear(s)'
  <2>1. CASE s = r
    <3>1. Known(r)' /\ Written(r)'
      BY <1>1, <1>2, <1>3, <1>5 DEF Known, Written, Catalog!IsLive
    <3>2. Clear(r)'
      BY <1>2, <1>5, <1>9, <1>10 DEF Clear
    <3> QED BY <2>1, <3>1, <3>2
  <2>2. CASE s # r
    <3>1. Known(s)' /\ Written(s)'
      BY <2>2, <1>1, <1>2, <1>5 DEF Known, Written
    <3>2. Clear(s)'
      BY <2>2, <1>1, <1>2, <1>5, <1>9 DEF Clear
    <3> QED BY <3>1, <3>2
  <2> QED BY <2>1, <2>2
<1> QED BY <1>6, <1>8, <1>11 DEF CatalogInv

\* One that takes a row out of the index.
LEMMA CatalogDelete ==
  ASSUME CatalogInv, NEW r \in Requests, NEW row \in CatalogRow, row.state = "deleted",
         catalogTx[r].phase = "read" /\ catalogTx[r].call.op = "Delete",
         Catalog!Deletes(r, row)
  PROVE  CatalogInv'
<1>1. CatalogTypes /\ OwnersApart /\ \A s \in Requests : Known(s) /\ Written(s) /\ Clear(s)
  BY DEF CatalogInv
<1>2. /\ catalogTx' = [catalogTx EXCEPT ![r] = [@ EXCEPT !.phase = "written", !.new = row]]
      /\ UNCHANGED <<table, catalogTrail>>
  BY DEF Catalog!Deletes
<1>3. catalogTx[r] \in CatalogTx /\ catalogTx[r].call \in Catalog!Calls
  BY <1>1 DEF CatalogTypes
<1>4. /\ catalogTx'[r].phase = "written" /\ catalogTx'[r].call = catalogTx[r].call
      /\ catalogTx'[r].old = catalogTx[r].old /\ catalogTx'[r].new = row
      /\ catalogTx'[r] \in CatalogTx
      /\ \A s \in Requests \ {r} : catalogTx'[s] = catalogTx[s]
  BY <1>1, <1>2, <1>3 DEF CatalogTypes, CatalogTx, CatalogPhases
<1>5. CatalogTypes'
  BY <1>1, <1>2, <1>3, <1>4 DEF CatalogTypes
<1>6. OwnersApart'
  BY <1>1, <1>4 DEF OwnersApart, Owns
<1>7. ASSUME NEW s \in Requests PROVE Known(s)' /\ Written(s)' /\ Clear(s)'
  <2>1. CASE s = r
    BY <2>1, <1>1, <1>2, <1>4 DEF Known, Written, Clear, Catalog!IsLive
  <2>2. CASE s # r
    BY <2>2, <1>1, <1>2, <1>4 DEF Known, Written, Clear, Catalog!IsLive
  <2> QED BY <2>1, <2>2
<1> QED BY <1>5, <1>6, <1>7 DEF CatalogInv

LEMMA CatalogRollback ==
  ASSUME CatalogInv, NEW r \in Requests, Catalog!Rollback(r)
  PROVE  CatalogInv'
<1>1. CatalogTypes /\ OwnersApart /\ \A s \in Requests : Known(s) /\ Written(s) /\ Clear(s)
  BY DEF CatalogInv
<1>2. /\ catalogTx' = [catalogTx EXCEPT ![r] = Catalog!IdleTx]
      /\ UNCHANGED <<table, catalogTrail>>
  BY DEF Catalog!Rollback, Catalog!Finish
<1>3. /\ catalogTx'[r].phase = "idle" /\ catalogTx'[r].old = Catalog!NoRow
      /\ catalogTx'[r] \in CatalogTx
      /\ \A s \in Requests \ {r} : catalogTx'[s] = catalogTx[s]
  BY <1>1, <1>2 DEF CatalogTypes, CatalogTx, CatalogPhases, Catalog!IdleTx
<1>4. CatalogTypes'
  BY <1>1, <1>2, <1>3 DEF CatalogTypes
<1>5. OwnersApart'
  BY <1>1, <1>3 DEF OwnersApart, Owns
<1>6. ASSUME NEW s \in Requests PROVE Known(s)' /\ Written(s)' /\ Clear(s)'
  <2>1. CASE s = r
    BY <2>1, <1>2, <1>3 DEF Known, Written, Clear
  <2>2. CASE s # r
    BY <2>2, <1>1, <1>2, <1>3 DEF Known, Written, Clear
  <2> QED BY <2>1, <2>2
<1> QED BY <1>4, <1>5, <1>6 DEF CatalogInv

\* A row that takes the place of another, seen from outside.
LEMMA ShelfStep ==
  ASSUME CatalogTypes, NEW e \in Catalog!Entries, NEW new \in CatalogRow,
         table' = [table EXCEPT ![e] = new],
         Catalog!WriteAudit(e, table[e], new)
  PROVE  /\ Catalog!Shelf!Only(e)
         /\ [f \in Catalog!Entries |-> Catalog!FromRow(table[f])]'[e] = Catalog!FromRow(new)
         /\ /\ new.state = "live"
            /\ \A f \in Catalog!Entries \ {e} :
                 Catalog!IsLive(table[f]) => Catalog!Key(f, table[f]) # Catalog!Key(e, new)
            => Catalog!Shelf!Write(e)
<1> DEFINE shelf == [f \in Catalog!Entries |-> Catalog!FromRow(table[f])]
<1>1. /\ table'[e] = new
      /\ \A f \in Catalog!Entries \ {e} : table'[f] = table[f]
  BY DEF CatalogTypes
<1>2. shelf'[e] = Catalog!FromRow(new) /\ shelf[e] = Catalog!FromRow(table[e])
  BY <1>1
<1>3. shelf' = [shelf EXCEPT ![e] = shelf'[e]]
  <2>1. shelf' = [f \in Catalog!Entries |-> Catalog!FromRow(table'[f])]
    OBVIOUS
  <2>2. \A f \in Catalog!Entries : table'[f] = IF f = e THEN new ELSE table[f]
    BY <1>1
  <2>3. shelf' = [f \in Catalog!Entries |-> IF f = e THEN Catalog!FromRow(new) ELSE Catalog!FromRow(table[f])]
    BY <2>1, <2>2
  <2>4. shelf = [f \in Catalog!Entries |-> Catalog!FromRow(table[f])]
    OBVIOUS
  <2> HIDE DEF shelf
  <2> QED BY <2>3, <2>4
<1>4. Catalog!Shelf!Only(e)
  BY <1>2, <1>3 DEF Catalog!Shelf!Only, Catalog!WriteAudit
<1>5. ASSUME new.state = "live",
             \A f \in Catalog!Entries \ {e} :
               Catalog!IsLive(table[f]) => Catalog!Key(f, table[f]) # Catalog!Key(e, new)
      PROVE  Catalog!Shelf!Write(e)
  <2>1. Catalog!FromRow(new) \in Catalog!Content
    BY <1>5, FromLive
  <2>2. ASSUME NEW f \in Catalog!Entries \ {e}, shelf[f] \in Catalog!Content
        PROVE  Catalog!Key(f, shelf[f]) # Catalog!Key(e, shelf'[e])
    <3>1. table[f] \in CatalogRow \cup {Catalog!NoRow} /\ shelf[f] = Catalog!FromRow(table[f])
      BY DEF CatalogTypes
    <3>2. Catalog!IsLive(table[f])
      BY <3>1, <2>2, ShownIsLive
    <3>3. table[f] \in CatalogRow /\ table[f].state = "live"
      BY <3>1, <3>2 DEF Catalog!IsLive, Catalog!NoRow
    <3>4. Catalog!Key(f, table[f]) # Catalog!Key(e, new)
      BY <3>2, <1>5
    <3>5. Catalog!Key(f, shelf[f]) = Catalog!Key(f, table[f])
      BY <3>1, <3>3, KeyIsShown
    <3>6. Catalog!Key(e, shelf'[e]) = Catalog!Key(e, new)
      BY <1>2, <1>5, KeyIsShown
    <3> QED BY <3>4, <3>5, <3>6
  <2>3. shelf'[e] \in Catalog!Content
    BY <1>2, <2>1
  <2> QED BY <2>2, <2>3 DEF Catalog!Shelf!Write, Catalog!Shelf!Live
<1> QED BY <1>2, <1>4, <1>5

\* The commit shows what was written.
LEMMA CatalogCommit ==
  ASSUME CatalogInv, NEW r \in Requests, Catalog!Commit(r)
  PROVE  CatalogInv' /\ Catalog!Shelf!Next
<1> DEFINE e == catalogTx[r].call.entry
           new == catalogTx[r].new
<1>1. CatalogTypes /\ OwnersApart /\ \A s \in Requests : Known(s) /\ Written(s) /\ Clear(s)
  BY DEF CatalogInv
<1>2. /\ catalogTx[r].phase = "written"
      /\ table' = [table EXCEPT ![e] = new]
      /\ Catalog!WriteAudit(e, catalogTx[r].old, new)
      /\ catalogTx' = [catalogTx EXCEPT ![r] = Catalog!IdleTx]
  BY DEF Catalog!Commit, Catalog!Finish
<1>3. catalogTx[r].call \in Catalog!Calls
  BY <1>1, <1>2 DEF CatalogTypes
<1>4. e \in Catalog!Entries /\ catalogTx[r].call.op \in {"Create", "Update", "Delete"}
  BY <1>3, CallsHaveEntries
<1>5. new \in CatalogRow /\ new.state = IF catalogTx[r].call.op = "Delete" THEN "deleted" ELSE "live"
  BY <1>1, <1>2 DEF Written
<1>6. /\ catalogTx'[r].phase = "idle" /\ catalogTx'[r].old = Catalog!NoRow
      /\ catalogTx'[r] \in CatalogTx
      /\ \A s \in Requests \ {r} : catalogTx'[s] = catalogTx[s]
  BY <1>1, <1>2 DEF CatalogTypes, CatalogTx, CatalogPhases, Catalog!IdleTx
<1>7. /\ table'[e] = new
      /\ \A f \in Catalog!Entries \ {e} : table'[f] = table[f]
      /\ table' \in [Catalog!Entries -> CatalogRow \cup {Catalog!NoRow}]
  BY <1>1, <1>2, <1>4, <1>5 DEF CatalogTypes
<1>8. CatalogTypes'
  BY <1>1, <1>2, <1>6, <1>7 DEF CatalogTypes
<1>9. OwnersApart'
  BY <1>1, <1>6 DEF OwnersApart, Owns
<1>10. Owns(r, e)
  BY <1>2 DEF Owns
<1>11. ASSUME NEW s \in Requests PROVE Known(s)' /\ Written(s)' /\ Clear(s)'
  <2>1. CASE s = r
    BY <2>1, <1>6 DEF Known, Written, Clear
  <2>2. CASE s # r
    <3> DEFINE f == catalogTx[s].call.entry
    <3>1. catalogTx'[s] = catalogTx[s] /\ Known(s) /\ Written(s) /\ Clear(s)
      BY <2>2, <1>1, <1>6
    <3>2. catalogTx[s].phase # "idle" => f \in Catalog!Entries
      BY <1>1, CallsHaveEntries DEF CatalogTypes
    <3>3. ASSUME Owns(s, f) PROVE f # e /\ table'[f] = table[f]
      <4>1. f # e
        BY <3>2, <3>3, <2>2, <1>1, <1>4, <1>10 DEF OwnersApart, Owns
      <4> QED BY <4>1, <3>2, <3>3, <1>7 DEF Owns
    <3> HIDE DEF f
    <3>4. Known(s)'
      BY <3>1, <3>3 DEF Known, Owns, f
    <3>5. Written(s)'
      BY <3>1 DEF Written
    <3>6. Clear(s)'
      <4>1. SUFFICES ASSUME catalogTx[s].phase = "written", Catalog!IsLive(catalogTx[s].new)
                     PROVE  Clear(s)'
        BY <3>1 DEF Clear
      <4>2. ASSUME NEW g \in Catalog!Entries \ {f}, Catalog!IsLive(table'[g])
            PROVE  Catalog!Key(g, table'[g]) # Catalog!Key(f, catalogTx[s].new)
        <5>1. CASE g = e
          BY <5>1, <4>1, <4>2, <3>1, <2>2, <1>2, <1>7 DEF Clear, f
        <5>2. CASE g # e
          BY <5>2, <4>1, <4>2, <3>1, <1>7 DEF Clear, f
        <5> QED BY <5>1, <5>2
      <4>3. \A t \in Requests \ {s} :
              catalogTx'[t].phase = "written" /\ Catalog!IsLive(catalogTx'[t].new) =>
                Catalog!Key(catalogTx'[t].call.entry, catalogTx'[t].new) # Catalog!Key(f, catalogTx[s].new)
        BY <4>1, <3>1, <1>6 DEF Clear, f
      <4> QED BY <4>2, <4>3, <3>1 DEF Clear, f
    <3> QED BY <3>4, <3>5, <3>6
  <2> QED BY <2>1, <2>2
<1>12. CatalogInv'
  BY <1>8, <1>9, <1>11 DEF CatalogInv
<1>13. catalogTx[r].old = table[e]
  BY <1>1, <1>2, <1>4 DEF Known
<1>14. PICK b \in Catalog!Entries, row \in CatalogRow : b = e /\ row = new
  BY <1>4, <1>5
<1>15. /\ Catalog!Shelf!Only(b)
       /\ [f \in Catalog!Entries |-> Catalog!FromRow(table[f])]'[b] = Catalog!FromRow(row)
       /\ row.state = "live" => Catalog!Shelf!Write(b)
  <2>1. table' = [table EXCEPT ![b] = row] /\ Catalog!WriteAudit(b, table[b], row)
    BY <1>2, <1>13, <1>14
  <2>2. row.state = "live" =>
          \A f \in Catalog!Entries \ {b} :
            Catalog!IsLive(table[f]) => Catalog!Key(f, table[f]) # Catalog!Key(b, row)
    BY <1>1, <1>2, <1>14 DEF Clear, Catalog!IsLive
  <2> QED BY <2>1, <2>2, <1>1, ShelfStep
<1>16. CASE catalogTx[r].call.op = "Create"
  <2>1. Catalog!FromRow(table[b]) = Catalog!NoRow
    BY <1>14, <1>16, <1>1, <1>2, FromNone DEF Known
  <2>2. row.state = "live"
    BY <1>5, <1>14, <1>16
  <2> QED BY <2>1, <2>2, <1>12, <1>15 DEF Catalog!Shelf!Next, Catalog!Shelf!Add
<1>17. CASE catalogTx[r].call.op # "Create"
  <2>1. Catalog!IsLive(table[b]) /\ table[b] \in CatalogRow \cup {Catalog!NoRow}
    BY <1>14, <1>17, <1>1, <1>2, <1>4 DEF Known, CatalogTypes
  <2>2. Catalog!Shelf!Live(b)
    BY <2>1, ShownIsLive DEF Catalog!Shelf!Live
  <2>3. CASE catalogTx[r].call.op = "Update"
    <3>1. row.state = "live"
      BY <1>5, <1>14, <2>3
    <3> QED BY <2>2, <3>1, <1>12, <1>15 DEF Catalog!Shelf!Next, Catalog!Shelf!Change
  <2>4. CASE catalogTx[r].call.op = "Delete"
    <3>1. Catalog!FromRow(row) = Catalog!Deleted
      BY <2>4, <1>5, <1>14, FromDeleted
    <3> QED BY <2>2, <3>1, <1>12, <1>15 DEF Catalog!Shelf!Next, Catalog!Shelf!Remove
  <2> QED BY <2>3, <2>4, <1>4, <1>17
<1> QED BY <1>12, <1>16, <1>17

\* What the statements write has its type.
LEMMA CatalogWork ==
  ASSUME CatalogInv, NEW r \in Requests, Catalog!Work(r), ~ Catalog!Commit(r)
  PROVE  CatalogInv' /\ UNCHANGED <<table, catalogTrail>>
<1> DEFINE c == catalogTx[r].call
           old == catalogTx[r].old
<1>1. CatalogTypes /\ \A s \in Requests : Known(s)
  BY DEF CatalogInv
<1>2. ASSUME catalogTx[r].phase # "idle"
      PROVE  /\ c \in Catalog!Calls /\ c.entry \in Catalog!Entries
             /\ c.name \in Names /\ c.unit \in Units \cup {"none"} /\ c.active \in BOOLEAN
  BY <1>1, <1>2, CallsHaveEntries DEF CatalogTypes
<1>3. ASSUME catalogTx[r].phase = "read", c.op # "Create"
      PROVE  old \in CatalogRow /\ old.state = "live"
  <2>1. old = table[c.entry] /\ Catalog!IsLive(old)
    BY <1>1, <1>3 DEF Known
  <2>2. old \in CatalogRow \cup {Catalog!NoRow}
    BY <2>1, <1>1, <1>2, <1>3 DEF CatalogTypes
  <2> QED BY <2>1, <2>2 DEF Catalog!IsLive, Catalog!NoRow
<1> HIDE DEF c, old
<1>4. CASE Catalog!Read(r)
  BY <1>4, CatalogRead DEF Catalog!Read
<1>5. CASE Catalog!Refuse(r)
  BY <1>5, CatalogRollback DEF Catalog!Refuse, Catalog!Rollback
<1>6. CASE Catalog!PerfumeCreate(r) \/ Catalog!ServiceCreate(r) \/ Catalog!CustomerCreate(r)
  <2>1. PICK v \in {0, 1} :
          /\ Catalog!Writes(r, Catalog!NewRow(c, v))
          /\ catalogTx[r].phase = "called" /\ c.op = "Create"
    BY <1>6 DEF Catalog!PerfumeCreate, Catalog!ServiceCreate, Catalog!CustomerCreate, Catalog!Asks,
                Catalog!CreatePerfume, Catalog!CreateService, Catalog!CreateCustomer, c
  <2>2. Catalog!NewRow(c, v) \in CatalogRow /\ Catalog!NewRow(c, v).state = "live"
    BY <2>1, <1>2 DEF Catalog!NewRow, CatalogRow
  <2> QED BY <2>1, <2>2, CatalogWrite DEF Catalog!Writes, c
<1>7. CASE Catalog!PerfumeUpdate(r) \/ Catalog!ServiceUpdate(r) \/ Catalog!CustomerUpdate(r)
  <2>1. catalogTx[r].phase = "read" /\ c.op = "Update"
    BY <1>7 DEF Catalog!PerfumeUpdate, Catalog!ServiceUpdate, Catalog!CustomerUpdate, Catalog!Asks, c
  <2>2. /\ old \in CatalogRow /\ old.state = "live" /\ old.version + 1 \in Nat
        /\ c.name \in Names /\ c.unit \in Units \cup {"none"} /\ c.active \in BOOLEAN
    BY <2>1, <1>2, <1>3 DEF CatalogRow
  <2>3. /\ Catalog!UpdatePerfume(old, c) \in CatalogRow
        /\ Catalog!UpdateService(old, c) \in CatalogRow
        /\ Catalog!UpdateCustomer(old, c) \in CatalogRow
    BY <2>2 DEF Catalog!UpdatePerfume, Catalog!UpdateService, Catalog!UpdateCustomer, CatalogRow
  <2>4. /\ Catalog!UpdatePerfume(old, c).state = "live"
        /\ Catalog!UpdateService(old, c).state = "live"
        /\ Catalog!UpdateCustomer(old, c).state = "live"
    BY <2>2 DEF Catalog!UpdatePerfume, Catalog!UpdateService, Catalog!UpdateCustomer, CatalogRow
  <2>5. PICK row \in CatalogRow : row.state = "live" /\ Catalog!Writes(r, row)
    BY <1>7, <2>3, <2>4 DEF Catalog!PerfumeUpdate, Catalog!ServiceUpdate, Catalog!CustomerUpdate, c, old
  <2> QED BY <2>1, <2>5, CatalogWrite DEF Catalog!Writes, c
<1>8. CASE Catalog!PerfumeDelete(r) \/ Catalog!ServiceDelete(r) \/ Catalog!CustomerDeactivate(r)
  <2>1. catalogTx[r].phase = "read" /\ c.op = "Delete"
    BY <1>8 DEF Catalog!PerfumeDelete, Catalog!ServiceDelete, Catalog!CustomerDeactivate, Catalog!Asks, c
  <2>2. old \in CatalogRow /\ old.version + 1 \in Nat
    BY <2>1, <1>3 DEF CatalogRow
  <2>3. /\ Catalog!SoftDeletePerfume(old) \in CatalogRow
        /\ Catalog!SoftDeleteService(old) \in CatalogRow
        /\ Catalog!DeactivateCustomer(old) \in CatalogRow
    BY <2>2 DEF Catalog!SoftDeletePerfume, Catalog!SoftDeleteService, Catalog!DeactivateCustomer, CatalogRow
  <2>4. /\ Catalog!SoftDeletePerfume(old).state = "deleted"
        /\ Catalog!SoftDeleteService(old).state = "deleted"
        /\ Catalog!DeactivateCustomer(old).state = "deleted"
    BY <2>2 DEF Catalog!SoftDeletePerfume, Catalog!SoftDeleteService, Catalog!DeactivateCustomer, CatalogRow
  <2>5. PICK row \in CatalogRow : row.state = "deleted" /\ Catalog!Deletes(r, row)
    BY <1>8, <2>3, <2>4 DEF Catalog!PerfumeDelete, Catalog!ServiceDelete, Catalog!CustomerDeactivate, old
  <2> QED BY <2>1, <2>5, CatalogDelete DEF Catalog!Deletes, c
<1> QED BY <1>4, <1>5, <1>6, <1>7, <1>8 DEF Catalog!Work

LEMMA CatalogNext ==
  ASSUME CatalogInv, [Catalog!Next]_catalogVars
  PROVE  /\ CatalogInv'
         /\ Catalog!Shelf!Next \/ UNCHANGED <<table, catalogTrail>>
<1>1. CASE UNCHANGED catalogVars
  BY <1>1 DEF catalogVars, CatalogInv, CatalogTypes, OwnersApart, Owns, Known, Written, Clear
<1>2. ASSUME NEW r \in Requests, Catalog!Call(r)
      PROVE  CatalogInv' /\ UNCHANGED <<table, catalogTrail>>
  BY <1>2, CatalogCall DEF Catalog!Call
<1>3. ASSUME NEW r \in Requests, Catalog!Rollback(r)
      PROVE  CatalogInv' /\ UNCHANGED <<table, catalogTrail>>
  BY <1>3, CatalogRollback DEF Catalog!Rollback
<1>4. ASSUME NEW r \in Requests, Catalog!Work(r)
      PROVE  /\ CatalogInv'
             /\ Catalog!Shelf!Next \/ UNCHANGED <<table, catalogTrail>>
  BY <1>4, CatalogCommit, CatalogWork
<1> QED BY <1>1, <1>2, <1>3, <1>4 DEF Catalog!Next

\* Perfumes, services and customers are kept as LiveCatalog has it: each commit adds,
\* changes or removes one entry, under a key that no other live entry has, and its audit
\* row tells just that; nothing else is ever seen (the handlers of the three catalogs,
\* perfumes_business_name_uq and services_business_name_unit_uq).
THEOREM CatalogsAlwaysKept == BackOfficeSpec => CatalogsKept
<1>1. BackOfficeInit => CatalogInv
  BY CatalogInit DEF BackOfficeInit
<1>2. [BackOfficeNext]_backOfficeVars => [Catalog!Next]_catalogVars
  BY DEF BackOfficeNext, backOfficeVars, ExpenseStep, CatalogStep, TemplateStep, ListingStep,
         ReportStep, TenantStep, LimiterStep
<1>3. CatalogInv /\ [BackOfficeNext]_backOfficeVars => CatalogInv'
  BY <1>2, CatalogNext
<1>4. BackOfficeInit => Catalog!Shelf!Init
  BY FromNone DEF BackOfficeInit, Catalog!Init, Catalog!Shelf!Init
<1>5. CatalogInv /\ [BackOfficeNext]_backOfficeVars =>
        [Catalog!Shelf!Next]_<<[e \in Catalog!Entries |-> Catalog!FromRow(table[e])], catalogTrail>>
  <2>1. SUFFICES ASSUME CatalogInv, [BackOfficeNext]_backOfficeVars, ~ Catalog!Shelf!Next
                 PROVE  UNCHANGED <<[e \in Catalog!Entries |-> Catalog!FromRow(table[e])], catalogTrail>>
    OBVIOUS
  <2>2. UNCHANGED <<table, catalogTrail>>
    BY <2>1, <1>2, CatalogNext
  <2> QED BY <2>2
<1> QED BY <1>1, <1>3, <1>4, <1>5, PTL DEF BackOfficeSpec, CatalogsKept, Catalog!ImplementsCatalog, Catalog!Shelf!Spec
-------------------------------------------------------------------------------
(***************************************************************************)
(* The receipt templates.  The lock on the outlet makes what was decided   *)
(* under it still right at the commit: the row that was read, and whether  *)
(* there is a default.                                                     *)
(***************************************************************************)
TemplateRow == [state : {"live", "deleted"}, name : Titles, isDefault : BOOLEAN]
TemplatePhases == {"idle", "called", "waiting", "locked", "decided"}

TemplateTx ==
  [phase : TemplatePhases, call : TemplateShelf!Calls \cup {TemplateShelf!NoCall},
   old : TemplateRow \cup {TemplateShelf!NoRow}, def : BOOLEAN]

TemplateTypes ==
  /\ template \in [Templates -> TemplateRow \cup {TemplateShelf!NoRow}]
  /\ outletOpen \in BOOLEAN
  /\ templateTx \in [Requests -> TemplateTx]
  /\ \A r \in Requests :
       /\ templateTx[r].phase = "idle" => templateTx[r].call = TemplateShelf!NoCall
       /\ templateTx[r].phase # "idle" => templateTx[r].call \in TemplateShelf!Calls

\* Only a live template is the default, and only one.
OneDefault ==
  /\ \A t \in Templates : template[t].isDefault => template[t].state = "live"
  /\ \A t, u \in Templates : template[t].isDefault /\ template[u].isDefault => t = u

\* One request at a time holds the outlet, which stays open.
OneHolder ==
  /\ \A r, s \in Requests : TemplateShelf!Holds(r) /\ TemplateShelf!Holds(s) => r = s
  /\ \A r \in Requests : TemplateShelf!Holds(r) => outletOpen

\* An id that is being created is nobody else's and has no row.
Creates(r, t) ==
  templateTx[r].phase # "idle" /\ templateTx[r].call.op = "CREATE" /\ templateTx[r].call.template = t
NewIds ==
  /\ \A r \in Requests, t \in Templates : Creates(r, t) => template[t] = TemplateShelf!NoRow
  /\ \A r, s \in Requests, t \in Templates : Creates(r, t) /\ Creates(s, t) => r = s

\* What was decided under the lock holds.
Decided(r) ==
  LET c == templateTx[r].call
  IN  templateTx[r].phase = "decided" =>
        /\ templateTx[r].old = template[c.template]
        /\ templateTx[r].def = TemplateShelf!WillBeDefault(c)
        /\ c.op # "CREATE" => template[c.template].state = "live"

TemplateInv ==
  TemplateTypes /\ OneDefault /\ OneHolder /\ NewIds /\ \A r \in Requests : Decided(r)

LEMMA TemplateCardinality == \A S : TemplateShelf!Cardinality(S) = Cardinality(S)
  BY DEF Cardinality, TemplateShelf!Cardinality, IsFiniteSet, TemplateShelf!IsFiniteSet

LEMMA CallsHaveTemplates ==
  ASSUME NEW c \in TemplateShelf!Calls
  PROVE  /\ c.template \in Templates /\ c.op \in {"CREATE", "UPDATE", "DELETE"}
         /\ c.op # "DELETE" => c.name \in Titles /\ c.isDefault \in {"true", "false", "null"}
         /\ c.op = "UPDATE" => c.isDefault # "null"
         /\ c # TemplateShelf!NoCall
<1>1. CASE c \in TemplateShelf!CreateCalls
  <2>1. PICK t \in Templates, n \in Titles, d \in {"true", "false", "null"} :
          c = [op |-> "CREATE", template |-> t, name |-> n, isDefault |-> d]
    BY <1>1 DEF TemplateShelf!CreateCalls
  <2> QED BY <2>1 DEF TemplateShelf!NoCall
<1>2. CASE c \in TemplateShelf!UpdateCalls
  <2>1. PICK t \in Templates, n \in Titles, d \in {"true", "false"} :
          c = [op |-> "UPDATE", template |-> t, name |-> n, isDefault |-> d]
    BY <1>2 DEF TemplateShelf!UpdateCalls
  <2> QED BY <2>1 DEF TemplateShelf!NoCall
<1>3. CASE c \in TemplateShelf!DeleteCalls
  <2>1. PICK t \in Templates : c = [op |-> "DELETE", template |-> t]
    BY <1>3 DEF TemplateShelf!DeleteCalls
  <2> QED BY <2>1 DEF TemplateShelf!NoCall
<1> QED BY <1>1, <1>2, <1>3 DEF TemplateShelf!Calls

\* Of any templates there is an oldest.
LEMMA OldestIsOne ==
  ASSUME NEW S \in SUBSET Templates, S # {}
  PROVE  TemplateShelf!Min(S) \in S
<1>1. S \subseteq Nat
  BY TemplateAssumption
<1>2. PICK t \in S : \A u \in S : ~ (<<u, t>> \in OpToRel(<, Nat))
  BY <1>1, NatLessThanWellFounded, WFMin
<1>3. \A u \in Nat : u < t => <<u, t>> \in OpToRel(<, Nat)
  BY <1>1 DEF OpToRel
<1>4. \A u \in S : t <= u
  <2>1. SUFFICES ASSUME NEW u \in S PROVE ~ (u < t)
    BY <1>1
  <2> QED BY <1>1, <1>2, <1>3
<1> QED BY <1>4 DEF TemplateShelf!Min

\* The one default, or 0 for none.
LEMMA DefaultIs ==
  ASSUME TemplateTypes, OneDefault
  PROVE  /\ \A t \in Templates : template[t].isDefault <=> TemplateShelf!Default = t
         /\ (\A t \in Templates : ~ template[t].isDefault) <=> TemplateShelf!Default = 0
         /\ TemplateShelf!Default \in Nat
<1> DEFINE joined == TemplateShelf!GetAuthorizedReceiptOrder
<1>1. joined = {t \in Templates : template[t].isDefault}
  BY DEF TemplateShelf!GetAuthorizedReceiptOrder, TemplateShelf!LiveTemplates, OneDefault
<1>2. \A t \in Templates : t \in Nat /\ t # 0
  BY TemplateAssumption
<1>3. CASE joined = {}
  <2>1. TemplateShelf!Default = 0
    BY <1>3 DEF TemplateShelf!Default
  <2> QED BY <2>1, <1>1, <1>2, <1>3
<1>4. CASE joined # {}
  <2>1. PICK t \in Templates : template[t].isDefault
    BY <1>1, <1>4
  <2>2. joined = {t}
    BY <1>1, <2>1 DEF OneDefault
  <2>3. TemplateShelf!Cardinality(joined) = 1
    BY <2>2, FS_Singleton, TemplateCardinality
  <2>4. TemplateShelf!Min(joined) = t
    BY <2>2, <2>1, OldestIsOne
  <2>5. TemplateShelf!Default = t
    BY <1>4, <2>3, <2>4 DEF TemplateShelf!Default
  <2> QED BY <2>5, <2>1, <1>2 DEF OneDefault
<1> QED BY <1>3, <1>4

LEMMA TemplateInit == TemplateShelf!Init => TemplateInv
<1>1. SUFFICES ASSUME TemplateShelf!Init PROVE TemplateInv
  OBVIOUS
<1>2. TemplateTypes
  BY <1>1 DEF TemplateShelf!Init, TemplateTypes, TemplateTx, TemplatePhases, TemplateShelf!IdleTx,
              TemplateShelf!NoRow
<1>3. \A r \in Requests : templateTx[r].phase = "idle"
  BY <1>1 DEF TemplateShelf!Init, TemplateShelf!IdleTx
<1>4. OneDefault
  BY <1>1 DEF TemplateShelf!Init, OneDefault, TemplateShelf!NoRow
<1> QED BY <1>2, <1>3, <1>4 DEF TemplateInv, OneHolder, TemplateShelf!Holds, NewIds, Creates, Decided

\* A request that changes nothing but its own transaction.
LEMMA TemplateMove ==
  ASSUME TemplateInv, NEW r \in Requests, NEW x \in TemplateTx,
         templateTx' = [templateTx EXCEPT ![r] = x],
         UNCHANGED <<template, outletOpen>>,
         x.phase = "idle" => x.call = TemplateShelf!NoCall,
         x.phase # "idle" =>
           /\ x.call \in TemplateShelf!Calls
           /\ templateTx[r].phase = "idle" /\ x.call.op = "CREATE" =>
                  /\ template[x.call.template] = TemplateShelf!NoRow
                  /\ \A s \in Requests : ~ Creates(s, x.call.template)
           /\ templateTx[r].phase # "idle" => x.call = templateTx[r].call,
         x.phase \in {"locked", "decided"} =>
           outletOpen /\ \A s \in Requests \ {r} : ~ TemplateShelf!Holds(s),
         x.phase = "decided" =>
           /\ x.old = template[x.call.template]
           /\ x.def = TemplateShelf!WillBeDefault(x.call)
           /\ x.call.op # "CREATE" => template[x.call.template].state = "live"
  PROVE  TemplateInv'
<1>1. TemplateTypes /\ OneDefault /\ OneHolder /\ NewIds /\ \A s \in Requests : Decided(s)
  BY DEF TemplateInv
<1>2. templateTx'[r] = x /\ \A s \in Requests \ {r} : templateTx'[s] = templateTx[s]
  BY <1>1 DEF TemplateTypes
<1>3. TemplateTypes'
  <2>1. templateTx' \in [Requests -> TemplateTx]
    BY <1>1 DEF TemplateTypes
  <2>2. \A s \in Requests :
       /\ templateTx'[s].phase = "idle" => templateTx'[s].call = TemplateShelf!NoCall
       /\ templateTx'[s].phase # "idle" => templateTx'[s].call \in TemplateShelf!Calls
    BY <1>1, <1>2 DEF TemplateTypes
  <2> QED BY <2>1, <2>2, <1>1 DEF TemplateTypes
<1>4. OneDefault'
  BY <1>1 DEF OneDefault
<1>5. OneHolder'
  BY <1>1, <1>2 DEF OneHolder, TemplateShelf!Holds
<1>6. NewIds'
  <2>1. ASSUME NEW s \in Requests, NEW t \in Templates, Creates(s, t)'
        PROVE  template[t] = TemplateShelf!NoRow
    BY <2>1, <1>1, <1>2 DEF NewIds, Creates
  <2>2. ASSUME NEW s \in Requests, NEW q \in Requests, NEW t \in Templates, Creates(s, t)', Creates(q, t)'
        PROVE  s = q
    <3>1. CASE s # r /\ q # r
      BY <2>2, <3>1, <1>1, <1>2 DEF NewIds, Creates
    <3>2. CASE s = r /\ q # r
      BY <2>2, <3>2, <1>1, <1>2 DEF NewIds, Creates
    <3>3. CASE s # r /\ q = r
      BY <2>2, <3>3, <1>1, <1>2 DEF NewIds, Creates
    <3> QED BY <3>1, <3>2, <3>3
  <2> QED BY <2>1, <2>2 DEF NewIds
<1>7. ASSUME NEW s \in Requests PROVE Decided(s)'
  <2>1. \A c : TemplateShelf!WillBeDefault(c)' = TemplateShelf!WillBeDefault(c)
    BY DEF TemplateShelf!WillBeDefault, TemplateShelf!HasActiveDefaultReceiptTemplate, TemplateShelf!LiveTemplates
  <2>2. CASE s = r
    BY <2>1, <2>2, <1>2 DEF Decided
  <2>3. CASE s # r
    BY <2>1, <2>3, <1>1, <1>2 DEF Decided
  <2> QED BY <2>2, <2>3
<1> QED BY <1>3, <1>4, <1>5, <1>6, <1>7 DEF TemplateInv

LEMMA TemplateCall ==
  ASSUME TemplateInv, NEW r \in Requests, TemplateShelf!Call(r)
  PROVE  /\ TemplateInv'
         /\ TemplateShelf!Promise!Ask(r)
<1>1. TemplateTypes
  BY DEF TemplateInv
<1>2. PICK c \in TemplateShelf!Calls :
        /\ c.op = "CREATE" =>
             template[c.template] = TemplateShelf!NoRow /\ \A s \in Requests :
               templateTx[s].call.op = "CREATE" => templateTx[s].call.template # c.template
        /\ templateTx' = [templateTx EXCEPT ![r] = [@ EXCEPT !.phase = "called", !.call = c]]
  BY DEF TemplateShelf!Call
<1>3. templateTx[r].phase = "idle" /\ UNCHANGED <<template, templateTrail, outletOpen, serving>>
  BY DEF TemplateShelf!Call
<1> DEFINE x == [templateTx[r] EXCEPT !.phase = "called", !.call = c]
<1>4. x \in TemplateTx /\ x.phase = "called" /\ x.call = c
  BY <1>1 DEF TemplateTypes, TemplateTx, TemplatePhases
<1>5. \A s \in Requests : c.op = "CREATE" => ~ Creates(s, c.template)
  BY <1>2 DEF Creates
<1>6. TemplateInv'
  <2>1. templateTx' = [templateTx EXCEPT ![r] = x]
    BY <1>2
  <2> HIDE DEF x
  <2> QED BY <2>1, <1>2, <1>3, <1>4, <1>5, TemplateMove
<1>7. TemplateShelf!Promise!Ask(r)
  <2>1. templateTx[r].call = TemplateShelf!NoCall
    BY <1>1, <1>3 DEF TemplateTypes
  <2>2. templateTx'[r].call = c /\ \A s \in Requests \ {r} : templateTx'[s] = templateTx[s]
    BY <1>1, <1>2, <1>4 DEF TemplateTypes
  <2>3. [s \in Requests |-> templateTx[s].call]' =
          [[s \in Requests |-> templateTx[s].call] EXCEPT ![r] = c]
    <3>1. [s \in Requests |-> templateTx[s].call]' = [s \in Requests |-> templateTx'[s].call]
      OBVIOUS
    <3> QED BY <3>1, <2>2
  <2>4. TemplateShelf!Default' = TemplateShelf!Default
    BY <1>3 DEF TemplateShelf!Default, TemplateShelf!GetAuthorizedReceiptOrder, TemplateShelf!LiveTemplates
  <2> QED BY <2>1, <2>3, <2>4, <1>3 DEF TemplateShelf!Promise!Ask, TemplateShelf!Promise!shelf
<1> QED BY <1>6, <1>7

LEMMA TemplateBegin ==
  ASSUME TemplateInv, NEW r \in Requests, TemplateShelf!Begin(r)
  PROVE  TemplateInv'
<1> DEFINE x == [templateTx[r] EXCEPT !.phase = "waiting"]
<1>1. TemplateTypes
  BY DEF TemplateInv
<1>2. /\ templateTx[r].phase = "called"
      /\ templateTx' = [templateTx EXCEPT ![r] = x]
      /\ UNCHANGED <<template, outletOpen>>
  BY <1>1 DEF TemplateShelf!Begin, TemplateShelf!Move, TemplateTypes
<1>3. x \in TemplateTx /\ x.phase = "waiting" /\ x.call = templateTx[r].call
  BY <1>1 DEF TemplateTypes, TemplateTx, TemplatePhases
<1>4. x.call \in TemplateShelf!Calls
  BY <1>1, <1>2, <1>3 DEF TemplateTypes
<1> HIDE DEF x
<1> QED BY <1>2, <1>3, <1>4, TemplateMove

LEMMA TemplateLock ==
  ASSUME TemplateInv, NEW r \in Requests, TemplateShelf!Lock(r)
  PROVE  TemplateInv'
<1> DEFINE x == [templateTx[r] EXCEPT !.phase = "locked"]
<1>1. TemplateTypes
  BY DEF TemplateInv
<1>2. /\ templateTx[r].phase = "waiting"
      /\ outletOpen /\ \A s \in Requests : ~ TemplateShelf!Holds(s)
      /\ templateTx' = [templateTx EXCEPT ![r] = x]
      /\ UNCHANGED <<template, outletOpen>>
  BY <1>1 DEF TemplateShelf!Lock, TemplateShelf!LockReceiptTemplateOutlet, TemplateShelf!Move, TemplateTypes
<1>3. x \in TemplateTx /\ x.phase = "locked" /\ x.call = templateTx[r].call
  BY <1>1 DEF TemplateTypes, TemplateTx, TemplatePhases
<1>4. x.call \in TemplateShelf!Calls
  BY <1>1, <1>2, <1>3 DEF TemplateTypes
<1> HIDE DEF x
<1> QED BY <1>2, <1>3, <1>4, TemplateMove

LEMMA TemplateDecide ==
  ASSUME TemplateInv, NEW r \in Requests, TemplateShelf!Decide(r)
  PROVE  TemplateInv'
<1> DEFINE c == templateTx[r].call
           x == [templateTx[r] EXCEPT !.phase = "decided", !.old = template[c.template],
                                      !.def = TemplateShelf!WillBeDefault(c)]
<1>1. TemplateTypes /\ OneHolder
  BY DEF TemplateInv
<1>2. /\ templateTx[r].phase = "locked"
      /\ c.op # "CREATE" => TemplateShelf!GetReceiptTemplateForUpdate(c.template)
      /\ templateTx' = [templateTx EXCEPT ![r] = x]
      /\ UNCHANGED <<template, outletOpen>>
  BY DEF TemplateShelf!Decide
<1>3. c \in TemplateShelf!Calls /\ c.template \in Templates
  BY <1>1, <1>2, CallsHaveTemplates DEF TemplateTypes
<1>4. template[c.template] \in TemplateRow \cup {TemplateShelf!NoRow}
  BY <1>1, <1>3 DEF TemplateTypes
<1>5. TemplateShelf!WillBeDefault(c) \in BOOLEAN
  BY DEF TemplateShelf!WillBeDefault, TemplateShelf!HasActiveDefaultReceiptTemplate
<1> HIDE DEF c
<1>6. /\ x \in TemplateTx /\ x.phase = "decided" /\ x.call = templateTx[r].call
      /\ x.old = template[c.template] /\ x.def = TemplateShelf!WillBeDefault(c)
  BY <1>1, <1>4, <1>5 DEF TemplateTypes, TemplateTx, TemplatePhases
<1>7. c.op # "CREATE" => template[c.template].state = "live"
  BY <1>2 DEF TemplateShelf!GetReceiptTemplateForUpdate, TemplateShelf!LiveTemplates
<1>8. outletOpen /\ \A s \in Requests \ {r} : ~ TemplateShelf!Holds(s)
  BY <1>1, <1>2 DEF OneHolder, TemplateShelf!Holds
<1> HIDE DEF x
<1>9. x.call = c
  BY <1>6 DEF c
<1> QED BY <1>2, <1>3, <1>6, <1>7, <1>8, <1>9, TemplateMove

LEMMA TemplateRollback ==
  ASSUME TemplateInv, NEW r \in Requests, TemplateShelf!Rollback(r)
  PROVE  /\ TemplateInv'
         /\ TemplateShelf!Promise!End(r)
<1>1. TemplateTypes
  BY DEF TemplateInv
<1>2. /\ templateTx[r].phase # "idle"
      /\ templateTx' = [templateTx EXCEPT ![r] = TemplateShelf!IdleTx]
      /\ UNCHANGED <<template, templateTrail, outletOpen>>
  BY DEF TemplateShelf!Rollback, TemplateShelf!Finish
<1>3. /\ TemplateShelf!IdleTx \in TemplateTx /\ TemplateShelf!IdleTx.phase = "idle"
      /\ TemplateShelf!IdleTx.call = TemplateShelf!NoCall
  BY DEF TemplateTx, TemplatePhases, TemplateShelf!IdleTx
<1>4. TemplateInv'
  BY <1>2, <1>3, TemplateMove
<1>5. templateTx[r].call # TemplateShelf!NoCall
  BY <1>1, <1>2, CallsHaveTemplates DEF TemplateTypes
<1>6. [s \in Requests |-> templateTx[s].call]' =
        [[s \in Requests |-> templateTx[s].call] EXCEPT ![r] = TemplateShelf!NoCall]
  <2>1. [s \in Requests |-> templateTx[s].call]' = [s \in Requests |-> templateTx'[s].call]
    OBVIOUS
  <2>2. \A s \in Requests : templateTx'[s].call = IF s = r THEN TemplateShelf!NoCall ELSE templateTx[s].call
    BY <1>1, <1>2, <1>3 DEF TemplateTypes
  <2> QED BY <2>1, <2>2
<1>7. TemplateShelf!Default' = TemplateShelf!Default
  BY <1>2 DEF TemplateShelf!Default, TemplateShelf!GetAuthorizedReceiptOrder, TemplateShelf!LiveTemplates
<1> QED BY <1>2, <1>4, <1>5, <1>6, <1>7 DEF TemplateShelf!Promise!End, TemplateShelf!Promise!shelf

\* The rest of the system opens and closes the outlet, unless it is held.
LEMMA TemplateEnvironment ==
  ASSUME TemplateInv, TemplateShelf!UpdateOutlet \/ TemplateShelf!Staffing
  PROVE  /\ TemplateInv'
         /\ TemplateShelf!Promise!Trade
<1>1. TemplateTypes /\ OneDefault /\ OneHolder /\ NewIds /\ \A s \in Requests : Decided(s)
  BY DEF TemplateInv
<1>2. UNCHANGED <<template, templateTrail, templateTx>>
  BY DEF TemplateShelf!UpdateOutlet, TemplateShelf!Staffing
<1>3. outletOpen' \in BOOLEAN
  BY <1>1 DEF TemplateShelf!UpdateOutlet, TemplateShelf!Staffing, TemplateTypes
<1>4. outletOpen' = outletOpen \/ \A r \in Requests : ~ TemplateShelf!Holds(r)
  BY DEF TemplateShelf!UpdateOutlet, TemplateShelf!Staffing
<1>5. OneHolder'
  <2>1. \A r \in Requests : TemplateShelf!Holds(r)' <=> TemplateShelf!Holds(r)
    BY <1>2 DEF TemplateShelf!Holds
  <2> QED BY <2>1, <1>1, <1>4 DEF OneHolder
<1>6. TemplateTypes'
  BY <1>1, <1>2, <1>3 DEF TemplateTypes
<1>7. OneDefault' /\ NewIds'
  BY <1>1, <1>2 DEF OneDefault, NewIds, Creates
<1>8. \A s \in Requests : Decided(s)'
  BY <1>1, <1>2 DEF Decided, TemplateShelf!WillBeDefault,
       TemplateShelf!HasActiveDefaultReceiptTemplate, TemplateShelf!LiveTemplates
<1>9. TemplateShelf!Default' = TemplateShelf!Default
  BY <1>2 DEF TemplateShelf!Default, TemplateShelf!GetAuthorizedReceiptOrder, TemplateShelf!LiveTemplates
<1>10. TemplateShelf!Promise!Trade
  BY <1>2, <1>3, <1>9 DEF TemplateShelf!Promise!Trade, TemplateShelf!Promise!shelf
<1> QED BY <1>5, <1>6, <1>7, <1>8, <1>10 DEF TemplateInv

LEMMA DefaultIsNext ==
  TemplateTypes' /\ OneDefault' =>
     /\ \A t \in Templates : template'[t].isDefault <=> TemplateShelf!Default' = t
     /\ (\A t \in Templates : ~ template'[t].isDefault) <=> TemplateShelf!Default' = 0
     /\ TemplateShelf!Default' \in Nat
<1> DEFINE D == /\ \A t \in Templates : template[t].isDefault <=> TemplateShelf!Default = t
                /\ (\A t \in Templates : ~ template[t].isDefault) <=> TemplateShelf!Default = 0
                /\ TemplateShelf!Default \in Nat
<1>1. TemplateTypes /\ OneDefault => D
  BY DefaultIs
<1>2. (TemplateTypes /\ OneDefault => D)'
  BY <1>1, PTL
<1> QED BY <1>2

\* What the shelf shows of a row.
LEMMA ShelfShows ==
  ASSUME TemplateTypes, OneDefault
  PROVE  /\ TemplateShelf!Promise!Live = TemplateShelf!LiveTemplates
         /\ \A t \in Templates :
              /\ TemplateShelf!Told(template[t]) =
                   << TemplateShelf!Told(template[t])[1], TemplateShelf!Default = t >>
              /\ TemplateShelf!Told(template[t])[1] =
                   IF template[t].state = "live" THEN template[t].name ELSE template[t].state
<1>1. \A t \in Templates :
        /\ template[t].state \in {"live", "deleted", "absent"}
        /\ template[t].state = "live" => template[t].name \in Titles /\ template[t].isDefault \in BOOLEAN
  BY DEF TemplateTypes, TemplateRow, TemplateShelf!NoRow
<1>2. ASSUME NEW t \in Templates
      PROVE  /\ TemplateShelf!Told(template[t])[1] =
                  IF template[t].state = "live" THEN template[t].name ELSE template[t].state
             /\ TemplateShelf!Told(template[t]) =
                   << TemplateShelf!Told(template[t])[1], TemplateShelf!Default = t >>
  <2>1. CASE template[t].state = "live"
    <3>1. template[t].isDefault = (TemplateShelf!Default = t)
      BY <1>1, <2>1, DefaultIs
    <3> QED BY <2>1, <3>1 DEF TemplateShelf!Told
  <2>2. CASE template[t].state # "live"
    <3>1. (TemplateShelf!Default = t) = FALSE
      BY <2>2, DefaultIs DEF OneDefault
    <3> QED BY <2>2, <3>1 DEF TemplateShelf!Told
  <2> QED BY <2>1, <2>2
<1>3. TemplateShelf!Promise!Live = TemplateShelf!LiveTemplates
  BY <1>1, <1>2, TemplateAssumption DEF TemplateShelf!Promise!Live, TemplateShelf!LiveTemplates
<1> QED BY <1>2, <1>3

\* A commit that changes the name of one template and the default.
LEMMA TemplateCommit ==
  ASSUME TemplateInv, NEW r \in Requests, NEW t \in Templates, NEW n, NEW d,
         templateTx[r].phase = "decided", t = templateTx[r].call.template,
         templateTx' = [templateTx EXCEPT ![r] = TemplateShelf!IdleTx], UNCHANGED outletOpen,
         template' \in [Templates -> TemplateRow \cup {TemplateShelf!NoRow}], OneDefault',
         \A u \in Templates \ {t} :
           /\ TemplateShelf!Told(template'[u])[1] = TemplateShelf!Told(template[u])[1]
           /\ template[u] = TemplateShelf!NoRow => template'[u] = TemplateShelf!NoRow,
         TemplateShelf!Told(template'[t])[1] = n, TemplateShelf!Default' = d,
         templateTrail' = <<t, TemplateShelf!Told(template[t]), <<n, d = t>> >>
  PROVE  /\ TemplateInv'
         /\ TemplateShelf!Promise!Change(t, n, d)
         /\ outletOpen
         /\ TemplateShelf!Promise!Effect(templateTx[r].call) => TemplateShelf!Promise!End(r)
<1>1. TemplateTypes /\ OneDefault /\ OneHolder /\ NewIds /\ \A s \in Requests : Decided(s)
  BY DEF TemplateInv
<1>2. /\ TemplateShelf!IdleTx \in TemplateTx /\ TemplateShelf!IdleTx.phase = "idle"
      /\ TemplateShelf!IdleTx.call = TemplateShelf!NoCall
  BY DEF TemplateTx, TemplatePhases, TemplateShelf!IdleTx
<1>3. \A s \in Requests : templateTx'[s] = IF s = r THEN TemplateShelf!IdleTx ELSE templateTx[s]
  BY <1>1 DEF TemplateTypes
<1>4. TemplateTypes'
  <2>1. templateTx' \in [Requests -> TemplateTx]
    BY <1>1, <1>2 DEF TemplateTypes
  <2> QED BY <2>1, <1>1, <1>2, <1>3 DEF TemplateTypes
<1>5. OneHolder' /\ \A s \in Requests : ~ TemplateShelf!Holds(s)'
  BY <1>1, <1>2, <1>3 DEF OneHolder, TemplateShelf!Holds
<1>6. NewIds'
  <2>1. \A s \in Requests, u \in Templates : Creates(s, u)' => s # r /\ Creates(s, u)
    BY <1>2, <1>3 DEF Creates
  <2>2. ASSUME NEW s \in Requests, NEW u \in Templates, Creates(s, u)'
        PROVE  template'[u] = TemplateShelf!NoRow
    <3>1. s # r /\ Creates(s, u) /\ template[u] = TemplateShelf!NoRow
      BY <2>1, <2>2, <1>1 DEF NewIds
    <3>2. u # t
      <4>1. SUFFICES ASSUME u = t PROVE FALSE
        OBVIOUS
      <4>2. templateTx[r].call.op # "CREATE"
        BY <3>1, <4>1, <1>1 DEF NewIds, Creates
      <4> QED BY <3>1, <4>1, <4>2, <1>1 DEF Decided, TemplateShelf!NoRow
    <3> QED BY <3>1, <3>2
  <2> QED BY <2>1, <2>2, <1>1 DEF NewIds
<1>7. \A s \in Requests : Decided(s)'
  BY <1>5 DEF Decided, TemplateShelf!Holds
<1>8. TemplateInv'
  BY <1>4, <1>5, <1>6, <1>7 DEF TemplateInv
<1>9. TemplateShelf!Promise!Change(t, n, d)
  <2> DEFINE names == [u \in Templates |-> TemplateShelf!Told(template[u])[1]]
  <2>1. names' = [u \in Templates |-> TemplateShelf!Told(template'[u])[1]]
    BY DEF TemplateShelf!Told
  <2>2. names' = [names EXCEPT ![t] = n]
    BY <2>1
  <2>3. TemplateShelf!Told(template[t]) = <<names[t], TemplateShelf!Default = t>>
    BY <1>1, ShelfShows
  <2> HIDE DEF names
  <2> QED BY <2>2, <2>3 DEF TemplateShelf!Promise!Change, TemplateShelf!Promise!Shown, names
<1>10. outletOpen
  BY <1>1 DEF OneHolder, TemplateShelf!Holds
<1>11. ASSUME TemplateShelf!Promise!Effect(templateTx[r].call)
       PROVE  TemplateShelf!Promise!End(r)
  <2>1. templateTx[r].call # TemplateShelf!NoCall
    BY <1>1, CallsHaveTemplates DEF TemplateTypes
  <2>2. [s \in Requests |-> templateTx[s].call]' =
          [[s \in Requests |-> templateTx[s].call] EXCEPT ![r] = TemplateShelf!NoCall]
    <3>1. [s \in Requests |-> templateTx[s].call]' = [s \in Requests |-> templateTx'[s].call]
      OBVIOUS
    <3>2. \A s \in Requests :
            templateTx'[s].call = IF s = r THEN TemplateShelf!NoCall ELSE templateTx[s].call
      BY <1>2, <1>3
    <3> QED BY <3>1, <3>2
  <2> QED BY <2>1, <2>2, <1>11 DEF TemplateShelf!Promise!End
<1> QED BY <1>8, <1>9, <1>10, <1>11

\* A row after its mark was taken from it, if it was.
LEMMA RowCleared ==
  ASSUME NEW row \in TemplateRow \cup {TemplateShelf!NoRow}, NEW def \in BOOLEAN, NEW new,
         new = IF def THEN [row EXCEPT !.isDefault = FALSE] ELSE row
  PROVE  /\ new \in TemplateRow \cup {TemplateShelf!NoRow}
         /\ new.state = row.state
         /\ new.state = "live" => new.name = row.name
         /\ new.isDefault <=> (row.isDefault /\ ~ def)
         /\ row = TemplateShelf!NoRow => new = TemplateShelf!NoRow
<1>1. CASE row = TemplateShelf!NoRow
  <2> DEFINE cleared == [row EXCEPT !.isDefault = FALSE]
  <2>1. cleared \in [state : {"absent"}, isDefault : {FALSE}]
    BY <1>1 DEF TemplateShelf!NoRow
  <2> HIDE DEF cleared
  <2>2. cleared = [state |-> cleared.state, isDefault |-> cleared.isDefault]
    BY <2>1
  <2>3. cleared.state = "absent" /\ cleared.isDefault = FALSE
    BY <2>1
  <2>4. cleared = TemplateShelf!NoRow
    BY <2>2, <2>3, Zenon DEF TemplateShelf!NoRow
  <2> QED BY <2>4, <1>1 DEF TemplateShelf!NoRow, cleared
<1>2. CASE row \in TemplateRow
  <2>1. [row EXCEPT !.isDefault = FALSE] \in TemplateRow
    BY <1>2 DEF TemplateRow
  <2>2. /\ [row EXCEPT !.isDefault = FALSE].state = row.state
        /\ [row EXCEPT !.isDefault = FALSE].name = row.name
        /\ [row EXCEPT !.isDefault = FALSE].isDefault = FALSE
    BY <1>2 DEF TemplateRow
  <2>3. row # TemplateShelf!NoRow
    BY <1>2 DEF TemplateShelf!NoRow, TemplateRow
  <2>4. CASE def
    BY <2>1, <2>2, <2>3, <2>4
  <2>5. CASE ~ def
    BY <1>2, <2>3, <2>5
  <2> QED BY <2>4, <2>5
<1> QED BY <1>1, <1>2

LEMMA TemplateWrite ==
  ASSUME TemplateInv, NEW r \in Requests,
         TemplateShelf!CreateTemplate(r) \/ TemplateShelf!UpdateTemplate(r)
  PROVE  /\ TemplateInv'
         /\ TemplateShelf!Promise!End(r)
<1> DEFINE c == templateTx[r].call
           def == templateTx[r].def
           cleared == IF def THEN TemplateShelf!ClearActiveDefaultReceiptTemplates ELSE template
<1>1. TemplateTypes /\ OneDefault /\ OneHolder /\ NewIds /\ Decided(r)
  BY DEF TemplateInv
<1>2. /\ templateTx[r].phase = "decided" /\ c.op \in {"CREATE", "UPDATE"} /\ ~ TemplateShelf!NameTaken(c)
      /\ template' = IF c.op = "CREATE" THEN TemplateShelf!CreateReceiptTemplate(cleared, c, def)
                     ELSE TemplateShelf!UpdateReceiptTemplate(cleared, c, def)
      /\ templateTrail' = <<c.template, TemplateShelf!Told(templateTx[r].old), <<c.name, def>> >>
      /\ templateTx' = [templateTx EXCEPT ![r] = TemplateShelf!IdleTx]
      /\ UNCHANGED outletOpen
  BY DEF TemplateShelf!CreateTemplate, TemplateShelf!UpdateTemplate, TemplateShelf!mutateTemplate,
         TemplateShelf!InsertReceiptTemplateAuditLog, TemplateShelf!Finish
<1>3. c \in TemplateShelf!Calls
  BY <1>1, <1>2 DEF TemplateTypes
<1>4. PICK t \in Templates : t = c.template
  BY <1>3, CallsHaveTemplates
<1>5. /\ c.name \in Titles /\ c.isDefault \in {"true", "false", "null"}
      /\ c.op = "UPDATE" => c.isDefault # "null"
  BY <1>2, <1>3, CallsHaveTemplates
<1>6. /\ templateTx[r].old = template[t] /\ def = TemplateShelf!WillBeDefault(c)
      /\ c.op # "CREATE" => template[t].state = "live"
      /\ c.op = "CREATE" => template[t] = TemplateShelf!NoRow
  <2>1. c.op = "CREATE" => Creates(r, t)
    BY <1>2, <1>4 DEF Creates
  <2> QED BY <2>1, <1>1, <1>2, <1>4 DEF Decided, NewIds
<1>7. def \in BOOLEAN
  BY <1>1 DEF TemplateTypes, TemplateTx
<1> HIDE DEF c, def
<1>8. /\ \A u \in Templates :
            cleared[u] = IF def THEN [template[u] EXCEPT !.isDefault = FALSE] ELSE template[u]
      /\ cleared = [u \in Templates |-> cleared[u]]
  BY <1>1, <1>7 DEF TemplateShelf!ClearActiveDefaultReceiptTemplates, TemplateTypes
<1> HIDE DEF cleared
<1>9. /\ cleared \in [Templates -> TemplateRow \cup {TemplateShelf!NoRow}]
      /\ \A u \in Templates :
           /\ cleared[u].state = template[u].state
           /\ cleared[u].state = "live" => cleared[u].name = template[u].name
           /\ cleared[u].isDefault <=> (template[u].isDefault /\ ~ def)
           /\ template[u] = TemplateShelf!NoRow => cleared[u] = TemplateShelf!NoRow
  <2>1. ASSUME NEW u \in Templates
        PROVE  /\ cleared[u] \in TemplateRow \cup {TemplateShelf!NoRow}
               /\ cleared[u].state = template[u].state
               /\ cleared[u].state = "live" => cleared[u].name = template[u].name
               /\ cleared[u].isDefault <=> (template[u].isDefault /\ ~ def)
               /\ template[u] = TemplateShelf!NoRow => cleared[u] = TemplateShelf!NoRow
    <3>1. template[u] \in TemplateRow \cup {TemplateShelf!NoRow}
      BY <1>1 DEF TemplateTypes
    <3> QED BY <3>1, <1>7, <1>8, RowCleared
  <2> QED BY <2>1, <1>8
<1>10. /\ template' \in [Templates -> TemplateRow \cup {TemplateShelf!NoRow}]
       /\ template'[t].state = "live" /\ template'[t].name = c.name /\ template'[t].isDefault = def
       /\ \A u \in Templates \ {t} : template'[u] = cleared[u]
  <2>1. CASE c.op = "CREATE"
    BY <2>1, <1>2, <1>4, <1>5, <1>7, <1>9 DEF TemplateShelf!CreateReceiptTemplate, TemplateRow
  <2>2. CASE c.op = "UPDATE"
    <3>1. cleared[t] \in TemplateRow /\ cleared[t].state = "live"
      BY <2>2, <1>6, <1>9 DEF TemplateRow, TemplateShelf!NoRow
    <3> DEFINE written == [[cleared[t] EXCEPT !.name = c.name] EXCEPT !.isDefault = def]
    <3>2. written \in TemplateRow
      BY <3>1, <1>5, <1>7 DEF TemplateRow
    <3>3. written.state = "live" /\ written.name = c.name /\ written.isDefault = def
      BY <3>1 DEF TemplateRow
    <3>4. TemplateShelf!UpdateReceiptTemplate(cleared, c, def) = [cleared EXCEPT ![t] = written]
      BY <1>4, <1>9 DEF TemplateShelf!UpdateReceiptTemplate
    <3> HIDE DEF written
    <3>5. template' = [cleared EXCEPT ![t] = written]
      BY <2>2, <3>4, <1>2
    <3> QED BY <3>2, <3>3, <3>5, <1>9
  <2> QED BY <2>1, <2>2, <1>2
<1>11. \A u \in Templates \ {t} : template'[u].isDefault <=> (template[u].isDefault /\ ~ def)
  BY <1>9, <1>10
<1>12. OneDefault'
  <2>1. \A u \in Templates : template'[u].isDefault => template'[u].state = "live"
    BY <1>1, <1>9, <1>10 DEF OneDefault
  <2>2. \A u \in Templates \ {t} : template'[u].isDefault /\ def => FALSE
    BY <1>11
  <2>3. ASSUME NEW u \in Templates, NEW v \in Templates, template'[u].isDefault, template'[v].isDefault
        PROVE  u = v
    <3>1. CASE def
      BY <3>1, <2>2, <2>3
    <3>2. CASE ~ def
      BY <3>2, <2>3, <1>1, <1>10, <1>11 DEF OneDefault
    <3> QED BY <3>1, <3>2
  <2> QED BY <2>1, <2>3 DEF OneDefault
<1>13. \A u \in Templates \ {t} :
         /\ TemplateShelf!Told(template'[u])[1] = TemplateShelf!Told(template[u])[1]
         /\ template[u] = TemplateShelf!NoRow => template'[u] = TemplateShelf!NoRow
  BY <1>9, <1>10 DEF TemplateShelf!Told
<1>14. TemplateShelf!Told(template'[t])[1] = c.name
  BY <1>10 DEF TemplateShelf!Told
<1>15. /\ TemplateShelf!Default' = TemplateShelf!Promise!Settled(c)
       /\ def <=> TemplateShelf!Promise!Settled(c) = t
  <2>1. /\ \A u \in Templates : template[u].isDefault <=> TemplateShelf!Default = u
        /\ (\A u \in Templates : ~ template[u].isDefault) <=> TemplateShelf!Default = 0
    BY <1>1, DefaultIs
  <2>2. TemplateTypes'
    <3>1. TemplateShelf!IdleTx \in TemplateTx
      BY DEF TemplateTx, TemplatePhases, TemplateShelf!IdleTx
    <3>2. templateTx' \in [Requests -> TemplateTx]
      BY <3>1, <1>1, <1>2 DEF TemplateTypes
    <3>3. \A s \in Requests : templateTx'[s] = IF s = r THEN TemplateShelf!IdleTx ELSE templateTx[s]
      BY <1>1, <1>2 DEF TemplateTypes
    <3> QED BY <3>2, <3>3, <1>1, <1>2, <1>10 DEF TemplateTypes, TemplateShelf!IdleTx
  <2>3. /\ \A u \in Templates : template'[u].isDefault <=> TemplateShelf!Default' = u
        /\ (\A u \in Templates : ~ template'[u].isDefault) <=> TemplateShelf!Default' = 0
    BY <2>2, <1>12, DefaultIsNext
  <2>4. t # 0
    BY TemplateAssumption
  <2>5. CASE c.isDefault = "true"
    <3>1. def
      BY <2>5, <1>2, <1>6 DEF TemplateShelf!WillBeDefault
    <3> QED BY <3>1, <2>3, <2>5, <1>4, <1>10 DEF TemplateShelf!Promise!Settled
  <2>6. CASE c.isDefault = "false"
    <3>1. ~ def
      BY <2>6, <1>2, <1>6 DEF TemplateShelf!WillBeDefault
    <3>2. CASE TemplateShelf!Default = t
      <4>1. \A u \in Templates : ~ template'[u].isDefault
        BY <3>1, <3>2, <2>1, <1>10, <1>11
      <4> QED BY <4>1, <3>1, <3>2, <2>3, <2>4, <2>6, <1>4 DEF TemplateShelf!Promise!Settled
    <3>3. CASE TemplateShelf!Default # t
      <4>1. \A u \in Templates : template'[u].isDefault <=> template[u].isDefault
        BY <3>1, <3>3, <2>1, <1>10, <1>11
      <4>2. TemplateShelf!Default' = TemplateShelf!Default
        BY <4>1, <2>1, <2>3
      <4> QED BY <4>2, <3>1, <3>3, <2>6, <1>4 DEF TemplateShelf!Promise!Settled
    <3> QED BY <3>2, <3>3
  <2>7. CASE c.isDefault = "null"
    <3>1. def <=> TemplateShelf!Default = 0
      <4>1. TemplateShelf!HasActiveDefaultReceiptTemplate <=> \E u \in Templates : template[u].isDefault
        BY <1>1 DEF TemplateShelf!HasActiveDefaultReceiptTemplate, TemplateShelf!LiveTemplates, OneDefault
      <4> QED BY <4>1, <2>1, <2>7, <1>2, <1>6 DEF TemplateShelf!WillBeDefault
    <3>2. CASE TemplateShelf!Default = 0
      BY <3>1, <3>2, <2>3, <2>7, <1>4, <1>10 DEF TemplateShelf!Promise!Settled
    <3>3. CASE TemplateShelf!Default # 0
      <4>1. ~ template[t].isDefault
        BY <2>7, <1>2, <1>5, <1>6 DEF TemplateShelf!NoRow
      <4>2. \A u \in Templates : template'[u].isDefault <=> template[u].isDefault
        BY <4>1, <3>1, <3>3, <1>10, <1>11
      <4>3. TemplateShelf!Default' = TemplateShelf!Default
        BY <4>2, <2>1, <2>3
      <4>4. TemplateShelf!Default # t
        BY <4>1, <2>1
      <4> QED BY <4>3, <4>4, <3>1, <3>3, <2>7, <1>4 DEF TemplateShelf!Promise!Settled
    <3> QED BY <3>2, <3>3
  <2> QED BY <2>5, <2>6, <2>7, <1>5
<1>16. templateTrail' =
         <<t, TemplateShelf!Told(template[t]), <<c.name, TemplateShelf!Promise!Settled(c) = t>> >>
  <2>1. def = (TemplateShelf!Promise!Settled(c) = t)
    BY <1>7, <1>15
  <2> QED BY <2>1, <1>2, <1>4, <1>6
<1>17. PICK d : d = TemplateShelf!Promise!Settled(c)
  OBVIOUS
<1>18. PICK n : n = c.name
  OBVIOUS
<1>19. /\ TemplateInv'
       /\ TemplateShelf!Promise!Change(t, n, d)
       /\ outletOpen
       /\ TemplateShelf!Promise!Effect(templateTx[r].call) => TemplateShelf!Promise!End(r)
  <2>1. /\ TemplateShelf!Told(template'[t])[1] = n /\ TemplateShelf!Default' = d
        /\ templateTrail' = <<t, TemplateShelf!Told(template[t]), <<n, d = t>> >>
        /\ t = templateTx[r].call.template
    BY <1>4, <1>14, <1>15, <1>16, <1>17, <1>18 DEF c
  <2>2. /\ templateTx[r].phase = "decided"
        /\ templateTx' = [templateTx EXCEPT ![r] = TemplateShelf!IdleTx] /\ UNCHANGED outletOpen
        /\ template' \in [Templates -> TemplateRow \cup {TemplateShelf!NoRow}] /\ OneDefault'
    BY <1>2, <1>10, <1>12
  <2> QED BY <2>1, <2>2, <1>13, TemplateCommit, Zenon
<1>20. TemplateShelf!Promise!Effect(c)
  <2>1. /\ TemplateShelf!Promise!Live = TemplateShelf!LiveTemplates
        /\ \A u \in Templates :
             TemplateShelf!Told(template[u])[1] =
               IF template[u].state = "live" THEN template[u].name ELSE template[u].state
    BY <1>1, ShelfShows
  <2>2. \A u \in TemplateShelf!LiveTemplates \ {c.template} : Lower[template[u].name] # Lower[c.name]
    BY <1>2 DEF TemplateShelf!NameTaken
  <2>3. TemplateShelf!Promise!Write(c)
    <3>1. TemplateShelf!Promise!Change(c.template, c.name, TemplateShelf!Promise!Settled(c))
      BY <1>4, <1>17, <1>18, <1>19
    <3> QED BY <3>1, <2>1, <2>2 DEF TemplateShelf!Promise!Write, TemplateShelf!LiveTemplates
  <2>4. CASE c.op = "CREATE"
    BY <2>1, <2>3, <2>4, <1>4, <1>6, <1>19 DEF TemplateShelf!Promise!Effect, TemplateShelf!NoRow
  <2>5. CASE c.op = "UPDATE"
    BY <2>1, <2>3, <2>5, <1>4, <1>6, <1>19 DEF TemplateShelf!Promise!Effect, TemplateShelf!LiveTemplates
  <2> QED BY <2>4, <2>5, <1>2
<1> QED BY <1>19, <1>20 DEF c

LEMMA SameOldest == \A S : TemplateShelf!Promise!Min(S) = TemplateShelf!Min(S)
  BY DEF TemplateShelf!Promise!Min, TemplateShelf!Min

LEMMA TemplateDelete ==
  ASSUME TemplateInv, NEW r \in Requests, TemplateShelf!DeleteTemplate(r)
  PROVE  /\ TemplateInv'
         /\ TemplateShelf!Promise!End(r)
<1> DEFINE c == templateTx[r].call
           deleted == TemplateShelf!SoftDeleteReceiptTemplate(c.template)
<1>1. TemplateTypes /\ OneDefault /\ OneHolder /\ NewIds /\ Decided(r)
  BY DEF TemplateInv
<1>2. /\ templateTx[r].phase = "decided" /\ c.op = "DELETE"
      /\ template' = IF templateTx[r].old.isDefault
                     THEN TemplateShelf!SetNextReceiptTemplateDefault(deleted, c.template) ELSE deleted
      /\ templateTrail' = <<c.template, TemplateShelf!Told(templateTx[r].old), <<"deleted", FALSE>> >>
      /\ templateTx' = [templateTx EXCEPT ![r] = TemplateShelf!IdleTx]
      /\ UNCHANGED outletOpen
  BY DEF TemplateShelf!DeleteTemplate, TemplateShelf!InsertReceiptTemplateAuditLog, TemplateShelf!Finish
<1>3. PICK t \in Templates : t = c.template
  BY <1>1, <1>2, CallsHaveTemplates DEF TemplateTypes
<1>4. templateTx[r].old = template[t] /\ template[t].state = "live"
  BY <1>1, <1>2, <1>3 DEF Decided
<1>5. template[t] \in TemplateRow
  BY <1>1, <1>4 DEF TemplateTypes, TemplateShelf!NoRow
<1> HIDE DEF c
<1>6. /\ deleted \in [Templates -> TemplateRow \cup {TemplateShelf!NoRow}]
      /\ deleted[t].state = "deleted" /\ deleted[t].isDefault = FALSE
      /\ \A u \in Templates \ {t} : deleted[u] = template[u]
  <2> DEFINE row == [[template[t] EXCEPT !.state = "deleted"] EXCEPT !.isDefault = FALSE]
  <2>1. deleted = [template EXCEPT ![t] = row]
    BY <1>1, <1>3 DEF TemplateShelf!SoftDeleteReceiptTemplate, TemplateTypes
  <2>2. row \in TemplateRow /\ row.state = "deleted" /\ row.isDefault = FALSE
    BY <1>5 DEF TemplateRow
  <2> HIDE DEF row, deleted
  <2> QED BY <2>1, <2>2, <1>1 DEF TemplateTypes
<1> HIDE DEF deleted
<1> DEFINE left == TemplateShelf!LiveTemplates \ {t}
           next == TemplateShelf!Min(left)
           d == IF TemplateShelf!Default # t THEN TemplateShelf!Default ELSE IF left = {} THEN 0 ELSE next
<1>7. left # {} => next \in left
  BY OldestIsOne DEF TemplateShelf!LiveTemplates
<1>8. \A u \in Templates : template[u].isDefault <=> TemplateShelf!Default = u
  BY <1>1, DefaultIs
<1>9. /\ \A u \in Templates : u # 0
      /\ (\A u \in Templates : ~ template[u].isDefault) <=> TemplateShelf!Default = 0
  BY <1>1, DefaultIs, TemplateAssumption
<1>10. left = {u \in Templates \ {t} : template[u].state = "live"}
  BY DEF TemplateShelf!LiveTemplates
<1> HIDE DEF left, next
<1>11. /\ template' \in [Templates -> TemplateRow \cup {TemplateShelf!NoRow}]
       /\ template'[t].state = "deleted" /\ ~ template'[t].isDefault
       /\ \A u \in Templates \ {t} :
            /\ template'[u].state = template[u].state
            /\ template[u].state = "live" => template'[u].name = template[u].name
            /\ template[u].isDefault = TRUE \/ u # d => template'[u] = template[u]
            /\ template'[u].isDefault <=> d = u
  <2>1. CASE TemplateShelf!Default = t /\ left # {}
    <3> DEFINE row == [template[next] EXCEPT !.isDefault = TRUE]
    <3>1. next \in Templates \ {t} /\ template[next] \in TemplateRow /\ template[next].state = "live"
      BY <2>1, <1>1, <1>7, <1>10 DEF TemplateTypes, TemplateShelf!NoRow
    <3>2. template' = [deleted EXCEPT ![next] = row]
      <4>1. template' = TemplateShelf!SetNextReceiptTemplateDefault(deleted, t)
        BY <2>1, <1>2, <1>3, <1>4, <1>8
      <4>2. template' = [deleted EXCEPT ![next].isDefault = TRUE]
        BY <4>1, <2>1 DEF TemplateShelf!SetNextReceiptTemplateDefault, left, next
      <4> QED BY <4>2, <3>1, <1>6
    <3>3. row \in TemplateRow /\ row.state = "live" /\ row.name = template[next].name /\ row.isDefault = TRUE
      BY <3>1 DEF TemplateRow
    <3> HIDE DEF row
    <3>4. d = next
      BY <2>1
    <3>5. \A u \in Templates : template'[u] = IF u = next THEN row ELSE deleted[u]
      BY <3>2, <1>6
    <3>6. template' \in [Templates -> TemplateRow \cup {TemplateShelf!NoRow}]
      BY <3>2, <3>3, <1>6
    <3>7. \A u \in Templates \ {t} : ~ template[u].isDefault
      BY <2>1, <1>8
    <3> HIDE DEF d
    <3> QED BY <3>1, <3>3, <3>4, <3>5, <3>6, <3>7, <1>6
  <2>2. CASE ~ (TemplateShelf!Default = t /\ left # {})
    <3>1. template' = deleted
      <4>1. CASE TemplateShelf!Default = t
        BY <4>1, <2>2, <1>2, <1>3, <1>4, <1>8 DEF TemplateShelf!SetNextReceiptTemplateDefault, left
      <4>2. CASE TemplateShelf!Default # t
        BY <4>2, <1>2, <1>4, <1>8
      <4> QED BY <4>1, <4>2
    <3>2. \A u \in Templates \ {t} : template[u].isDefault <=> d = u
      <4>1. CASE TemplateShelf!Default = t
        <5>1. d = 0 /\ \A u \in Templates : u # 0
          BY <4>1, <2>2, TemplateAssumption
        <5> QED BY <5>1, <4>1, <1>8
      <4>2. CASE TemplateShelf!Default # t
        BY <4>2, <1>8
      <4> QED BY <4>1, <4>2
    <3> HIDE DEF d
    <3> QED BY <3>1, <3>2, <1>6
  <2> QED BY <2>1, <2>2
<1>12. d # t
  BY <1>7, <1>9, <1>10
<1>13. \A u \in Templates \ {t} : u = d => template[u].state = "live"
  <2>1. SUFFICES ASSUME NEW u \in Templates \ {t}, u = d PROVE template[u].state = "live"
    OBVIOUS
  <2>2. CASE TemplateShelf!Default # t
    <3>1. template[u].isDefault
      BY <2>1, <2>2, <1>8
    <3> QED BY <3>1, <1>1 DEF OneDefault
  <2>3. CASE TemplateShelf!Default = t
    <3>1. left # {} /\ u = next
      BY <2>1, <2>3, <1>9
    <3> QED BY <3>1, <1>7, <1>10
  <2> QED BY <2>2, <2>3
<1>14. OneDefault'
  <2>1. \A u \in Templates : template'[u].isDefault => u = d
    BY <1>11
  <2> HIDE DEF d
  <2> QED BY <2>1, <1>11, <1>13 DEF OneDefault
<1>15. \A u \in Templates \ {t} :
         /\ TemplateShelf!Told(template'[u])[1] = TemplateShelf!Told(template[u])[1]
         /\ template[u] = TemplateShelf!NoRow => template'[u] = TemplateShelf!NoRow
  <2>1. \A u \in Templates \ {t} : template[u] = TemplateShelf!NoRow => u # d
    BY <1>13 DEF TemplateShelf!NoRow
  <2> HIDE DEF d
  <2> QED BY <2>1, <1>11 DEF TemplateShelf!Told
<1>16. TemplateShelf!Told(template'[t])[1] = "deleted"
  BY <1>11 DEF TemplateShelf!Told
<1>17. TemplateShelf!Default' = d
  <2>1. TemplateTypes'
    <3>1. TemplateShelf!IdleTx \in TemplateTx
      BY DEF TemplateTx, TemplatePhases, TemplateShelf!IdleTx
    <3>2. templateTx' \in [Requests -> TemplateTx]
      BY <3>1, <1>1, <1>2 DEF TemplateTypes
    <3>3. \A s \in Requests : templateTx'[s] = IF s = r THEN TemplateShelf!IdleTx ELSE templateTx[s]
      BY <1>1, <1>2 DEF TemplateTypes
    <3> QED BY <3>2, <3>3, <1>1, <1>2, <1>11 DEF TemplateTypes, TemplateShelf!IdleTx
  <2>2. /\ \A u \in Templates : template'[u].isDefault <=> TemplateShelf!Default' = u
        /\ (\A u \in Templates : ~ template'[u].isDefault) <=> TemplateShelf!Default' = 0
    BY <2>1, <1>14, DefaultIsNext
  <2>3. d = 0 \/ d \in Templates
    <3>1. TemplateShelf!Default # 0 => \E u \in Templates : TemplateShelf!Default = u
      BY <1>8, <1>9
    <3>2. left # {} => next \in Templates
      BY <1>7, <1>10
    <3> HIDE DEF next
    <3> QED BY <3>1, <3>2
  <2> HIDE DEF d
  <2> QED BY <2>2, <2>3, <1>9, <1>11, <1>12
<1>18. templateTrail' = <<t, TemplateShelf!Told(template[t]), <<"deleted", d = t>> >>
  <2>1. (d = t) = FALSE
    BY <1>12
  <2> QED BY <2>1, <1>2, <1>3, <1>4
<1> HIDE DEF d
<1>19. PICK e : e = d
  OBVIOUS
<1>20. /\ TemplateInv'
       /\ TemplateShelf!Promise!Change(t, "deleted", e)
       /\ outletOpen
       /\ TemplateShelf!Promise!Effect(templateTx[r].call) => TemplateShelf!Promise!End(r)
  <2>1. /\ TemplateShelf!Told(template'[t])[1] = "deleted" /\ TemplateShelf!Default' = e
        /\ templateTrail' = <<t, TemplateShelf!Told(template[t]), <<"deleted", e = t>> >>
        /\ t = templateTx[r].call.template
    BY <1>3, <1>16, <1>17, <1>18, <1>19 DEF c
  <2>2. /\ templateTx[r].phase = "decided"
        /\ templateTx' = [templateTx EXCEPT ![r] = TemplateShelf!IdleTx] /\ UNCHANGED outletOpen
        /\ template' \in [Templates -> TemplateRow \cup {TemplateShelf!NoRow}] /\ OneDefault'
    BY <1>2, <1>11, <1>14
  <2> QED BY <2>1, <2>2, <1>15, TemplateCommit, Zenon
<1>21. TemplateShelf!Promise!Effect(c)
  <2>1. TemplateShelf!Promise!Live = TemplateShelf!LiveTemplates
    BY <1>1, ShelfShows
  <2>2. d = IF TemplateShelf!Default = t THEN TemplateShelf!Promise!Oldest(TemplateShelf!LiveTemplates \ {t})
            ELSE TemplateShelf!Default
    BY SameOldest DEF d, left, next, TemplateShelf!Promise!Oldest
  <2>3. TemplateShelf!Promise!Delete(t)
    BY <2>1, <2>2, <1>19, <1>20 DEF TemplateShelf!Promise!Delete
  <2> QED BY <2>1, <2>3, <1>2, <1>3, <1>4, <1>20 DEF TemplateShelf!Promise!Effect, TemplateShelf!LiveTemplates
<1> QED BY <1>20, <1>21 DEF c

\* A request on its way to its decision shows nothing yet.
LEMMA TemplateWork ==
  ASSUME TemplateInv, NEW r \in Requests,
         TemplateShelf!Begin(r) \/ TemplateShelf!Lock(r) \/ TemplateShelf!Decide(r)
  PROVE  /\ TemplateInv'
         /\ UNCHANGED <<TemplateShelf!Promise!shelf, outletOpen, [s \in Requests |-> templateTx[s].call]>>
<1>1. TemplateInv'
  BY TemplateBegin, TemplateLock, TemplateDecide
<1>2. UNCHANGED <<template, templateTrail, outletOpen>>
  BY DEF TemplateShelf!Begin, TemplateShelf!Lock, TemplateShelf!Decide
<1>3. \A s \in Requests : templateTx'[s].call = templateTx[s].call
  <2>1. templateTx = [s \in Requests |-> templateTx[s]] /\ templateTx[r] \in TemplateTx
    BY DEF TemplateInv, TemplateTypes
  <2>2. CASE TemplateShelf!Begin(r)
    BY <2>1, <2>2 DEF TemplateShelf!Begin, TemplateShelf!Move, TemplateTx
  <2>3. CASE TemplateShelf!Lock(r)
    BY <2>1, <2>3 DEF TemplateShelf!Lock, TemplateShelf!Move, TemplateTx
  <2>4. CASE TemplateShelf!Decide(r)
    BY <2>1, <2>4 DEF TemplateShelf!Decide, TemplateTx
  <2> QED BY <2>2, <2>3, <2>4
<1>4. [s \in Requests |-> templateTx[s].call]' = [s \in Requests |-> templateTx[s].call]
  <2>1. [s \in Requests |-> templateTx[s].call]' = [s \in Requests |-> templateTx'[s].call]
    OBVIOUS
  <2> QED BY <2>1, <1>3
<1>5. TemplateShelf!Default' = TemplateShelf!Default
  BY <1>2 DEF TemplateShelf!Default, TemplateShelf!GetAuthorizedReceiptOrder, TemplateShelf!LiveTemplates
<1> QED BY <1>1, <1>2, <1>4, <1>5 DEF TemplateShelf!Promise!shelf

LEMMA TemplateNext ==
  ASSUME TemplateInv, [TemplateShelf!Next]_templateVars
  PROVE  /\ TemplateInv'
         /\ [TemplateShelf!Promise!Next]_<<TemplateShelf!Promise!shelf, outletOpen,
                                           [s \in Requests |-> templateTx[s].call]>>
<1>1. CASE UNCHANGED templateVars
  <2>1. TemplateInv'
    BY <1>1 DEF templateVars, TemplateInv, TemplateTypes, OneDefault, OneHolder, TemplateShelf!Holds,
                NewIds, Creates, Decided, TemplateShelf!WillBeDefault,
                TemplateShelf!HasActiveDefaultReceiptTemplate, TemplateShelf!LiveTemplates
  <2>2. UNCHANGED <<TemplateShelf!Promise!shelf, outletOpen, [s \in Requests |-> templateTx[s].call]>>
    BY <1>1 DEF templateVars, TemplateShelf!Promise!shelf, TemplateShelf!Default,
                TemplateShelf!GetAuthorizedReceiptOrder, TemplateShelf!LiveTemplates
  <2> QED BY <2>1, <2>2
<1>2. ASSUME NEW r \in Requests, TemplateShelf!Call(r)
      PROVE  TemplateInv' /\ TemplateShelf!Promise!Next
  BY <1>2, TemplateCall DEF TemplateShelf!Promise!Next
<1>3. ASSUME NEW r \in Requests, TemplateShelf!Rollback(r)
      PROVE  TemplateInv' /\ TemplateShelf!Promise!Next
  BY <1>3, TemplateRollback DEF TemplateShelf!Promise!Next
<1>4. ASSUME NEW r \in Requests, TemplateShelf!Refuse(r)
      PROVE  TemplateInv' /\ TemplateShelf!Promise!Next
  BY <1>3, <1>4 DEF TemplateShelf!Refuse
<1>5. ASSUME NEW r \in Requests,
             \/ TemplateShelf!CreateTemplate(r) \/ TemplateShelf!UpdateTemplate(r)
             \/ TemplateShelf!DeleteTemplate(r)
      PROVE  TemplateInv' /\ TemplateShelf!Promise!Next
  BY <1>5, TemplateWrite, TemplateDelete DEF TemplateShelf!Promise!Next
<1>6. ASSUME TemplateShelf!UpdateOutlet \/ TemplateShelf!Staffing
      PROVE  TemplateInv' /\ TemplateShelf!Promise!Next
  BY <1>6, TemplateEnvironment DEF TemplateShelf!Promise!Next
<1>7. ASSUME NEW r \in Requests, TemplateShelf!Work(r)
      PROVE  /\ TemplateInv'
             /\ [TemplateShelf!Promise!Next]_<<TemplateShelf!Promise!shelf, outletOpen,
                                               [s \in Requests |-> templateTx[s].call]>>
  BY <1>4, <1>5, <1>7, TemplateWork DEF TemplateShelf!Work
<1> QED BY <1>1, <1>2, <1>3, <1>6, <1>7 DEF TemplateShelf!Next

\* The templates of an outlet are served as DefaultTemplate has it, whatever the requests
\* overtake one another: each commit changes one template and the default at once, from
\* what its audit row tells, and leaves one default at most, the oldest one left when the
\* default goes (mutateTemplate, DeleteTemplate, receipt_templates_one_default_uq).
THEOREM TemplatesAlwaysServed == BackOfficeSpec => TemplatesServed
<1>1. BackOfficeInit => TemplateInv
  BY TemplateInit DEF BackOfficeInit
<1>2. [BackOfficeNext]_backOfficeVars => [TemplateShelf!Next]_templateVars
  BY DEF BackOfficeNext, backOfficeVars, ExpenseStep, CatalogStep, TemplateStep, ListingStep,
         ReportStep, TenantStep, LimiterStep
<1>3. TemplateInv /\ [BackOfficeNext]_backOfficeVars => TemplateInv'
  BY <1>2, TemplateNext
<1>4. BackOfficeInit => TemplateShelf!Promise!Init
  <2>1. SUFFICES ASSUME TemplateShelf!Init PROVE TemplateShelf!Promise!Init
    BY DEF BackOfficeInit
  <2>2. \A t \in Templates : template[t] = TemplateShelf!NoRow
    BY <2>1 DEF TemplateShelf!Init
  <2>3. \A t \in Templates : TemplateShelf!Told(template[t])[1] = "absent"
    BY <2>2 DEF TemplateShelf!Told, TemplateShelf!NoRow
  <2>4. TemplateShelf!Default = 0
    <3>1. TemplateShelf!GetAuthorizedReceiptOrder = {}
      BY <2>2 DEF TemplateShelf!GetAuthorizedReceiptOrder, TemplateShelf!LiveTemplates, TemplateShelf!NoRow
    <3> QED BY <3>1 DEF TemplateShelf!Default
  <2>5. \A r \in Requests : templateTx[r].call = TemplateShelf!NoCall
    BY <2>1 DEF TemplateShelf!Init, TemplateShelf!IdleTx
  <2> QED BY <2>1, <2>3, <2>4, <2>5 DEF TemplateShelf!Init, TemplateShelf!Promise!Init
<1>5. TemplateInv /\ [BackOfficeNext]_backOfficeVars =>
        [TemplateShelf!Promise!Next]_<<TemplateShelf!Promise!shelf, outletOpen,
                                      [r \in Requests |-> templateTx[r].call]>>
  BY <1>2, TemplateNext
<1>6. BackOfficeSpec => TemplateShelf!Promise!Spec
  BY <1>1, <1>3, <1>4, <1>5, PTL DEF BackOfficeSpec, TemplateShelf!Promise!Spec
<1> QED BY <1>6 DEF TemplatesServed, TemplateShelf!ImplementsDefault
-------------------------------------------------------------------------------
(***************************************************************************)
(* The listings.  A row that was listed when the walk began and was not    *)
(* shown yet has as many rows before it as the pages that were read hold.  *)
(***************************************************************************)
ListedRow ==
  [id : Int, business : {r.business : r \in Rows}, outlet : Branches, name : Int, unit : Int,
   active : BOOLEAN, deleted : BOOLEAN, at : Int, status : Int]

WalkTypes ==
  /\ ask \in Pages!Asks
  /\ IsFiniteSet(rows) /\ rows \subseteq ListedRow
  /\ \A r, s \in rows : r.id = s.id => r = s
  /\ walk \in [page : Nat \ {0}, total : Nat, phase : {"list", "count", "done"}]
  /\ disturbed \in BOOLEAN

\* What was listed at the beginning, and what was shown, is listed still.
StillListed == ~ disturbed => \A id \in first \cup seen : \E p \in Pages!Shown : p[1] = id

\* At least n listed rows come before this one.
Behind(id, n) ==
  \E p \in Pages!Shown, S \in SUBSET Pages!Shown :
    /\ p[1] = id
    /\ n <= Cardinality(S) /\ \A q \in S : Pages!Precedes(q[2], p[2])

\* How many rows the pages have held so far.
RowsRead == IF walk.phase = "count" THEN walk.page * ask.size ELSE (walk.page - 1) * ask.size

StillAhead == ~ disturbed /\ walk.phase # "done" => \A id \in first \ seen : Behind(id, RowsRead)

WalkInv == WalkTypes /\ StillListed /\ StillAhead /\ Pages!NothingMissed

ListingKinds ==
  {"outlets", "staff", "customers", "categories", "perfumes", "services", "orders", "history",
   "payments", "expenses", "businesses", "support requests", "support sessions", "support outlets",
   "support perfumes", "platform audit", "business audit"}

LEMMA PagesCardinality == \A S : Pages!Cardinality(S) = Cardinality(S)
  BY DEF Cardinality, Pages!Cardinality, IsFiniteSet, Pages!IsFiniteSet

\* The queries, as far as it matters which they are.
LEMMA AskIs ==
  ASSUME NEW q \in Pages!Asks
  PROVE  /\ q.kind \in ListingKinds /\ q.size \in Nat \ {0}
         /\ q.kind = "orders" /\ q.outlets # Branches => \E x : q.outlets = {x}
<1> DEFINE all == Pages!ListOutlets \cup Pages!ListStaff \cup Pages!ListCategories \cup Pages!ListPerfumes
             \cup Pages!ListServices
             \cup Pages!ListCustomers \cup Pages!OrderHistory \cup Pages!ListOrders \cup Pages!ListPayments
             \cup Pages!ListExpenses \cup Pages!Businesses \cup Pages!Views \cup Pages!SupportOperation
             \cup Pages!BusinessAudit
           Good(p) == /\ p.kind \in ListingKinds /\ p = [f \in DOMAIN p |-> p[f]]
                      /\ "size" \in DOMAIN p
                      /\ p.kind = "orders" /\ p.outlets # Branches => \E x : p.outlets = {x}
<1>1. PICK p \in all, n \in PageSizes : q = [p EXCEPT !.size = n]
  BY DEF Pages!Asks
<1>2. Good(p)
  <2>1. \A kind : /\ Pages!Plain(kind).kind = kind /\ Pages!Plain(kind).outlets = Branches
                  /\ Pages!Plain(kind) = [f \in DOMAIN Pages!Plain(kind) |-> Pages!Plain(kind)[f]]
                  /\ "size" \in DOMAIN Pages!Plain(kind)
    BY DEF Pages!Plain
  <2>2. CASE p \in Pages!ListOutlets \cup Pages!ListStaff \cup Pages!ListPayments \cup Pages!Views
                  \cup Pages!SupportOperation \cup Pages!BusinessAudit
    <3>1. PICK kind \in {"outlets", "staff", "payments", "support requests", "support sessions",
                         "platform audit", "support outlets", "support perfumes", "business audit"} :
            p = Pages!Plain(kind)
      BY <2>2 DEF Pages!ListOutlets, Pages!ListStaff, Pages!ListPayments, Pages!Views,
                  Pages!SupportOperation, Pages!BusinessAudit
    <3> QED BY <3>1, <2>1 DEF ListingKinds
  <2>3. CASE p \in Pages!ListCategories
    <3>1. PICK s \in {Pages!Ranks, {1}}, i \in {BOOLEAN, {TRUE}} :
            p = [Pages!Plain("categories") EXCEPT !.search = s, !.active = i]
      BY <2>3 DEF Pages!ListCategories
    <3>2. p.kind = "categories"
      BY <2>1, <3>1
    <3> QED BY <2>1, <3>1, <3>2 DEF ListingKinds
  <2>4. CASE p \in Pages!ListPerfumes
    <3>1. PICK s \in {Pages!Ranks, {1}}, i \in {BOOLEAN, {TRUE}, {FALSE}} :
            p = [Pages!Plain("perfumes") EXCEPT !.search = s, !.active = i]
      BY <2>4 DEF Pages!ListPerfumes
    <3>2. p.kind = "perfumes"
      BY <2>1, <3>1
    <3> QED BY <2>1, <3>1, <3>2 DEF ListingKinds
  <2>5. CASE p \in Pages!ListServices
    <3>1. PICK u \in {Pages!Ranks, {1}}, i \in {BOOLEAN, {TRUE}} :
            p = [Pages!Plain("services") EXCEPT !.unit = u, !.active = i]
      BY <2>5 DEF Pages!ListServices
    <3>2. p.kind = "services"
      BY <2>1, <3>1
    <3> QED BY <2>1, <3>1, <3>2 DEF ListingKinds
  <2>6. CASE p \in Pages!ListCustomers
    <3>1. PICK s \in {Pages!Ranks, {1}} :
            p = [Pages!Plain("customers") EXCEPT !.search = s]
      BY <2>6 DEF Pages!ListCustomers
    <3>2. p.kind = "customers"
      BY <2>1, <3>1
    <3> QED BY <2>1, <3>1, <3>2 DEF ListingKinds
  <2>7. CASE p \in Pages!OrderHistory
    <3>1. PICK r \in Pages!Roles :
            p = [Pages!Plain("history") EXCEPT !.role = r]
      BY <2>7 DEF Pages!OrderHistory
    <3>2. p.kind = "history"
      BY <2>1, <3>1
    <3> QED BY <2>1, <3>1, <3>2 DEF ListingKinds
  <2>8. CASE p \in Pages!ListOrders
    <3>1. PICK r \in Pages!Roles, x \in {Branches} \cup {{y} : y \in Branches}, s \in {Pages!Ranks, {1}} :
            p = Pages!OrderFilter(r, x, s)
      BY <2>8 DEF Pages!ListOrders
    <3> DEFINE plain == Pages!Plain("orders")
    <3>2. /\ plain.kind = "orders" /\ plain = [f \in DOMAIN plain |-> plain[f]]
          /\ DOMAIN plain = {"kind", "size", "role", "search", "active", "unit", "outlets", "status", "from", "to"}
      BY DEF Pages!Plain
    <3>3. p = [plain EXCEPT !.role = r, !.outlets = x, !.status = s]
      BY <3>1 DEF Pages!OrderFilter
    <3> HIDE DEF plain
    <3>4. p.kind = "orders" /\ p.outlets = x
      BY <3>2, <3>3
    <3>5. p = [f \in DOMAIN p |-> p[f]] /\ "size" \in DOMAIN p
      BY <3>2, <3>3
    <3>6. x # Branches => \E y : x = {y}
      OBVIOUS
    <3> QED BY <3>4, <3>5, <3>6 DEF ListingKinds
  <2>9. CASE p \in Pages!ListExpenses
    <3>1. PICK r \in Pages!Roles, f \in 0 .. 1, t \in 0 .. 2 : p = Pages!ListExpensesParams(r, f, t)
      BY <2>9 DEF Pages!ListExpenses
    <3> DEFINE plain == Pages!Plain("expenses")
    <3>2. /\ plain.kind = "expenses" /\ plain = [x \in DOMAIN plain |-> plain[x]]
          /\ DOMAIN plain = {"kind", "size", "role", "search", "active", "unit", "outlets", "status", "from", "to"}
      BY DEF Pages!Plain
    <3>3. p = [plain EXCEPT !.role = r, !.from = f, !.to = t]
      BY <3>1 DEF Pages!ListExpensesParams
    <3> HIDE DEF plain
    <3>4. p.kind = "expenses" /\ "size" \in DOMAIN p
      BY <3>2, <3>3
    <3>5. p = [x \in DOMAIN p |-> p[x]]
      BY <3>2, <3>3
    <3> QED BY <3>4, <3>5 DEF ListingKinds
  <2>10. CASE p \in Pages!Businesses
    <3>1. PICK i \in {BOOLEAN, {TRUE}} :
            p = [Pages!Plain("businesses") EXCEPT !.active = i]
      BY <2>10 DEF Pages!Businesses
    <3>2. p.kind = "businesses"
      BY <2>1, <3>1
    <3> QED BY <2>1, <3>1, <3>2 DEF ListingKinds
  <2> QED BY <2>2, <2>3, <2>4, <2>5, <2>6, <2>7, <2>8, <2>9, <2>10
<1>3. q.kind = p.kind /\ q.outlets = p.outlets /\ q.size = n
  BY <1>1, <1>2
<1> QED BY <1>2, <1>3, ListingAssumption

\* The rows that are listed are rows, counted by the query that belongs to the listing.
LEMMA ListedIs ==
  ASSUME WalkTypes
  PROVE  /\ Pages!Listed \subseteq rows /\ IsFiniteSet(Pages!Listed)
         /\ Pages!Counted = Cardinality(Pages!Listed)
<1>1. ask.kind \in ListingKinds
  BY AskIs DEF WalkTypes
<1>2. Pages!Listed \subseteq rows
  BY <1>1 DEF ListingKinds, Pages!Listed, Pages!OutletRows, Pages!StaffRows, Pages!CustomerRows, Pages!CategoryRows,
       Pages!PerfumeRows, Pages!ServiceRows, Pages!OrderRows, Pages!HistoryRows, Pages!PaymentRows,
       Pages!ExpenseRows, Pages!BusinessRows, Pages!SupportRequestRows, Pages!SupportSessionRows,
       Pages!SupportPerfumeRows, Pages!PlatformAuditRows, Pages!BusinessAuditRows, Pages!Own,
       Pages!Kept, Pages!InReach
<1>3. Pages!Counted = Pages!Cardinality(Pages!Listed)
  BY <1>1 DEF ListingKinds, Pages!Listed, Pages!Counted, Pages!CountOutlets, Pages!CountStaff, Pages!CountCustomers,
       Pages!CountExpenseCategories, Pages!CountPerfumes, Pages!CountServices, Pages!CountOrders,
       Pages!CountCustomerOrderHistory, Pages!CountOrderPayments, Pages!CountExpenses,
       Pages!PlatformCountBusinesses, Pages!SupportCountRequests, Pages!SupportCountSessions,
       Pages!SupportCountPerfumes, Pages!PlatformAuditCount, Pages!BusinessAuditCount
<1> QED BY <1>2, <1>3, FS_Subset, PagesCardinality DEF WalkTypes

\* Different keys of the same length come one after the other.
LEMMA PrecedesIsTotal ==
  ASSUME NEW n \in 1 .. 3, NEW k \in [1 .. n -> Int], NEW l \in [1 .. n -> Int]
  PROVE  /\ k # l => Pages!Precedes(k, l) \/ Pages!Precedes(l, k)
         /\ ~ Pages!Precedes(k, k)
<1>1. ~ Pages!Precedes(k, k)
  BY DEF Pages!Precedes
<1>2. SUFFICES ASSUME k # l PROVE Pages!Precedes(k, l) \/ Pages!Precedes(l, k)
  BY <1>1
<1>3. ASSUME NEW i \in 1 .. n, k[i] # l[i], \A j \in 1 .. i - 1 : k[j] = l[j]
      PROVE  Pages!Precedes(k, l) \/ Pages!Precedes(l, k)
  <2>1. CASE k[i] < l[i]
    BY <1>3, <2>1 DEF Pages!Precedes
  <2>2. CASE l[i] < k[i]
    BY <1>3, <2>2 DEF Pages!Precedes
  <2> QED BY <1>3, <2>1, <2>2
<1>4. CASE k[1] # l[1]
  <2>1. \A j \in 1 .. 1 - 1 : k[j] = l[j]
    OBVIOUS
  <2> QED BY <1>3, <1>4, <2>1
<1>5. CASE k[1] = l[1] /\ n > 1 /\ k[2] # l[2]
  <2>1. \A j \in 1 .. 2 - 1 : k[j] = l[j]
    BY <1>5
  <2> QED BY <1>3, <1>5, <2>1
<1>6. CASE k[1] = l[1] /\ n > 2 /\ k[2] = l[2] /\ k[3] # l[3]
  <2>1. \A j \in 1 .. 3 - 1 : k[j] = l[j]
    BY <1>6
  <2> QED BY <1>3, <1>6, <2>1
<1>7. \E i \in 1 .. n : k[i] # l[i]
  BY <1>2
<1> QED BY <1>4, <1>5, <1>6, <1>7

\* Keys order the rows: ids make them differ.
LEMMA KeysOrder ==
  ASSUME WalkTypes, NEW x \in rows, NEW y \in rows
  PROVE  /\ x.id # y.id => \/ Pages!Precedes(Pages!Key(x), Pages!Key(y))
                           \/ Pages!Precedes(Pages!Key(y), Pages!Key(x))
         /\ ~ Pages!Precedes(Pages!Key(x), Pages!Key(x))
<1>1. ask.kind \in ListingKinds
  BY AskIs DEF WalkTypes
<1>2. /\ x.id \in Int /\ x.name \in Int /\ x.unit \in Int /\ x.at \in Int
      /\ y.id \in Int /\ y.name \in Int /\ y.unit \in Int /\ y.at \in Int
  BY DEF WalkTypes, ListedRow
<1>3. \E n \in 1 .. 3 :
        /\ Pages!Key(x) \in [1 .. n -> Int] /\ Pages!Key(y) \in [1 .. n -> Int]
        /\ x.id # y.id => Pages!Key(x) # Pages!Key(y)
  <2>1. CASE ask.kind \in {"customers", "categories", "perfumes"}
    <3>1. Pages!Key(x) = <<x.name, x.id>> /\ Pages!Key(y) = <<y.name, y.id>>
      BY <2>1 DEF Pages!Key, Pages!ByName
    <3> QED BY <3>1, <1>2
  <2>2. CASE ask.kind = "services"
    <3>1. Pages!Key(x) = <<x.name, x.unit, x.id>> /\ Pages!Key(y) = <<y.name, y.unit, y.id>>
      BY <2>2 DEF Pages!Key, Pages!ByNameAndUnit
    <3> QED BY <3>1, <1>2
  <2>3. CASE ask.kind \in {"orders", "history", "expenses"}
    <3>1. Pages!Key(x) = <<-x.at, -x.id>> /\ Pages!Key(y) = <<-y.at, -y.id>>
      BY <2>3 DEF Pages!Key, Pages!Newest
    <3> QED BY <3>1, <1>2
  <2>4. CASE ask.kind = "payments"
    <3>1. Pages!Key(x) = <<x.at, x.id>> /\ Pages!Key(y) = <<y.at, y.id>>
      BY <2>4 DEF Pages!Key, Pages!Oldest
    <3> QED BY <3>1, <1>2
  <2>5. CASE ask.kind \in {"support requests", "support sessions", "platform audit", "business audit"}
    <3>1. Pages!Key(x) = <<-x.id>> /\ Pages!Key(y) = <<-y.id>>
      BY <2>5 DEF Pages!Key, Pages!Latest
    <3> QED BY <3>1, <1>2
  <2>6. CASE ask.kind \in {"outlets", "staff", "businesses", "support outlets", "support perfumes"}
    <3>1. Pages!Key(x) = <<x.id>> /\ Pages!Key(y) = <<y.id>>
      BY <2>6 DEF Pages!Key, Pages!ById
    <3> QED BY <3>1, <1>2
  <2> QED BY <1>1, <2>1, <2>2, <2>3, <2>4, <2>5, <2>6 DEF ListingKinds
<1> QED BY <1>3, PrecedesIsTotal

\* Listed rows and what is shown of them are as many.
ShownOf(A) == {p \in Pages!Shown : \E x \in A : p = <<x.id, Pages!Key(x)>>}

LEMMA ShownAreAsMany ==
  ASSUME WalkTypes, NEW A \in SUBSET Pages!Listed
  PROVE  IsFiniteSet(ShownOf(A)) /\ Cardinality(ShownOf(A)) = Cardinality(A)
<1> DEFINE f == [x \in A |-> <<x.id, Pages!Key(x)>>]
<1>1. IsFiniteSet(A) /\ A \subseteq rows
  BY ListedIs, FS_Subset
<1>2. \A x \in A : f[x] \in ShownOf(A)
  BY DEF ShownOf, Pages!Shown
<1>3. \A x, y \in A : f[x] = f[y] => x = y
  BY <1>1 DEF WalkTypes
<1>4. \A p \in ShownOf(A) : \E x \in A : f[x] = p
  BY DEF ShownOf
<1>5. f \in [A -> ShownOf(A)]
  BY <1>2
<1> HIDE DEF f
<1>6. f \in Bijection(A, ShownOf(A))
  BY <1>3, <1>4, <1>5 DEF Bijection, Injection, IsInjective, Surjection
<1> QED BY <1>1, <1>6, FS_Bijection DEF ExistsBijection

\* A row that is not among the first n has n before it ...
LEMMA BehindTheFirst ==
  ASSUME WalkTypes, NEW n \in Nat, NEW B \in Pages!FirstRows(n), NEW x \in Pages!Listed \ B
  PROVE  \E S \in SUBSET Pages!Shown :
           n <= Cardinality(S) /\ \A q \in S : Pages!Precedes(q[2], Pages!Key(x))
<1>1. /\ B \in SUBSET Pages!Listed
      /\ Cardinality(B) = IF n < Cardinality(Pages!Listed) THEN n ELSE Cardinality(Pages!Listed)
      /\ \A y \in B : ~ Pages!Precedes(Pages!Key(x), Pages!Key(y))
  BY PagesCardinality DEF Pages!FirstRows
<1>2. Cardinality(B) = n
  BY <1>1, ListedIs, FS_Subset
<1>3. ASSUME NEW q \in ShownOf(B) PROVE Pages!Precedes(q[2], Pages!Key(x))
  <2>1. PICK y \in B : q = <<y.id, Pages!Key(y)>>
    BY DEF ShownOf
  <2>2. y \in rows /\ x \in rows /\ x.id # y.id
    BY <1>1, ListedIs DEF WalkTypes
  <2>3. Pages!Precedes(Pages!Key(y), Pages!Key(x))
    BY <2>2, <1>1, KeysOrder
  <2> QED BY <2>1, <2>3
<1>4. n <= Cardinality(ShownOf(B)) /\ ShownOf(B) \in SUBSET Pages!Shown
  BY <1>1, <1>2, ShownAreAsMany DEF ShownOf
<1> QED BY <1>3, <1>4

\* ... and one among them has fewer.
LEMMA AmongTheFirst ==
  ASSUME WalkTypes, NEW n \in Nat, NEW A \in Pages!FirstRows(n), NEW x \in A,
         NEW S \in SUBSET Pages!Shown, n <= Cardinality(S),
         \A q \in S : Pages!Precedes(q[2], Pages!Key(x))
  PROVE  FALSE
<1>1. /\ A \in SUBSET Pages!Listed
      /\ Cardinality(A) = IF n < Cardinality(Pages!Listed) THEN n ELSE Cardinality(Pages!Listed)
      /\ \A y \in Pages!Listed \ A : ~ Pages!Precedes(Pages!Key(y), Pages!Key(x))
  BY PagesCardinality DEF Pages!FirstRows
<1> DEFINE p == <<x.id, Pages!Key(x)>>
<1>2. p \in ShownOf(A)
  BY <1>1 DEF ShownOf, Pages!Shown
<1>3. ASSUME NEW q \in S PROVE q \in ShownOf(A) \ {p}
  <2>1. PICK y \in Pages!Listed : q = <<y.id, Pages!Key(y)>>
    BY DEF Pages!Shown
  <2>2. Pages!Precedes(Pages!Key(y), Pages!Key(x))
    BY <2>1
  <2>3. y \in A
    BY <2>2, <1>1
  <2>4. ~ Pages!Precedes(Pages!Key(x), Pages!Key(x))
    BY <1>1, ListedIs, KeysOrder
  <2>5. Pages!Key(y) # Pages!Key(x)
    BY <2>2, <2>4
  <2> QED BY <2>1, <2>3, <2>5 DEF ShownOf
<1>4. IsFiniteSet(ShownOf(A)) /\ Cardinality(ShownOf(A)) = Cardinality(A)
  BY <1>1, ShownAreAsMany
<1>5. /\ IsFiniteSet(ShownOf(A) \ {p})
      /\ Cardinality(ShownOf(A) \ {p}) = Cardinality(ShownOf(A)) - 1
  BY <1>2, <1>4, FS_RemoveElement
<1>6. Cardinality(S) <= Cardinality(ShownOf(A) \ {p})
  BY <1>3, <1>5, FS_Subset
<1>7. Cardinality(A) <= n /\ Cardinality(A) \in Nat /\ Cardinality(S) \in Nat
  <2>1. IsFiniteSet(A) /\ IsFiniteSet(S) /\ IsFiniteSet(Pages!Listed)
    BY <1>1, <1>3, <1>5, ListedIs, FS_Subset
  <2>2. Cardinality(Pages!Listed) \in Nat /\ Cardinality(S) \in Nat
    BY <2>1, FS_CardinalityType
  <2> QED BY <2>2, <1>1
<1> QED BY <1>4, <1>5, <1>6, <1>7

LEMMA WalkInit == Pages!Init => WalkInv
<1>1. SUFFICES ASSUME Pages!Init PROVE WalkInv
  OBVIOUS
<1>2. /\ ask \in Pages!Asks /\ rows \in SUBSET Rows /\ seen = {} /\ disturbed = FALSE
      /\ walk = [page |-> 1, total |-> 0, phase |-> "list"]
      /\ first = {r.id : r \in Pages!Listed}
  BY <1>1 DEF Pages!Init
<1>3. WalkTypes
  <2>1. IsFiniteSet(rows)
    BY <1>2, ListingAssumption, FS_Subset
  <2>2. rows \subseteq ListedRow /\ \A r, s \in rows : r.id = s.id => r = s
    BY <1>2, ListingAssumption DEF ListedRow
  <2>3. walk \in [page : Nat \ {0}, total : Nat, phase : {"list", "count", "done"}]
    BY <1>2
  <2> QED BY <2>1, <2>2, <2>3, <1>2, Zenon DEF WalkTypes
<1>4. ASSUME NEW id \in first PROVE \E p \in Pages!Shown : p[1] = id
  <2>1. PICK r \in Pages!Listed : id = r.id
    BY <1>2
  <2>2. <<r.id, Pages!Key(r)>> \in Pages!Shown
    BY DEF Pages!Shown
  <2> QED BY <2>1, <2>2
<1>5. RowsRead = 0
  BY <1>2, AskIs DEF RowsRead
<1>6. \A id \in first : Behind(id, 0)
  <2>1. {} \in SUBSET Pages!Shown /\ 0 <= Cardinality({}) /\ \A p : \A q \in {} : Pages!Precedes(q[2], p[2])
    BY FS_EmptySet
  <2> QED BY <2>1, <1>4 DEF Behind
<1> QED BY <1>2, <1>3, <1>4, <1>5, <1>6 DEF WalkInv, StillListed, StillAhead, Pages!NothingMissed

\* Nothing that is listed changes while the client is told.
LEMMA SameListing ==
  ASSUME UNCHANGED <<ask, rows, reach, trading, today>>
  PROVE  Pages!Shown' = Pages!Shown
  BY DEF Pages!Shown, Pages!Listed, Pages!Key, Pages!ByName, Pages!ByNameAndUnit, Pages!Newest, Pages!Oldest,
         Pages!Latest, Pages!ById, Pages!OutletRows, Pages!StaffRows, Pages!CustomerRows,
         Pages!CategoryRows, Pages!PerfumeRows, Pages!ServiceRows, Pages!OrderRows, Pages!HistoryRows,
         Pages!PaymentRows, Pages!ExpenseRows, Pages!BusinessRows, Pages!SupportRequestRows,
         Pages!SupportSessionRows, Pages!SupportPerfumeRows, Pages!PlatformAuditRows,
         Pages!BusinessAuditRows, Pages!Own, Pages!Kept, Pages!InReach, Pages!expenseDateRange

LEMMA WalkListPage ==
  ASSUME WalkInv, Pages!ListPage
  PROVE  WalkInv'
<1>1. WalkTypes /\ StillListed /\ StillAhead
  BY DEF WalkInv
<1>2. /\ walk.phase = "list" /\ walk' = [walk EXCEPT !.phase = "count"]
      /\ UNCHANGED <<ask, rows, reach, trading, today, changes, first, disturbed>>
  BY DEF Pages!ListPage
<1>3. PICK page \in Pages!Pages(walk.page) : seen' = seen \cup {r.id : r \in page}
  BY DEF Pages!ListPage
<1>4. ask.size \in Nat \ {0} /\ walk.page \in Nat \ {0}
  BY <1>1, AskIs DEF WalkTypes
<1> DEFINE n == (walk.page - 1) * ask.size
<1>5. n \in Nat /\ n + ask.size = walk.page * ask.size /\ n + ask.size \in Nat
  BY <1>4
<1>6. RowsRead = n /\ RowsRead' = n + ask.size /\ walk'.page = walk.page /\ walk'.phase = "count"
  BY <1>1, <1>2, <1>5 DEF RowsRead, WalkTypes
<1>7. PICK B \in Pages!FirstRows(n + ask.size), A \in Pages!FirstRows(n) : page = B \ A
  BY <1>3 DEF Pages!Pages, Pages!pagination
<1> HIDE DEF n
<1>8. Pages!Shown' = Pages!Shown
  BY <1>2, SameListing
<1>9. page \subseteq Pages!Listed
  BY <1>7 DEF Pages!FirstRows
<1>10. WalkTypes'
  BY <1>1, <1>2 DEF WalkTypes
<1>11. StillListed'
  <2>1. SUFFICES ASSUME ~ disturbed, NEW id \in first \cup seen' PROVE \E p \in Pages!Shown : p[1] = id
    BY <1>2, <1>8 DEF StillListed
  <2>2. CASE id \in first \cup seen
    BY <2>1, <2>2, <1>1 DEF StillListed
  <2>3. CASE id \notin first \cup seen
    <3>1. PICK r \in page : id = r.id
      BY <2>1, <2>3, <1>3
    <3>2. <<r.id, Pages!Key(r)>> \in Pages!Shown
      BY <1>9 DEF Pages!Shown
    <3> QED BY <3>1, <3>2
  <2> QED BY <2>2, <2>3
<1>12. StillAhead'
  <2>1. SUFFICES ASSUME ~ disturbed, NEW id \in first \ seen' PROVE Behind(id, n + ask.size)
    <3>1. PICK m : m = n + ask.size
      OBVIOUS
    <3>2. \A id : Behind(id, m)' <=> Behind(id, m)
      BY <1>2, <1>8 DEF Behind
    <3> QED BY <3>1, <3>2, <1>2, <1>6 DEF StillAhead
  <2>2. id \in first \ seen
    BY <2>1, <1>3
  <2>3. PICK p \in Pages!Shown, S \in SUBSET Pages!Shown :
          /\ p[1] = id
          /\ n <= Cardinality(S) /\ \A q \in S : Pages!Precedes(q[2], p[2])
    BY <2>1, <2>2, <1>1, <1>2, <1>6 DEF StillAhead, Behind
  <2>4. PICK x \in Pages!Listed : p = <<x.id, Pages!Key(x)>>
    BY DEF Pages!Shown
  <2>5. x \notin A
    BY <2>3, <2>4, <1>1, <1>5, <1>7, AmongTheFirst
  <2>6. x \notin B
    BY <2>1, <2>3, <2>4, <2>5, <1>3, <1>7
  <2>7. \E T \in SUBSET Pages!Shown :
          n + ask.size <= Cardinality(T) /\ \A q \in T : Pages!Precedes(q[2], Pages!Key(x))
    BY <2>6, <1>1, <1>5, <1>7, BehindTheFirst
  <2> QED BY <2>3, <2>4, <2>7 DEF Behind
<1> QED BY <1>2, <1>6, <1>10, <1>11, <1>12 DEF WalkInv, Pages!NothingMissed

LEMMA WalkCountRows ==
  ASSUME WalkInv, Pages!CountRows
  PROVE  WalkInv'
<1>1. WalkTypes /\ StillListed /\ StillAhead
  BY DEF WalkInv
<1>2. /\ walk.phase = "count"
      /\ walk' = IF walk.page < Pages!pageInfo(ask.size, Pages!Counted)
                 THEN [page |-> walk.page + 1, total |-> Pages!Counted, phase |-> "list"]
                 ELSE [walk EXCEPT !.total = Pages!Counted, !.phase = "done"]
      /\ UNCHANGED <<ask, rows, reach, trading, today, changes, seen, first, disturbed>>
  BY DEF Pages!CountRows
<1>3. ask.size \in Nat \ {0} /\ walk.page \in Nat \ {0}
  BY <1>1, AskIs DEF WalkTypes
<1>4. Pages!Counted = Cardinality(Pages!Listed) /\ Pages!Counted \in Nat
  BY <1>1, ListedIs, FS_CardinalityType
<1>5. Pages!Shown' = Pages!Shown
  BY <1>2, SameListing
<1>6. WalkTypes'
  <2>1. walk' \in [page : Nat \ {0}, total : Nat, phase : {"list", "count", "done"}]
    <3>1. CASE walk.page < Pages!pageInfo(ask.size, Pages!Counted)
      BY <3>1, <1>2, <1>3, <1>4
    <3>2. CASE ~ (walk.page < Pages!pageInfo(ask.size, Pages!Counted))
      BY <3>2, <1>1, <1>2, <1>4 DEF WalkTypes
    <3> QED BY <3>1, <3>2
  <2> QED BY <2>1, <1>1, <1>2 DEF WalkTypes
<1>7. StillListed'
  BY <1>1, <1>2, <1>5 DEF StillListed
<1>8. RowsRead = walk.page * ask.size
  BY <1>2 DEF RowsRead
<1>9. CASE walk.page < Pages!pageInfo(ask.size, Pages!Counted)
  <2>1. walk'.page = walk.page + 1 /\ walk'.phase = "list"
    BY <1>2, <1>9
  <2>2. RowsRead' = RowsRead
    BY <2>1, <1>2, <1>3, <1>8 DEF RowsRead
  <2>3. StillAhead'
    BY <2>1, <2>2, <1>1, <1>2, <1>5 DEF StillAhead, Behind
  <2> QED BY <2>1, <2>3, <1>6, <1>7 DEF WalkInv, Pages!NothingMissed
<1>10. CASE ~ (walk.page < Pages!pageInfo(ask.size, Pages!Counted))
  <2>1. walk'.phase = "done"
    BY <1>1, <1>2, <1>10 DEF WalkTypes
  <2>2. Cardinality(Pages!Listed) <= RowsRead
    <3>1. (Pages!Counted + ask.size - 1) \div ask.size <= walk.page
      BY <1>3, <1>4, <1>10 DEF Pages!pageInfo
    <3> QED BY <3>1, <1>3, <1>4, <1>8
  <2>3. ASSUME ~ disturbed, NEW id \in first \ seen PROVE FALSE
    <3>1. PICK p \in Pages!Shown, S \in SUBSET Pages!Shown :
            /\ p[1] = id
            /\ RowsRead <= Cardinality(S) /\ \A q \in S : Pages!Precedes(q[2], p[2])
      BY <2>3, <1>1, <1>2 DEF StillAhead, Behind
    <3>2. PICK x \in Pages!Listed : p = <<x.id, Pages!Key(x)>>
      BY DEF Pages!Shown
    <3>3. Pages!Listed \in Pages!FirstRows(Cardinality(Pages!Listed))
      BY PagesCardinality DEF Pages!FirstRows
    <3>4. Cardinality(Pages!Listed) <= Cardinality(S)
      <4>1. IsFiniteSet(Pages!Shown)
        <5>1. ShownOf(Pages!Listed) = Pages!Shown
          BY DEF ShownOf, Pages!Shown
        <5> QED BY <5>1, <1>1, ShownAreAsMany
      <4>2. Cardinality(S) \in Nat
        BY <4>1, FS_Subset, FS_CardinalityType
      <4> QED BY <4>2, <3>1, <2>2, <1>3, <1>4, <1>8
    <3> QED BY <3>1, <3>2, <3>3, <3>4, <1>1, <1>4, AmongTheFirst
  <2> QED BY <2>1, <2>3, <1>2, <1>6, <1>7 DEF WalkInv, StillAhead, Pages!NothingMissed
<1> QED BY <1>9, <1>10

LEMMA WalkFail ==
  ASSUME WalkInv, Pages!Fail
  PROVE  WalkInv'
<1>1. WalkTypes /\ StillListed /\ StillAhead
  BY DEF WalkInv
<1>2. /\ walk.phase = "count" /\ walk' = [walk EXCEPT !.phase = "list"]
      /\ UNCHANGED <<ask, rows, reach, trading, today, changes, seen, first, disturbed>>
  BY DEF Pages!Fail
<1>3. ask.size \in Nat \ {0} /\ walk.page \in Nat \ {0}
  BY <1>1, AskIs DEF WalkTypes
<1>4. walk'.page = walk.page /\ walk'.phase = "list"
  BY <1>1, <1>2 DEF WalkTypes
<1>5. Pages!Shown' = Pages!Shown
  BY <1>2, SameListing
<1>6. WalkTypes' /\ StillListed'
  BY <1>1, <1>2, <1>5 DEF WalkTypes, StillListed
<1>7. PICK n, m : n = RowsRead /\ m = RowsRead'
  OBVIOUS
<1>8. n \in Nat /\ m \in Nat /\ m <= n
  <2>1. n = walk.page * ask.size /\ m = (walk.page - 1) * ask.size
    BY <1>2, <1>4, <1>7 DEF RowsRead
  <2>2. n = m + ask.size /\ m \in Nat
    BY <2>1, <1>3
  <2> QED BY <2>2, <1>3
<1>9. ASSUME NEW id, Behind(id, n) PROVE Behind(id, m)'
  <2>1. PICK p \in Pages!Shown, S \in SUBSET Pages!Shown :
          p[1] = id /\ n <= Cardinality(S) /\ \A q \in S : Pages!Precedes(q[2], p[2])
    BY <1>9 DEF Behind
  <2>2. Cardinality(S) \in Nat
    <3>1. ShownOf(Pages!Listed) = Pages!Shown
      BY DEF ShownOf, Pages!Shown
    <3> QED BY <3>1, <1>1, ShownAreAsMany, FS_Subset, FS_CardinalityType
  <2>3. m <= Cardinality(S)
    BY <2>1, <2>2, <1>8
  <2> QED BY <2>1, <2>3, <1>5 DEF Behind
<1>10. StillAhead'
  BY <1>1, <1>2, <1>7, <1>9 DEF StillAhead
<1> QED BY <1>4, <1>6, <1>10 DEF WalkInv, Pages!NothingMissed

\* Orders of an outlet that is not assigned any more: none is listed.
LEMMA WalkForbid ==
  ASSUME WalkInv, Pages!Forbid
  PROVE  WalkInv'
<1>1. WalkTypes /\ StillListed
  BY DEF WalkInv
<1>2. /\ ~ Pages!orderHasOutlet /\ walk' = [walk EXCEPT !.phase = "done"]
      /\ UNCHANGED <<ask, rows, reach, trading, today, changes, seen, first, disturbed>>
  BY DEF Pages!Forbid
<1>3. PICK x : ask.outlets = {x}
  BY <1>1, <1>2, AskIs DEF Pages!orderHasOutlet, WalkTypes
<1>4. Pages!Listed = {}
  BY <1>2, <1>3 DEF Pages!Listed, Pages!OrderRows, Pages!InReach, Pages!orderHasOutlet
<1>5. ~ disturbed => first = {}
  BY <1>1, <1>4 DEF StillListed, Pages!Shown
<1>6. Pages!Shown' = Pages!Shown
  BY <1>2, SameListing
<1>7. WalkTypes' /\ StillListed' /\ walk'.phase = "done"
  BY <1>1, <1>2, <1>6 DEF WalkTypes, StillListed
<1> QED BY <1>2, <1>5, <1>7 DEF WalkInv, StillAhead, Pages!NothingMissed

\* The rest of the system: rows are added, changed, or leave the reach of the user.
LEMMA WalkTrade ==
  ASSUME WalkInv, walk.phase # "done",
         Pages!Insert \/ Pages!Change \/ Pages!Reassign \/ Pages!Close \/ Pages!Midnight
  PROVE  WalkInv'
<1>1. WalkTypes /\ StillListed /\ StillAhead
  BY DEF WalkInv
<1>2. UNCHANGED <<ask, walk, seen, first>> /\ disturbed' = (disturbed \/ ~ Pages!Shown \subseteq Pages!Shown')
  BY DEF Pages!Insert, Pages!Change, Pages!Reassign, Pages!Close, Pages!Midnight, Pages!Notice
<1>3. /\ IsFiniteSet(rows') /\ rows' \subseteq ListedRow
      /\ \A r, s \in rows' : r.id = s.id => r = s
  <2>1. CASE Pages!Insert
    <3>1. PICK r \in Rows : (\A x \in rows : x.id # r.id) /\ rows' = rows \cup {r}
      BY <2>1 DEF Pages!Insert
    <3>2. IsFiniteSet(rows')
      BY <3>1, <1>1, FS_AddElement DEF WalkTypes
    <3>3. r \in ListedRow
      BY ListingAssumption DEF ListedRow
    <3> QED BY <3>1, <3>2, <3>3, <1>1 DEF WalkTypes
  <2>2. CASE Pages!Change
    <3>1. PICK x \in rows : \E y \in {[x EXCEPT !.active = ~ @], [x EXCEPT !.deleted = TRUE],
                                     [x EXCEPT !.name = 3 - @], [x EXCEPT !.status = 3 - @]} :
            rows' = (rows \ {x}) \cup {y}
      BY <2>2 DEF Pages!Change
    <3>2. PICK y : /\ y \in {[x EXCEPT !.active = ~ @], [x EXCEPT !.deleted = TRUE],
                            [x EXCEPT !.name = 3 - @], [x EXCEPT !.status = 3 - @]}
                   /\ rows' = (rows \ {x}) \cup {y}
      BY <3>1
    <3>3. x \in ListedRow
      BY <1>1 DEF WalkTypes
    <3>4. y \in ListedRow /\ y.id = x.id
      <4>1. [x EXCEPT !.active = ~ @] \in ListedRow /\ [x EXCEPT !.active = ~ @].id = x.id
        BY <3>3 DEF ListedRow
      <4>2. [x EXCEPT !.deleted = TRUE] \in ListedRow /\ [x EXCEPT !.deleted = TRUE].id = x.id
        BY <3>3 DEF ListedRow
      <4>3. [x EXCEPT !.name = 3 - @] \in ListedRow /\ [x EXCEPT !.name = 3 - @].id = x.id
        BY <3>3 DEF ListedRow
      <4>4. [x EXCEPT !.status = 3 - @] \in ListedRow /\ [x EXCEPT !.status = 3 - @].id = x.id
        BY <3>3 DEF ListedRow
      <4> QED BY <4>1, <4>2, <4>3, <4>4, <3>2
    <3>5. IsFiniteSet(rows \ {x})
      BY <1>1, FS_RemoveElement DEF WalkTypes
    <3>6. IsFiniteSet(rows')
      BY <3>2, <3>5, FS_AddElement
    <3>7. \A r \in rows \ {x} : r.id # y.id
      BY <3>4, <1>1 DEF WalkTypes
    <3> QED BY <3>2, <3>4, <3>6, <3>7, <1>1 DEF WalkTypes
  <2>3. CASE UNCHANGED rows
    BY <2>3, <1>1 DEF WalkTypes
  <2> QED BY <2>1, <2>2, <2>3 DEF Pages!Reassign, Pages!Close, Pages!Midnight
<1>4. WalkTypes'
  BY <1>1, <1>2, <1>3 DEF WalkTypes
<1>5. ~ disturbed' => ~ disturbed /\ Pages!Shown \subseteq Pages!Shown'
  BY <1>2
<1>6. StillListed'
  BY <1>1, <1>2, <1>5 DEF StillListed
<1>7. PICK n : n = RowsRead /\ n = RowsRead'
  BY <1>2 DEF RowsRead
<1>8. ASSUME ~ disturbed', NEW id, Behind(id, n) PROVE Behind(id, n)'
  BY <1>5, <1>8 DEF Behind
<1>9. StillAhead'
  BY <1>1, <1>2, <1>5, <1>7, <1>8 DEF StillAhead
<1> QED BY <1>2, <1>4, <1>6, <1>9 DEF WalkInv, Pages!NothingMissed

LEMMA WalkNext ==
  ASSUME WalkInv, [Pages!Next]_listingVars
  PROVE  WalkInv'
<1>1. CASE UNCHANGED listingVars
  <2>1. Pages!Shown' = Pages!Shown
    BY <1>1, SameListing DEF listingVars
  <2> QED BY <2>1, <1>1 DEF listingVars, WalkInv, WalkTypes, StillListed, StillAhead, Behind, RowsRead,
                            Pages!NothingMissed
<1>2. CASE Pages!ListPage \/ Pages!CountRows \/ Pages!Fail \/ Pages!Forbid
  BY <1>2, WalkListPage, WalkCountRows, WalkFail, WalkForbid
<1>3. CASE /\ walk.phase # "done" /\ ~ disturbed
           /\ Pages!Insert \/ Pages!Change \/ Pages!Reassign \/ Pages!Close \/ Pages!Midnight
  BY <1>3, WalkTrade
<1>4. CASE UNCHANGED Pages!vars
  BY <1>1, <1>4 DEF Pages!vars, listingVars
<1> QED BY <1>1, <1>2, <1>3, <1>4 DEF Pages!Next

\* A row that is listed can be opened: the query of one row asks no more than the listing.
LEMMA ListedOpens ==
  ASSUME WalkTypes, ask.kind \in Pages!Opens, NEW r \in Pages!Listed
  PROVE  Pages!Opened(r.id) # {}
<1>1. r \in Pages!Opened(r.id)
  BY DEF Pages!Listed, Pages!Opened, Pages!Opens, Pages!OutletRows, Pages!StaffRows, Pages!CustomerRows,
         Pages!CategoryRows, Pages!PerfumeRows, Pages!ServiceRows, Pages!OrderRows, Pages!HistoryRows,
         Pages!ExpenseRows, Pages!BusinessRows, Pages!SupportRequestRows, Pages!Own, Pages!Kept,
         Pages!InReach, Pages!GetOutlet, Pages!GetStaff, Pages!GetCustomer, Pages!GetExpenseCategory,
         Pages!GetPerfume, Pages!GetService, Pages!GetOrder, Pages!GetExpense,
         Pages!PlatformGetBusiness, Pages!SupportGetRequest
<1> QED BY <1>1

\* A client that reads any listing to its last page has seen every row that was listed when
\* it began, unless one of them left or moved, and can open what it was shown, for any
\* rows, page sizes and interleaving of pages, counts and writers (pageInfo, the List
\* queries and their ORDER BY ..., id).
THEOREM NothingIsMissed == BackOfficeSpec => []NothingMissed
<1>1. BackOfficeInit => WalkInv
  BY WalkInit DEF BackOfficeInit
<1>2. [BackOfficeNext]_backOfficeVars => [Pages!Next]_listingVars
  BY DEF BackOfficeNext, backOfficeVars, ExpenseStep, CatalogStep, TemplateStep, ListingStep,
         ReportStep, TenantStep, LimiterStep
<1>3. WalkInv /\ [BackOfficeNext]_backOfficeVars => WalkInv'
  BY <1>2, WalkNext
<1>4. WalkInv => NothingMissed
  <2>1. SUFFICES ASSUME WalkInv, ~ disturbed, ask.kind \in Pages!Opens, NEW id \in seen
                 PROVE  Pages!Opened(id) # {}
    BY DEF WalkInv, NothingMissed, Pages!ShownIsFound
  <2>2. PICK r \in Pages!Listed : r.id = id
    BY <2>1 DEF WalkInv, StillListed, Pages!Shown
  <2> QED BY <2>1, <2>2, ListedOpens DEF WalkInv
<1> QED BY <1>1, <1>3, <1>4, PTL DEF BackOfficeSpec
-------------------------------------------------------------------------------
(***************************************************************************)
(* The reports.  What is written bears the time at which its transaction   *)
(* began, so that it falls on a day that is not closed yet.                *)
(***************************************************************************)
ReportedOrder ==
  [status : {"absent", "RECEIVED", "CANCELLED"}, received_at : Int, cancelled_at : Int]
ReportedPayment ==
  [status : {"CONFIRMED", "VOIDED"}, order : Orders, method : Methods, amount : Receipts,
   confirmed_at : Int]

ReportTypes ==
  /\ order \in [Orders -> ReportedOrder]
  /\ payment \in [Payments -> ReportedPayment \cup {Reports!NoPayment}]
  /\ clock \in Nat
  /\ began \in [Requests -> Nat \cup {-1}]

\* A moment is within a range when its day is.
LEMMA WithinItsDays ==
  ASSUME NEW t \in Int, NEW a \in Int, NEW b \in Int
  PROVE  /\ Reports!Day(t) \in Int
         /\ Reports!Within(t, <<a, b>>) <=> Reports!Day(t) \in a .. b
<1>1. DayLength \in Nat \ {0} /\ Offset \in Nat
  BY ReportAssumption
<1> DEFINE u == t + Offset
           q == Reports!Day(t)
<1>2. q = u \div DayLength /\ u \in Int
  BY <1>1 DEF Reports!Day
<1>3. Reports!Within(t, <<a, b>>) <=> a * DayLength <= u /\ u < (b + 1) * DayLength
  <2>1. a * DayLength \in Int /\ (b + 1) * DayLength \in Int
    BY <1>1
  <2> QED BY <1>1, <2>1 DEF Reports!Within, Reports!report_range
<1> HIDE DEF u, q
<1>4. q \in Int /\ q * DayLength <= u /\ u < (q + 1) * DayLength
  BY <1>1, <1>2
<1>5. \A x, y \in Int : x <= y => x * DayLength <= y * DayLength
  BY <1>1
<1>6. \A x \in Int : x * DayLength \in Int
  BY <1>1
<1>7. a <= q <=> a * DayLength <= u
  <2>1. CASE a <= q
    <3>1. a * DayLength <= q * DayLength
      BY <1>4, <1>5, <2>1
    <3> QED BY <1>2, <1>4, <1>6, <2>1, <3>1
  <2>2. CASE q + 1 <= a
    <3>1. (q + 1) * DayLength <= a * DayLength
      BY <1>4, <1>5, <2>2
    <3> QED BY <1>2, <1>4, <1>6, <2>2, <3>1
  <2> QED BY <1>4, <2>1, <2>2
<1>8. q <= b <=> u < (b + 1) * DayLength
  <2>1. CASE q <= b
    <3>1. (q + 1) * DayLength <= (b + 1) * DayLength
      BY <1>4, <1>5, <2>1
    <3> QED BY <1>2, <1>4, <1>6, <2>1, <3>1
  <2>2. CASE b + 1 <= q
    <3>1. (b + 1) * DayLength <= q * DayLength
      BY <1>4, <1>5, <2>2
    <3> QED BY <1>2, <1>4, <1>6, <2>2, <3>1
  <2> QED BY <1>4, <2>1, <2>2
<1>9. q \in Int /\ (Reports!Within(t, <<a, b>>) <=> q \in a .. b)
  BY <1>3, <1>4, <1>7, <1>8
<1> QED BY <1>9 DEF q

LEMMA WithinItsDay ==
  ASSUME NEW t \in Int, NEW d \in Int, Reports!Within(t, <<d, d>>)
  PROVE  Reports!Day(t) = d
BY WithinItsDays

LEMMA ReportInit == Reports!Init => ReportTypes
  BY DEF Reports!Init, ReportTypes, ReportedOrder, Reports!NoOrder

\* What was begun has a time.
LEMMA BegunIs ==
  ASSUME ReportTypes, NEW r \in Requests, Reports!End(r)
  PROVE  /\ began[r] \in Int /\ began[r] # -1
         /\ began' \in [Requests -> Nat \cup {-1}]
  BY DEF ReportTypes, Reports!End

\* An order is written as it is received or cancelled.
LEMMA ReportCreateOrder ==
  ASSUME ReportTypes, NEW r \in Requests, Reports!CreateOrder(r)
  PROVE  /\ payment' = payment /\ clock' = clock
         /\ \E o \in Orders : /\ order[o] = Reports!NoOrder
                              /\ order' \in [Orders -> ReportedOrder]
                              /\ order'[o].received_at = began[r] /\ order'[o].status = "RECEIVED"
                              /\ \A x \in Orders \ {o} : order'[x] = order[x]
<1>1. PICK o \in {x \in Orders : order[x] = Reports!NoOrder} :
        order' = [order EXCEPT ![o] = [@ EXCEPT !.status = "RECEIVED", !.received_at = began[r]]]
  BY DEF Reports!CreateOrder
<1>2. began[r] \in Int
  BY BegunIs DEF Reports!CreateOrder
<1>3. order \in [Orders -> ReportedOrder] /\ o \in Orders /\ order[o] = Reports!NoOrder
  BY <1>1 DEF ReportTypes
<1> DEFINE new == [order[o] EXCEPT !.status = "RECEIVED", !.received_at = began[r]]
<1>4. new \in ReportedOrder /\ new.received_at = began[r] /\ new.status = "RECEIVED"
  BY <1>2, <1>3 DEF ReportedOrder
<1>5. order' = [order EXCEPT ![o] = new]
  BY <1>1
<1> HIDE DEF new
<1>6. /\ order' \in [Orders -> ReportedOrder] /\ order'[o] = new
      /\ \A x \in Orders \ {o} : order'[x] = order[x]
  BY <1>3, <1>4, <1>5
<1> QED BY <1>3, <1>4, <1>6 DEF Reports!CreateOrder

LEMMA ReportCancel ==
  ASSUME ReportTypes, NEW r \in Requests, Reports!Cancel(r)
  PROVE  /\ payment' = payment /\ clock' = clock
         /\ order' \in [Orders -> ReportedOrder]
         /\ \A x \in Orders : /\ order'[x].received_at = order[x].received_at
                              /\ \/ order'[x] = order[x]
                                 \/ order'[x].status # "absent" /\ order[x].status # "absent"
<1>1. PICK o \in Orders :
        /\ order[o].status = "RECEIVED"
        /\ order' = [order EXCEPT ![o] = [@ EXCEPT !.status = "CANCELLED", !.cancelled_at = began[r]]]
  BY DEF Reports!Cancel
<1>2. began[r] \in Int
  BY BegunIs DEF Reports!Cancel
<1>3. order \in [Orders -> ReportedOrder]
  BY DEF ReportTypes
<1> DEFINE new == [order[o] EXCEPT !.status = "CANCELLED", !.cancelled_at = began[r]]
<1>4. new \in ReportedOrder /\ new.received_at = order[o].received_at /\ new.status = "CANCELLED"
  BY <1>2, <1>3 DEF ReportedOrder
<1>5. order' = [order EXCEPT ![o] = new]
  BY <1>1
<1> HIDE DEF new
<1>6. /\ order' \in [Orders -> ReportedOrder] /\ order'[o] = new
      /\ \A x \in Orders \ {o} : order'[x] = order[x]
  BY <1>3, <1>4, <1>5
<1> QED BY <1>1, <1>4, <1>6 DEF Reports!Cancel

\* A payment is written as it is recorded or voided.
LEMMA ReportRecord ==
  ASSUME ReportTypes, NEW r \in Requests, Reports!Record(r)
  PROVE  /\ order' = order /\ clock' = clock
         /\ \E p \in Payments : /\ payment' \in [Payments -> ReportedPayment \cup {Reports!NoPayment}]
                                /\ payment'[p].confirmed_at = began[r]
                                /\ \A x \in Payments \ {p} : payment'[x] = payment[x]
<1>1. PICK o \in Orders, p \in Payments, m \in Methods, a \in Receipts :
        payment' = [payment EXCEPT ![p] =
          [status |-> "CONFIRMED", order |-> o, method |-> m, amount |-> a, confirmed_at |-> began[r]]]
  BY DEF Reports!Record
<1>2. began[r] \in Int
  BY BegunIs DEF Reports!Record
<1> DEFINE new ==
      [status |-> "CONFIRMED", order |-> o, method |-> m, amount |-> a, confirmed_at |-> began[r]]
<1>3. new \in ReportedPayment /\ new.confirmed_at = began[r]
  BY <1>2 DEF ReportedPayment
<1>4. payment' = [payment EXCEPT ![p] = new]
  BY <1>1
<1>5. payment \in [Payments -> ReportedPayment \cup {Reports!NoPayment}]
  BY DEF ReportTypes
<1> HIDE DEF new
<1>6. /\ payment' \in [Payments -> ReportedPayment \cup {Reports!NoPayment}] /\ payment'[p] = new
      /\ \A x \in Payments \ {p} : payment'[x] = payment[x]
  BY <1>3, <1>4, <1>5
<1> QED BY <1>3, <1>6 DEF Reports!Record

LEMMA ReportVoid ==
  ASSUME ReportTypes, NEW r \in Requests, Reports!Void(r)
  PROVE  /\ order' = order /\ clock' = clock
         /\ payment' \in [Payments -> ReportedPayment \cup {Reports!NoPayment}]
         /\ \A x \in Payments : payment'[x] = payment[x] \/ payment'[x].status # "CONFIRMED"
<1>1. PICK p \in Payments :
        /\ payment[p].status = "CONFIRMED"
        /\ payment' = [payment EXCEPT ![p].status = "VOIDED"]
  BY DEF Reports!Void
<1>2. payment \in [Payments -> ReportedPayment \cup {Reports!NoPayment}]
  BY DEF ReportTypes
<1>3. payment[p] \in ReportedPayment
  BY <1>1, <1>2 DEF Reports!NoPayment
<1> DEFINE new == [payment[p] EXCEPT !.status = "VOIDED"]
<1>4. new \in ReportedPayment /\ new.status # "CONFIRMED"
  BY <1>3 DEF ReportedPayment
<1>5. payment' = [payment EXCEPT ![p] = new]
  BY <1>1
<1> HIDE DEF new
<1>6. /\ payment' \in [Payments -> ReportedPayment \cup {Reports!NoPayment}] /\ payment'[p] = new
      /\ \A x \in Payments \ {p} : payment'[x] = payment[x]
  BY <1>2, <1>4, <1>5
<1> QED BY <1>4, <1>6 DEF Reports!Void

\* What the reports of a closed day lose and keep in a step.
OnlyLose(d) ==
  /\ Reports!Confirmed(<<d, d>>)' \subseteq Reports!Confirmed(<<d, d>>)
  /\ Reports!Cohort(<<d, d>>)' = Reports!Cohort(<<d, d>>)

LEMMA ClosedDayLoses ==
  ASSUME ReportTypes, Reports!Next, NEW d \in Int, Reports!ClosedDay(d)
  PROVE  OnlyLose(d)
<1> USE DEF OnlyLose, Reports!Confirmed, Reports!Cohort, Reports!Within, Reports!report_range
<1>1. ASSUME NEW r \in Requests, Reports!End(r)
      PROVE  ~ Reports!Within(began[r], <<d, d>>)
  <2>1. began[r] \in Int /\ began[r] # -1
    BY <1>1, BegunIs
  <2>2. Reports!Day(began[r]) # d
    BY <2>1 DEF Reports!ClosedDay
  <2> QED BY <2>1, <2>2, WithinItsDay
<1>2. ASSUME NEW r \in Requests, Reports!CreateOrder(r)
      PROVE  OnlyLose(d)
  <2>1. payment' = payment
    BY <1>2, ReportCreateOrder
  <2>2. PICK o \in Orders :
          /\ order[o] = Reports!NoOrder
          /\ order'[o].received_at = began[r] /\ order'[o].status = "RECEIVED"
          /\ \A x \in Orders \ {o} : order'[x] = order[x]
    BY <1>2, ReportCreateOrder
  <2>3. ~ Reports!Within(began[r], <<d, d>>)
    BY <1>1, <1>2 DEF Reports!CreateOrder
  <2> QED BY <2>1, <2>2, <2>3
<1>3. ASSUME NEW r \in Requests, Reports!Cancel(r)
      PROVE  OnlyLose(d)
  <2>1. /\ payment' = payment
        /\ \A x \in Orders : /\ order'[x].received_at = order[x].received_at
                             /\ \/ order'[x] = order[x]
                                \/ order'[x].status # "absent" /\ order[x].status # "absent"
    BY <1>3, ReportCancel
  <2> QED BY <2>1 DEF Reports!NoOrder
<1>4. ASSUME NEW r \in Requests, Reports!Record(r)
      PROVE  OnlyLose(d)
  <2>1. order' = order
    BY <1>4, ReportRecord
  <2>2. PICK p \in Payments : /\ payment'[p].confirmed_at = began[r]
                              /\ \A x \in Payments \ {p} : payment'[x] = payment[x]
    BY <1>4, ReportRecord
  <2>3. ~ Reports!Within(began[r], <<d, d>>)
    BY <1>1, <1>4 DEF Reports!Record
  <2> QED BY <2>1, <2>2, <2>3
<1>5. ASSUME NEW r \in Requests, Reports!Void(r)
      PROVE  OnlyLose(d)
  <2>1. /\ order' = order
        /\ \A x \in Payments : payment'[x] = payment[x] \/ payment'[x].status # "CONFIRMED"
    BY <1>5, ReportVoid
  <2> QED BY <2>1
<1>6. ASSUME order' = order, payment' = payment
      PROVE  OnlyLose(d)
  BY <1>6
<1> QED
  BY <1>2, <1>3, <1>4, <1>5, <1>6
  DEF Reports!Next, Reports!Begin, Reports!EnterExpense, Reports!Rollback, Reports!Tick

LEMMA ReportTypesNext == ReportTypes /\ Reports!Next => ReportTypes'
<1> SUFFICES ASSUME ReportTypes, Reports!Next PROVE ReportTypes'
  OBVIOUS
<1>1. ASSUME NEW r \in Requests, Reports!CreateOrder(r) PROVE ReportTypes'
  BY <1>1, ReportCreateOrder, BegunIs DEF ReportTypes, Reports!CreateOrder
<1>2. ASSUME NEW r \in Requests, Reports!Cancel(r) PROVE ReportTypes'
  BY <1>2, ReportCancel, BegunIs DEF ReportTypes, Reports!Cancel
<1>3. ASSUME NEW r \in Requests, Reports!Record(r) PROVE ReportTypes'
  BY <1>3, ReportRecord, BegunIs DEF ReportTypes, Reports!Record
<1>4. ASSUME NEW r \in Requests, Reports!Void(r) PROVE ReportTypes'
  BY <1>4, ReportVoid, BegunIs DEF ReportTypes, Reports!Void
<1>5. ASSUME NEW r \in Requests, Reports!EnterExpense(r) \/ Reports!Rollback(r) PROVE ReportTypes'
  BY <1>5, BegunIs DEF ReportTypes, Reports!EnterExpense, Reports!Rollback
<1>6. ASSUME NEW r \in Requests, Reports!Begin(r) PROVE ReportTypes'
  BY <1>6 DEF ReportTypes, Reports!Begin
<1>7. ASSUME Reports!Tick PROVE ReportTypes'
  BY <1>7 DEF ReportTypes, Reports!Tick
<1> QED
  BY <1>1, <1>2, <1>3, <1>4, <1>5, <1>6, <1>7 DEF Reports!Next

\* The reports of a day that is over, and whose transactions have ended, only lose the
\* payments that are voided: now() is the time of BEGIN (Record, Create, Void, Cancel).
THEOREM ClosedDaysAlwaysOnlyLose == BackOfficeSpec => ClosedDaysOnlyLose
<1>1. BackOfficeInit => ReportTypes
  BY ReportInit DEF BackOfficeInit
<1>2. ReportTypes /\ [BackOfficeNext]_backOfficeVars => ReportTypes'
  <2>1. ReportTypes /\ UNCHANGED reportVars => ReportTypes'
    BY DEF ReportTypes, reportVars
  <2> QED BY <2>1, ReportTypesNext
        DEF BackOfficeNext, ExpenseStep, CatalogStep, TemplateStep, ListingStep, ReportStep, TenantStep,
            LimiterStep, backOfficeVars
<1>3. ReportTypes /\ [BackOfficeNext]_backOfficeVars =>
        [\A d \in Reports!Days : Reports!ClosedDay(d) =>
           /\ Reports!Confirmed(<<d, d>>)' \subseteq Reports!Confirmed(<<d, d>>)
           /\ Reports!Cohort(<<d, d>>)' = Reports!Cohort(<<d, d>>)]_<<order, payment>>
  <2>1. UNCHANGED reportVars => UNCHANGED <<order, payment>>
    BY DEF reportVars
  <2>2. ReportTypes /\ Reports!Next => \A d \in Int : Reports!ClosedDay(d) => OnlyLose(d)
    BY ClosedDayLoses
  <2>3. \A d \in Reports!Days : d \in Int
    BY DEF Reports!Days
  <2> QED BY <2>1, <2>2, <2>3
        DEF BackOfficeNext, ExpenseStep, CatalogStep, TemplateStep, ListingStep, ReportStep, TenantStep,
            LimiterStep, backOfficeVars, OnlyLose
<1>4. BackOfficeSpec => Reports!ClosedDaysOnlyLose
  BY <1>1, <1>2, <1>3, PTL DEF BackOfficeSpec, Reports!ClosedDaysOnlyLose
<1> QED BY <1>4 DEF ClosedDaysOnlyLose
-------------------------------------------------------------------------------
(***************************************************************************)
(* The reports agree.  Each is a table of rows that are dated; a table     *)
(* adds up to its rows whatever it is grouped by (SumTheorems), and a      *)
(* moment is of one day only.  What relates the tables to each other is    *)
(* that no order was ever paid more than it costs, and that one which was  *)
(* cancelled holds nothing: ReportSound, which every step keeps.           *)
(***************************************************************************)
\* The reports' sums are the sums of SumTheorems.
LEMMA ReportsSum ==
  ASSUME NEW f
  PROVE  Reports!SumFunction(f) = SumFunctionOnSet(f, DOMAIN f)
BY DEF Reports!SumFunction, Reports!SumFunctionOnSet, Reports!FoldFunctionOnSet, Reports!MapThenFoldSet,
       SumFunctionOnSet, FoldFunctionOnSet, MapThenFoldSet

LEMMA ReportsCount ==
  ASSUME NEW S
  PROVE  Reports!Cardinality(S) = Cardinality(S)
BY DEF Reports!Cardinality, Cardinality

\* The rows of a table that fall within a range.
Dated(U, at, range) == {x \in U : Reports!Within(at[x], range)}
DayOf(U, at) == [x \in U |-> Reports!Day(at[x])]

LEMMA DatedByDay ==
  ASSUME NEW U, IsFiniteSet(U), NEW at, \A x \in U : at[x] \in Int,
         NEW a \in Int, NEW b \in Int
  PROVE  /\ IsFiniteSet(Dated(U, at, <<a, b>>)) /\ Dated(U, at, <<a, b>>) \subseteq U
         /\ \A x \in Dated(U, at, <<a, b>>) : DayOf(U, at)[x] \in a .. b
         /\ \A d \in a .. b :
              Dated(U, at, <<d, d>>) = Group(Dated(U, at, <<a, b>>), DayOf(U, at), d)
<1>1. Dated(U, at, <<a, b>>) \subseteq U
  BY DEF Dated
<1>2. \A x \in U : /\ DayOf(U, at)[x] = Reports!Day(at[x])
                   /\ \A c, d \in Int : Reports!Within(at[x], <<c, d>>) <=> DayOf(U, at)[x] \in c .. d
  BY WithinItsDays DEF DayOf
<1>3. \A x \in Dated(U, at, <<a, b>>) : DayOf(U, at)[x] \in a .. b
  BY <1>2 DEF Dated
<1>4. ASSUME NEW d \in a .. b
      PROVE  Dated(U, at, <<d, d>>) = Group(Dated(U, at, <<a, b>>), DayOf(U, at), d)
  <2>1. d \in Int /\ \A k \in Int : k \in d .. d <=> k = d
    OBVIOUS
  <2>2. \A x \in U : DayOf(U, at)[x] \in Int
    BY WithinItsDays DEF DayOf
  <2>3. \A x \in U : Reports!Within(at[x], <<d, d>>) <=>
                       Reports!Within(at[x], <<a, b>>) /\ DayOf(U, at)[x] = d
    BY <1>2, <2>1, <2>2
  <2> QED BY <2>3 DEF Dated, Group
<1> QED BY <1>1, <1>3, <1>4, FS_Subset

\* A range adds up to its days.
LEMMA DaysAddUp ==
  ASSUME NEW U, IsFiniteSet(U), NEW at, NEW f, \A x \in U : at[x] \in Int /\ f[x] \in Int,
         NEW a \in Int, NEW b \in Int, NEW sums,
         \A d \in a .. b : sums[d] = SumFunctionOnSet(f, Dated(U, at, <<d, d>>))
  PROVE  SumFunctionOnSet(f, Dated(U, at, <<a, b>>)) = SumFunctionOnSet(sums, a .. b)
<1> DEFINE S == Dated(U, at, <<a, b>>)
           key == DayOf(U, at)
           D == a .. b
<1>1. /\ IsFiniteSet(S) /\ S \subseteq U /\ \A x \in S : key[x] \in D
      /\ \A d \in D : Dated(U, at, <<d, d>>) = Group(S, key, d)
  BY DatedByDay
<1>2. IsFiniteSet(D)
  BY FS_Interval
<1>3. \A x \in S : f[x] \in Int /\ key[x] \in D
  BY <1>1
<1>4. \A d \in D : sums[d] = SumFunctionOnSet(f, Group(S, key, d))
  BY <1>1
<1> HIDE DEF S, key, D
<1>5. SumFunctionOnSet(f, S) = SumFunctionOnSet(sums, D)
  BY <1>1, <1>2, <1>3, <1>4, SumOfGroups
<1> QED BY <1>5 DEF S, D

\* A table of a report: for each key that occurs, how many rows and how much.
TableOf(S, key, f, t) ==
  /\ DOMAIN t = {key[x] : x \in S}
  /\ \A k \in DOMAIN t : /\ t[k].count = Cardinality(Group(S, key, k))
                             /\ t[k].amount = SumFunctionOnSet(f, Group(S, key, k))

\* Its summary is that of the rows, by whatever they are grouped.
LEMMA TableAddsUp ==
  ASSUME NEW S, IsFiniteSet(S), NEW key, NEW f, \A x \in S : f[x] \in Int,
         NEW t, TableOf(S, key, f, t)
  PROVE  Reports!Summary(t) = [count |-> Cardinality(S), amount |-> SumFunctionOnSet(f, S)]
<1> DEFINE D == DOMAIN t
           count == [d \in D |-> t[d].count]
           amount == [d \in D |-> t[d].amount]
<1>1. IsFiniteSet(D) /\ \A x \in S : key[x] \in D
  BY KeysFinite DEF TableOf
<1>2. \A d \in D : /\ count[d] = Cardinality(Group(S, key, d))
                   /\ amount[d] = SumFunctionOnSet(f, Group(S, key, d))
  BY DEF TableOf
<1>3. /\ Reports!SumFunction(count) = SumFunctionOnSet(count, D)
      /\ Reports!SumFunction(amount) = SumFunctionOnSet(amount, D)
  BY ReportsSum
<1>4. Reports!Summary(t) = [count |-> Reports!SumFunction(count), amount |-> Reports!SumFunction(amount)]
  BY DEF Reports!Summary
<1> HIDE DEF D, count, amount
<1>5. SumFunctionOnSet(count, D) = Cardinality(S)
  BY <1>1, <1>2, CountOfGroups
<1>6. SumFunctionOnSet(f, S) = SumFunctionOnSet(amount, D)
  BY <1>1, <1>2, SumOfGroups
<1> QED BY <1>3, <1>4, <1>5, <1>6

\* A key that does not occur adds nothing.
LEMMA TableAt ==
  ASSUME NEW S, NEW key, NEW f, NEW t, TableOf(S, key, f, t), NEW k
  PROVE  Reports!AmountOn(t, k) = SumFunctionOnSet(f, Group(S, key, k))
<1>1. CASE k \in DOMAIN t
  BY <1>1 DEF TableOf, Reports!AmountOn
<1>2. CASE k \notin DOMAIN t
  <2>1. Group(S, key, k) = {}
    BY <1>2 DEF TableOf, Group
  <2> QED BY <1>2, <2>1, SumOfNone DEF Reports!AmountOn
<1> QED BY <1>1, <1>2

LEMMA RowsSum ==
  ASSUME NEW S, IsFiniteSet(S), NEW f, NEW h, DOMAIN h = S, \A x \in S : h[x] = f[x]
  PROVE  Reports!SumFunction(h) = SumFunctionOnSet(f, S)
BY ReportsSum, SumOfSame

\* What is written is written at a time there was, a payment for an order that is there; no
\* order is paid more than it costs, and none that is cancelled holds money.
TimesSound == clock \in 0 .. MaxClock /\ \A r \in Requests : began[r] <= clock
OrdersSound ==
  \A o \in Orders : order[o] # Reports!NoOrder =>
    /\ order[o].status # "absent" /\ order[o].received_at \in 0 .. MaxClock
    /\ order[o].status = "CANCELLED" => order[o].cancelled_at \in 0 .. MaxClock
PaymentsSound ==
  \A p \in Payments : payment[p].status = "CONFIRMED" =>
    payment[p].confirmed_at \in 0 .. MaxClock /\ order[payment[p].order] # Reports!NoOrder
ExpensesSound ==
  spending \in [Expenses -> [amount : Receipts, expense_at : 0 .. MaxClock] \cup {Reports!NoExpense}]
MoneySound ==
  \A o \in Orders : /\ Reports!payments_by_order(o) \in 0 .. Total[o]
                    /\ order[o].status = "CANCELLED" => Reports!payments_by_order(o) = 0
ReportSound == TimesSound /\ OrdersSound /\ PaymentsSound /\ ExpensesSound /\ MoneySound

ConfirmedRows == {p \in Payments : payment[p].status = "CONFIRMED"}
AmountPaid == [p \in Payments |-> payment[p].amount]
PaidOn == [p \in Payments |-> payment[p].confirmed_at]
PaidFor == [p \in Payments |-> payment[p].order]
PaidBy == [p \in Payments |-> payment[p].method]
SpentRows == {e \in Expenses : spending[e] # Reports!NoExpense}
AmountSpent == [e \in Expenses |-> spending[e].amount]
SpentOn == [e \in Expenses |-> spending[e].expense_at]
CancelledRows == {o \in Orders : order[o].status = "CANCELLED"}
CancelledOn == [o \in Orders |-> order[o].cancelled_at]
OrderRows == {o \in Orders : order[o] # Reports!NoOrder}
ReceivedOn == [o \in Orders |-> order[o].received_at]

\* The rows the reports read.
LEMMA ReportRows ==
  ASSUME ReportTypes, ReportSound
  PROVE  /\ IsFiniteSet(ConfirmedRows) /\ ConfirmedRows \subseteq Payments
         /\ \A p \in ConfirmedRows : /\ AmountPaid[p] \in Nat /\ PaidOn[p] \in 0 .. MaxClock
                                     /\ PaidFor[p] \in OrderRows
         /\ IsFiniteSet(SpentRows) /\ SpentRows \subseteq Expenses
         /\ \A e \in SpentRows : AmountSpent[e] \in Nat /\ SpentOn[e] \in 0 .. MaxClock
         /\ IsFiniteSet(OrderRows) /\ OrderRows \subseteq Orders
         /\ \A o \in OrderRows : Total[o] \in Nat /\ ReceivedOn[o] \in 0 .. MaxClock
         /\ IsFiniteSet(CancelledRows) /\ CancelledRows \subseteq OrderRows
         /\ \A o \in CancelledRows : CancelledOn[o] \in 0 .. MaxClock
<1>1. /\ ConfirmedRows \subseteq Payments /\ SpentRows \subseteq Expenses
      /\ OrderRows \subseteq Orders /\ CancelledRows \subseteq OrderRows
  BY DEF ConfirmedRows, SpentRows, OrderRows, CancelledRows, Reports!NoOrder
<1>2. /\ IsFiniteSet(ConfirmedRows) /\ IsFiniteSet(SpentRows) /\ IsFiniteSet(OrderRows)
      /\ IsFiniteSet(CancelledRows)
  BY <1>1, ReportAssumption, FS_Subset
<1>3. ASSUME NEW p \in ConfirmedRows
      PROVE  AmountPaid[p] \in Nat /\ PaidOn[p] \in 0 .. MaxClock /\ PaidFor[p] \in OrderRows
  <2>1. payment[p] \in ReportedPayment
    BY DEF ConfirmedRows, ReportTypes, Reports!NoPayment
  <2>2. payment[p].amount \in Nat /\ payment[p].order \in Orders
    BY <2>1, ReportAssumption DEF ReportedPayment
  <2> QED BY <2>2 DEF ConfirmedRows, AmountPaid, PaidOn, PaidFor, OrderRows, ReportSound, PaymentsSound
<1>4. \A e \in SpentRows : AmountSpent[e] \in Nat /\ SpentOn[e] \in 0 .. MaxClock
  BY ReportAssumption DEF SpentRows, AmountSpent, SpentOn, ReportSound, ExpensesSound
<1>5. \A o \in OrderRows : Total[o] \in Nat /\ ReceivedOn[o] \in 0 .. MaxClock
  BY ReportAssumption DEF OrderRows, ReceivedOn, ReportSound, OrdersSound
<1>6. \A o \in CancelledRows : CancelledOn[o] \in 0 .. MaxClock
  BY <1>1 DEF CancelledRows, OrderRows, CancelledOn, ReportSound, OrdersSound
<1> QED BY <1>1, <1>2, <1>3, <1>4, <1>5, <1>6

\* The rows of a range, and each day's part of them.
LEMMA RangeRows ==
  ASSUME NEW range
  PROVE  /\ Reports!Confirmed(range) = Dated(ConfirmedRows, PaidOn, range)
         /\ Reports!Cohort(range) = Dated(OrderRows, ReceivedOn, range)
<1>1. Reports!Confirmed(range) = Dated(ConfirmedRows, PaidOn, range)
  BY DEF Reports!Confirmed, Dated, ConfirmedRows, PaidOn
<1>2. Reports!Cohort(range) = Dated(OrderRows, ReceivedOn, range)
  BY DEF Reports!Cohort, Dated, OrderRows, ReceivedOn
<1> QED BY <1>1, <1>2

LEMMA IncomeByDay ==
  ASSUME NEW range, IsFiniteSet(ConfirmedRows), ConfirmedRows \subseteq Payments
  PROVE  TableOf(Reports!Confirmed(range), DayOf(ConfirmedRows, PaidOn), AmountPaid,
                 Reports!income_daily(range))
<1> DEFINE S == Reports!Confirmed(range)
           key == DayOf(ConfirmedRows, PaidOn)
           t == Reports!income_daily(range)
<1>1. IsFiniteSet(S) /\ S \subseteq ConfirmedRows
  BY RangeRows, FS_Subset DEF Dated
<1>2. \A p \in S : /\ key[p] = Reports!Day(payment[p].confirmed_at)
                   /\ AmountPaid[p] = payment[p].amount
  BY <1>1 DEF DayOf, PaidOn, AmountPaid
<1> DEFINE on(k) == {p \in S : Reports!Day(payment[p].confirmed_at) = k}
<1>3. t = [k \in {Reports!Day(payment[p].confirmed_at) : p \in S} |->
             [count |-> Reports!Cardinality(on(k)),
              amount |-> Reports!SumFunction([p \in on(k) |-> payment[p].amount])]]
  BY DEF Reports!income_daily, Reports!Received
<1> HIDE DEF S, key, t
<1>4. \A k : on(k) = Group(S, key, k)
  BY <1>2 DEF Group
<1>5. DOMAIN t = {key[p] : p \in S}
  BY <1>2, <1>3
<1>6. ASSUME NEW k \in DOMAIN t
      PROVE  /\ t[k].count = Cardinality(Group(S, key, k))
             /\ t[k].amount = SumFunctionOnSet(AmountPaid, Group(S, key, k))
  <2>1. IsFiniteSet(on(k)) /\ \A p \in on(k) : payment[p].amount = AmountPaid[p]
    BY <1>1, <1>2, FS_Subset
  <2>2. /\ t[k].count = Reports!Cardinality(on(k))
        /\ t[k].amount = Reports!SumFunction([p \in on(k) |-> payment[p].amount])
    BY <1>3
  <2> HIDE DEF on
  <2>3. Reports!SumFunction([p \in on(k) |-> payment[p].amount]) = SumFunctionOnSet(AmountPaid, on(k))
    BY <2>1, RowsSum
  <2> QED BY <1>4, <2>2, <2>3, ReportsCount
<1> QED BY <1>5, <1>6 DEF TableOf, S, key, t

LEMMA IncomeByMethod ==
  ASSUME NEW range, IsFiniteSet(ConfirmedRows), ConfirmedRows \subseteq Payments
  PROVE  TableOf(Reports!Confirmed(range), PaidBy, AmountPaid,
                 Reports!income_methods(range))
<1> DEFINE S == Reports!Confirmed(range)
           key == PaidBy
           t == Reports!income_methods(range)
<1>1. IsFiniteSet(S) /\ S \subseteq ConfirmedRows
  BY RangeRows, FS_Subset DEF Dated
<1>2. \A p \in S : /\ key[p] = payment[p].method
                   /\ AmountPaid[p] = payment[p].amount
  BY <1>1 DEF PaidBy, AmountPaid
<1> DEFINE on(k) == {p \in S : payment[p].method = k}
<1>3. t = [k \in {payment[p].method : p \in S} |->
             [count |-> Reports!Cardinality(on(k)),
              amount |-> Reports!SumFunction([p \in on(k) |-> payment[p].amount])]]
  BY DEF Reports!income_methods, Reports!Received
<1> HIDE DEF S, key, t
<1>4. \A k : on(k) = Group(S, key, k)
  BY <1>2 DEF Group
<1>5. DOMAIN t = {key[p] : p \in S}
  BY <1>2, <1>3
<1>6. ASSUME NEW k \in DOMAIN t
      PROVE  /\ t[k].count = Cardinality(Group(S, key, k))
             /\ t[k].amount = SumFunctionOnSet(AmountPaid, Group(S, key, k))
  <2>1. IsFiniteSet(on(k)) /\ \A p \in on(k) : payment[p].amount = AmountPaid[p]
    BY <1>1, <1>2, FS_Subset
  <2>2. /\ t[k].count = Reports!Cardinality(on(k))
        /\ t[k].amount = Reports!SumFunction([p \in on(k) |-> payment[p].amount])
    BY <1>3
  <2> HIDE DEF on
  <2>3. Reports!SumFunction([p \in on(k) |-> payment[p].amount]) = SumFunctionOnSet(AmountPaid, on(k))
    BY <2>1, RowsSum
  <2> QED BY <1>4, <2>2, <2>3, ReportsCount
<1> QED BY <1>5, <1>6 DEF TableOf, S, key, t

LEMMA ExpensesByDay ==
  ASSUME NEW range, IsFiniteSet(SpentRows), SpentRows \subseteq Expenses
  PROVE  TableOf(Dated(SpentRows, SpentOn, range), DayOf(SpentRows, SpentOn), AmountSpent,
                 Reports!expense_daily(range))
<1> DEFINE S == Dated(SpentRows, SpentOn, range)
           key == DayOf(SpentRows, SpentOn)
           t == Reports!expense_daily(range)
<1>1. /\ S = {e \in Expenses : spending[e] # Reports!NoExpense
                               /\ Reports!Within(spending[e].expense_at, range)}
      /\ IsFiniteSet(S) /\ S \subseteq SpentRows
  BY FS_Subset DEF Dated, SpentRows, SpentOn
<1>2. \A e \in S : /\ key[e] = Reports!Day(spending[e].expense_at)
                   /\ AmountSpent[e] = spending[e].amount
  BY <1>1 DEF DayOf, SpentOn, AmountSpent
<1> DEFINE on(k) == {e \in S : Reports!Day(spending[e].expense_at) = k}
<1> HIDE DEF S, key
<1>3. t = [k \in {Reports!Day(spending[e].expense_at) : e \in S} |->
             [count |-> Reports!Cardinality(on(k)),
              amount |-> Reports!SumFunction([e \in on(k) |-> spending[e].amount])]]
  BY <1>1 DEF Reports!expense_daily
<1> HIDE DEF t
<1>4. \A k : on(k) = Group(S, key, k)
  BY <1>2 DEF Group
<1>5. DOMAIN t = {key[e] : e \in S}
  BY <1>2, <1>3
<1>6. ASSUME NEW k \in DOMAIN t
      PROVE  /\ t[k].count = Cardinality(Group(S, key, k))
             /\ t[k].amount = SumFunctionOnSet(AmountSpent, Group(S, key, k))
  <2>1. IsFiniteSet(on(k)) /\ \A e \in on(k) : spending[e].amount = AmountSpent[e]
    BY <1>1, <1>2, FS_Subset
  <2>2. /\ t[k].count = Reports!Cardinality(on(k))
        /\ t[k].amount = Reports!SumFunction([e \in on(k) |-> spending[e].amount])
    BY <1>3
  <2> HIDE DEF on
  <2>3. Reports!SumFunction([e \in on(k) |-> spending[e].amount]) = SumFunctionOnSet(AmountSpent, on(k))
    BY <2>1, RowsSum
  <2> QED BY <1>4, <2>2, <2>3, ReportsCount
<1> QED BY <1>5, <1>6 DEF TableOf, S, key, t

LEMMA CancellationsByDay ==
  ASSUME NEW range, IsFiniteSet(CancelledRows), CancelledRows \subseteq Orders
  PROVE  TableOf(Dated(CancelledRows, CancelledOn, range), DayOf(CancelledRows, CancelledOn), Total,
                 Reports!cancellation_daily(range))
<1> DEFINE S == Dated(CancelledRows, CancelledOn, range)
           key == DayOf(CancelledRows, CancelledOn)
           t == Reports!cancellation_daily(range)
<1>1. /\ S = {o \in Orders : order[o].status = "CANCELLED" /\ Reports!Within(order[o].cancelled_at, range)}
      /\ IsFiniteSet(S) /\ S \subseteq CancelledRows
  BY FS_Subset DEF Dated, CancelledRows, CancelledOn
<1>2. \A o \in S : key[o] = Reports!Day(order[o].cancelled_at)
  BY <1>1 DEF DayOf, CancelledOn
<1> DEFINE on(k) == {o \in S : Reports!Day(order[o].cancelled_at) = k}
<1> HIDE DEF S, key
<1>3. t = [k \in {Reports!Day(order[o].cancelled_at) : o \in S} |->
             [count |-> Reports!Cardinality(on(k)),
              amount |-> Reports!SumFunction([o \in on(k) |-> Total[o]])]]
  BY <1>1 DEF Reports!cancellation_daily
<1> HIDE DEF t
<1>4. \A k : on(k) = Group(S, key, k)
  BY <1>2 DEF Group
<1>5. DOMAIN t = {key[o] : o \in S}
  BY <1>2, <1>3
<1>6. ASSUME NEW k \in DOMAIN t
      PROVE  /\ t[k].count = Cardinality(Group(S, key, k))
             /\ t[k].amount = SumFunctionOnSet(Total, Group(S, key, k))
  <2>1. IsFiniteSet(on(k))
    BY <1>1, FS_Subset
  <2>2. /\ t[k].count = Reports!Cardinality(on(k))
        /\ t[k].amount = Reports!SumFunction([o \in on(k) |-> Total[o]])
    BY <1>3
  <2> HIDE DEF on
  <2>3. Reports!SumFunction([o \in on(k) |-> Total[o]]) = SumFunctionOnSet(Total, on(k))
    BY <2>1, RowsSum
  <2> QED BY <1>4, <2>2, <2>3, ReportsCount
<1> QED BY <1>5, <1>6 DEF TableOf, S, key, t

\* A column of a table of records.
Column(C, name) == [c \in C |-> c[name]]
CancelledOf(C) == {c \in C : c.status = "CANCELLED"}

\* The worth of some rows of a table.
LEMMA WorthOf ==
  ASSUME NEW C, IsFiniteSet(C), NEW G \in SUBSET C
  PROVE  LET w == Reports!Worth(G)
             K == CancelledOf(G)
         IN  /\ w.count = Cardinality(G)
             /\ w.value = SumFunctionOnSet(Column(C, "value"), G)
             /\ w.collected = SumFunctionOnSet(Column(C, "collected"), G)
             /\ w.outstanding = SumFunctionOnSet(Column(C, "outstanding"), G)
             /\ w.cancelled = Cardinality(K)
             /\ w.cancelledValue = SumFunctionOnSet(Column(C, "value"), K)
<1> DEFINE K == CancelledOf(G)
           w == Reports!Worth(G)
<1>1. IsFiniteSet(G) /\ IsFiniteSet(K) /\ K \subseteq G
  BY FS_Subset DEF CancelledOf
<1>2. /\ w.count = Reports!Cardinality(G)
      /\ w.value = Reports!SumFunction([c \in G |-> c.value])
      /\ w.collected = Reports!SumFunction([c \in G |-> c.collected])
      /\ w.outstanding = Reports!SumFunction([c \in G |-> c.outstanding])
      /\ w.cancelled = Reports!Cardinality(K)
      /\ w.cancelledValue = Reports!SumFunction([c \in K |-> c.value])
  BY DEF Reports!Worth, CancelledOf
<1> HIDE DEF K, w
<1>3. \A c \in C : /\ Column(C, "value")[c] = c.value
                   /\ Column(C, "collected")[c] = c.collected
                   /\ Column(C, "outstanding")[c] = c.outstanding
  BY DEF Column
<1>4. /\ Reports!SumFunction([c \in G |-> c.value]) = SumFunctionOnSet(Column(C, "value"), G)
      /\ Reports!SumFunction([c \in G |-> c.collected]) = SumFunctionOnSet(Column(C, "collected"), G)
      /\ Reports!SumFunction([c \in G |-> c.outstanding]) = SumFunctionOnSet(Column(C, "outstanding"), G)
  BY <1>1, <1>3, RowsSum
<1>5. Reports!SumFunction([c \in K |-> c.value]) = SumFunctionOnSet(Column(C, "value"), K)
  BY <1>1, <1>3, RowsSum
<1> QED BY <1>2, <1>4, <1>5, ReportsCount DEF w, K

\* What the days of the orders add up to is the worth of the whole table.
LEMMA OrdersAddUp ==
  ASSUME NEW range, IsFiniteSet(Reports!order_cohort(range)),
         \A c \in Reports!order_cohort(range) :
           c.value \in Int /\ c.collected \in Int /\ c.outstanding \in Int
  PROVE  LET o == Reports!orders(range)
             C == Reports!order_cohort(range)
             K == CancelledOf(C)
         IN  /\ o.count = Cardinality(C)
             /\ o.value = SumFunctionOnSet(Column(C, "value"), C)
             /\ o.collected = SumFunctionOnSet(Column(C, "collected"), C)
             /\ o.outstanding = SumFunctionOnSet(Column(C, "outstanding"), C)
             /\ o.cancelled = Cardinality(K)
             /\ o.cancelledValue = SumFunctionOnSet(Column(C, "value"), K)
<1> DEFINE o == Reports!orders(range)
           C == Reports!order_cohort(range)
           K == CancelledOf(C)
           t == Reports!orders_daily(range)
           D == DOMAIN t
           key == Column(C, "report_date")
           on(d) == {c \in C : c.report_date = d}
           of(name) == [d \in D |-> t[d][name]]
<1>1. \A c \in C : key[c] = c.report_date
  BY DEF Column
<1>2. D = {c.report_date : c \in C} /\ \A d \in D : t[d] = Reports!Worth(on(d))
  BY DEF Reports!orders_daily
<1>3. /\ o.count = Reports!SumFunction(of("count"))
      /\ o.value = Reports!SumFunction(of("value"))
      /\ o.collected = Reports!SumFunction(of("collected"))
      /\ o.outstanding = Reports!SumFunction(of("outstanding"))
      /\ o.cancelled = Reports!SumFunction(of("cancelled"))
      /\ o.cancelledValue = Reports!SumFunction(of("cancelledValue"))
  BY DEF Reports!orders, Reports!AddedUp
<1>4. /\ \A c \in C : /\ Column(C, "value")[c] \in Int
                      /\ Column(C, "collected")[c] \in Int
                      /\ Column(C, "outstanding")[c] \in Int
      /\ IsFiniteSet(C) /\ K \subseteq C /\ IsFiniteSet(K)
  BY FS_Subset DEF Column, CancelledOf
<1>5. \A name : DOMAIN of(name) = D /\ \A d \in D : of(name)[d] = t[d][name]
  OBVIOUS
<1>6. D = {key[c] : c \in C} /\ \A d : on(d) = Group(C, key, d)
  BY <1>1, <1>2 DEF Group
<1>7. \A d : CancelledOf(on(d)) = Group(K, key, d)
  BY <1>1 DEF Group, CancelledOf
<1> HIDE DEF o, C, K, t, D, key, on, of
<1>8. IsFiniteSet(D) /\ (\A c \in C : key[c] \in D) /\ \A c \in K : key[c] \in D
  BY <1>4, <1>6, KeysFinite
<1>9. ASSUME NEW d \in D
      PROVE  /\ of("count")[d] = Cardinality(Group(C, key, d))
             /\ of("value")[d] = SumFunctionOnSet(Column(C, "value"), Group(C, key, d))
             /\ of("collected")[d] = SumFunctionOnSet(Column(C, "collected"), Group(C, key, d))
             /\ of("outstanding")[d] = SumFunctionOnSet(Column(C, "outstanding"), Group(C, key, d))
             /\ of("cancelled")[d] = Cardinality(Group(K, key, d))
             /\ of("cancelledValue")[d] = SumFunctionOnSet(Column(C, "value"), Group(K, key, d))
  <2>1. Group(C, key, d) \in SUBSET C
    BY DEF Group
  <2>2. on(d) \in SUBSET C
    BY <1>6, <2>1
  <2>3. LET w == t[d] IN
          /\ w.count = Cardinality(on(d))
          /\ w.value = SumFunctionOnSet(Column(C, "value"), on(d))
          /\ w.collected = SumFunctionOnSet(Column(C, "collected"), on(d))
          /\ w.outstanding = SumFunctionOnSet(Column(C, "outstanding"), on(d))
          /\ w.cancelled = Cardinality(CancelledOf(on(d)))
          /\ w.cancelledValue = SumFunctionOnSet(Column(C, "value"), CancelledOf(on(d)))
    BY <1>2, <1>4, <2>2, WorthOf
  <2> QED BY <1>5, <1>6, <1>7, <2>3
<1>10. ASSUME NEW name, NEW S, S \subseteq C, \A d \in D : of(name)[d] = Cardinality(Group(S, key, d))
       PROVE  SumFunctionOnSet(of(name), D) = Cardinality(S)
  <2> DEFINE h == of(name)
  <2>1. /\ \A d \in D : h[d] = Cardinality(Group(S, key, d))
        /\ IsFiniteSet(S) /\ \A c \in S : key[c] \in D
    BY <1>4, <1>8, <1>10, FS_Subset
  <2> HIDE DEF h
  <2>2. SumFunctionOnSet(h, D) = Cardinality(S)
    BY <1>8, <2>1, CountOfGroups
  <2> QED BY <2>2 DEF h
<1>11. ASSUME NEW name, NEW S, S \subseteq C, NEW f, \A c \in C : f[c] \in Int,
              \A d \in D : of(name)[d] = SumFunctionOnSet(f, Group(S, key, d))
       PROVE  SumFunctionOnSet(of(name), D) = SumFunctionOnSet(f, S)
  <2> DEFINE h == of(name)
  <2>1. /\ \A d \in D : h[d] = SumFunctionOnSet(f, Group(S, key, d))
        /\ IsFiniteSet(S) /\ \A c \in S : f[c] \in Int /\ key[c] \in D
    BY <1>4, <1>8, <1>11, FS_Subset
  <2>2. IsFiniteSet(D)
    BY <1>8
  <2> HIDE DEF h
  <2>3. SumFunctionOnSet(f, S) = SumFunctionOnSet(h, D)
    BY <2>1, <2>2, SumOfGroups
  <2> QED BY <2>3 DEF h
<1>12. /\ SumFunctionOnSet(of("count"), D) = Cardinality(C)
       /\ SumFunctionOnSet(of("value"), D) = SumFunctionOnSet(Column(C, "value"), C)
       /\ SumFunctionOnSet(of("collected"), D) = SumFunctionOnSet(Column(C, "collected"), C)
       /\ SumFunctionOnSet(of("outstanding"), D) = SumFunctionOnSet(Column(C, "outstanding"), C)
       /\ SumFunctionOnSet(of("cancelled"), D) = Cardinality(K)
       /\ SumFunctionOnSet(of("cancelledValue"), D) = SumFunctionOnSet(Column(C, "value"), K)
  <2>1. C \subseteq C /\ K \subseteq C
    BY <1>4
  <2>2. /\ \A c \in C : Column(C, "value")[c] \in Int
        /\ \A c \in C : Column(C, "collected")[c] \in Int
        /\ \A c \in C : Column(C, "outstanding")[c] \in Int
    BY <1>4
  <2>3. /\ SumFunctionOnSet(of("count"), D) = Cardinality(C)
        /\ SumFunctionOnSet(of("cancelled"), D) = Cardinality(K)
    BY <1>9, <1>10, <2>1
  <2>4. SumFunctionOnSet(of("value"), D) = SumFunctionOnSet(Column(C, "value"), C)
    BY <1>9, <1>11, <2>1, <2>2
  <2>5. SumFunctionOnSet(of("collected"), D) = SumFunctionOnSet(Column(C, "collected"), C)
    BY <1>9, <1>11, <2>1, <2>2
  <2>6. SumFunctionOnSet(of("outstanding"), D) = SumFunctionOnSet(Column(C, "outstanding"), C)
    BY <1>9, <1>11, <2>1, <2>2
  <2>7. SumFunctionOnSet(of("cancelledValue"), D) = SumFunctionOnSet(Column(C, "value"), K)
    BY <1>9, <1>11, <2>1, <2>2
  <2> QED BY <2>3, <2>4, <2>5, <2>6, <2>7
<1>13. \A name : Reports!SumFunction(of(name)) = SumFunctionOnSet(of(name), D)
  BY <1>5, ReportsSum
<1> QED BY <1>3, <1>12, <1>13 DEF o, C, K

\* The row of an order in the reports.
CohortRow ==
  [o \in Orders |->
     [id |-> o, customer |-> Customer[o], status |-> order[o].status, value |-> Total[o],
      report_date |-> Reports!Day(order[o].received_at), collected |-> Reports!payments_by_order(o),
      outstanding |-> Reports!Outstanding(o)]]

LEMMA CohortRows ==
  ASSUME ReportTypes, ReportSound, NEW range
  PROVE  /\ Reports!Cohort(range) \subseteq OrderRows /\ IsFiniteSet(Reports!Cohort(range))
         /\ Reports!order_cohort(range) = Renamed(Reports!Cohort(range), CohortRow)
         /\ \A o, u \in Reports!Cohort(range) : CohortRow[o] = CohortRow[u] => o = u
         /\ IsFiniteSet(Reports!order_cohort(range))
<1> DEFINE S == Reports!Cohort(range)
<1>1. S \subseteq OrderRows
  BY RangeRows DEF Dated
<1>2. IsFiniteSet(S) /\ S \subseteq Orders
  BY <1>1, ReportRows, FS_Subset
<1>3. Reports!order_cohort(range) = Renamed(S, CohortRow)
  BY <1>2 DEF Reports!order_cohort, CohortRow, Renamed
<1>4. \A o \in S : CohortRow[o].id = o
  BY <1>2 DEF CohortRow
<1> HIDE DEF S
<1>5. IsFiniteSet(Renamed(S, CohortRow))
  BY <1>2, KeysFinite DEF Renamed
<1> QED BY <1>1, <1>2, <1>3, <1>4, <1>5 DEF S

\* What an order is worth is collected, asked for, or was cancelled.
LEMMA OrderWorth ==
  ASSUME ReportTypes, ReportSound, NEW o \in OrderRows
  PROVE  /\ CohortRow[o].status = order[o].status /\ CohortRow[o].value = Total[o]
         /\ CohortRow[o].collected = Reports!payments_by_order(o)
         /\ CohortRow[o].outstanding = Reports!Outstanding(o)
         /\ CohortRow[o].value \in Nat /\ CohortRow[o].collected \in Nat /\ CohortRow[o].outstanding \in Nat
         /\ CohortRow[o].status = "CANCELLED" => CohortRow[o].collected = 0 /\ CohortRow[o].outstanding = 0
         /\ CohortRow[o].status # "CANCELLED" => CohortRow[o].value = CohortRow[o].collected + CohortRow[o].outstanding
<1> DEFINE paid == Reports!payments_by_order(o)
           e == CohortRow[o]
<1>1. o \in Orders /\ Total[o] \in Nat
  BY ReportRows
<1>2. paid \in 0 .. Total[o] /\ (order[o].status = "CANCELLED" => paid = 0)
  BY <1>1 DEF ReportSound, MoneySound
<1>3. Reports!Outstanding(o) =
        IF order[o].status # "CANCELLED" /\ Total[o] > paid THEN Total[o] - paid ELSE 0
  BY DEF Reports!Outstanding
<1>4. /\ e.status = order[o].status /\ e.value = Total[o]
      /\ e.collected = paid /\ e.outstanding = Reports!Outstanding(o)
  BY <1>1 DEF CohortRow
<1> HIDE DEF paid, e
<1>5. Reports!Outstanding(o) \in Nat
  BY <1>1, <1>2, <1>3
<1> QED BY <1>1, <1>2, <1>3, <1>4, <1>5 DEF paid, e

\* Sums over the rows are sums over the orders.
LEMMA RowsByOrder ==
  ASSUME ReportTypes, ReportSound, NEW range, NEW S, S \subseteq Reports!Cohort(range),
         NEW name, NEW f, \A o \in S : f[o] \in Int /\ CohortRow[o][name] = f[o]
  PROVE  LET T == Renamed(S, CohortRow)
         IN  /\ Cardinality(T) = Cardinality(S)
             /\ SumFunctionOnSet(Column(Reports!order_cohort(range), name), T) = SumFunctionOnSet(f, S)
<1> DEFINE h == Column(Reports!order_cohort(range), name)
           T == Renamed(S, CohortRow)
<1>1. \A o \in S : h[CohortRow[o]] = f[o]
  BY CohortRows DEF Column, Renamed
<1>2. IsFiniteSet(S) /\ \A o, u \in S : CohortRow[o] = CohortRow[u] => o = u
  BY CohortRows, FS_Subset
<1> HIDE DEF h, T
<1>3. Cardinality(T) = Cardinality(S) /\ SumFunctionOnSet(h, T) = SumFunctionOnSet(f, S)
  BY <1>1, <1>2, SumRenamed DEF T
<1> QED BY <1>3 DEF h, T

Totals(S, f) == [count |-> Cardinality(S), amount |-> SumFunctionOnSet(f, S)]

\* Each summary is that of the rows of its range.
LEMMA Summaries ==
  ASSUME ReportTypes, ReportSound, NEW range
  PROVE  /\ Reports!income(range) = Totals(Dated(ConfirmedRows, PaidOn, range), AmountPaid)
         /\ Reports!Summary(Reports!income_methods(range)) = Reports!income(range)
         /\ Reports!expenses(range) = Totals(Dated(SpentRows, SpentOn, range), AmountSpent)
         /\ Reports!cancellations(range) = Totals(Dated(CancelledRows, CancelledOn, range), Total)
<1> DEFINE P == Dated(ConfirmedRows, PaidOn, range)
           E == Dated(SpentRows, SpentOn, range)
           K == Dated(CancelledRows, CancelledOn, range)
<1>1. /\ IsFiniteSet(ConfirmedRows) /\ ConfirmedRows \subseteq Payments
      /\ IsFiniteSet(SpentRows) /\ SpentRows \subseteq Expenses
      /\ IsFiniteSet(CancelledRows) /\ CancelledRows \subseteq Orders
  BY ReportRows
<1>2. /\ IsFiniteSet(P) /\ P \subseteq ConfirmedRows
      /\ IsFiniteSet(E) /\ E \subseteq SpentRows
      /\ IsFiniteSet(K) /\ K \subseteq CancelledRows
  BY <1>1, FS_Subset DEF Dated
<1>3. /\ \A p \in P : AmountPaid[p] \in Int
      /\ \A e \in E : AmountSpent[e] \in Int
      /\ \A o \in K : Total[o] \in Int
  BY <1>2, ReportRows
<1>4. Reports!Confirmed(range) = P
  BY RangeRows
<1> HIDE DEF P, E, K
<1>5. Reports!Summary(Reports!income_daily(range)) = Totals(P, AmountPaid)
  BY <1>1, <1>2, <1>3, <1>4, IncomeByDay, TableAddsUp DEF Totals
<1>6. Reports!Summary(Reports!income_methods(range)) = Totals(P, AmountPaid)
  BY <1>1, <1>2, <1>3, <1>4, IncomeByMethod, TableAddsUp DEF Totals
<1>7. Reports!Summary(Reports!expense_daily(range)) = Totals(E, AmountSpent)
  <2>1. TableOf(E, DayOf(SpentRows, SpentOn), AmountSpent, Reports!expense_daily(range))
    BY <1>1, ExpensesByDay DEF E
  <2> QED BY <1>2, <1>3, <2>1, TableAddsUp DEF Totals
<1>8. Reports!Summary(Reports!cancellation_daily(range)) = Totals(K, Total)
  <2>1. TableOf(K, DayOf(CancelledRows, CancelledOn), Total, Reports!cancellation_daily(range))
    BY <1>1, CancellationsByDay DEF K
  <2> QED BY <1>2, <1>3, <2>1, TableAddsUp DEF Totals
<1> QED BY <1>5, <1>6, <1>7, <1>8 DEF Reports!income, Reports!expenses, Reports!cancellations, P, E, K

\* Rows that have a time and an amount.
Datable(U, at, f) == IsFiniteSet(U) /\ \A x \in U : at[x] \in Int /\ f[x] \in Int

\* A summary of a range is the sum of the summaries of its days.
LEMMA SummaryByDay ==
  ASSUME NEW U, NEW at, NEW f, Datable(U, at, f),
         NEW a \in Int, NEW b \in Int, NEW sums, DOMAIN sums = a .. b,
         \A d \in a .. b : sums[d] = Totals(Dated(U, at, <<d, d>>), f).amount
  PROVE  Totals(Dated(U, at, <<a, b>>), f).amount = Reports!SumFunction(sums)
<1>1. \A d \in a .. b : sums[d] = SumFunctionOnSet(f, Dated(U, at, <<d, d>>))
  BY DEF Totals
<1>2. SumFunctionOnSet(f, Dated(U, at, <<a, b>>)) = SumFunctionOnSet(sums, a .. b)
  BY <1>1, DaysAddUp DEF Datable
<1>3. Reports!SumFunction(sums) = SumFunctionOnSet(sums, a .. b)
  BY ReportsSum
<1> QED BY <1>2, <1>3 DEF Totals

LEMMA DaysBalance ==
  ASSUME ReportTypes, ReportSound, NEW a \in Int, NEW b \in Int
  PROVE  LET range == <<a, b>>
             days == Reports!calendar(range)
         IN  /\ Reports!income(range).amount
                  = Reports!SumFunction([d \in days |-> Reports!income(<<d, d>>).amount])
             /\ Reports!expenses(range).amount
                  = Reports!SumFunction([d \in days |-> Reports!expenses(<<d, d>>).amount])
             /\ Reports!cancellations(range).amount
                  = Reports!SumFunction([d \in days |-> Reports!cancellations(<<d, d>>).amount])
<1> DEFINE range == <<a, b>>
           days == Reports!calendar(range)
           i == [d \in days |-> Reports!income(<<d, d>>).amount]
           e == [d \in days |-> Reports!expenses(<<d, d>>).amount]
           c == [d \in days |-> Reports!cancellations(<<d, d>>).amount]
<1>1. days = a .. b
  BY DEF Reports!calendar
<1>2. /\ \A d \in days : i[d] = Totals(Dated(ConfirmedRows, PaidOn, <<d, d>>), AmountPaid).amount
      /\ \A d \in days : e[d] = Totals(Dated(SpentRows, SpentOn, <<d, d>>), AmountSpent).amount
      /\ \A d \in days : c[d] = Totals(Dated(CancelledRows, CancelledOn, <<d, d>>), Total).amount
  BY Summaries
<1>3. DOMAIN i = a .. b /\ DOMAIN e = a .. b /\ DOMAIN c = a .. b
  BY <1>1
<1> HIDE DEF days, i, e, c
<1>4. /\ Datable(ConfirmedRows, PaidOn, AmountPaid)
      /\ Datable(SpentRows, SpentOn, AmountSpent)
      /\ Datable(CancelledRows, CancelledOn, Total)
  BY ReportRows, ReportAssumption DEF Datable
<1>5. Totals(Dated(ConfirmedRows, PaidOn, range), AmountPaid).amount = Reports!SumFunction(i)
  <2>1. DOMAIN i = a .. b /\ \A d \in a .. b : i[d] = Totals(Dated(ConfirmedRows, PaidOn, <<d, d>>), AmountPaid).amount
    BY <1>1, <1>2, <1>3
  <2> QED BY <1>4, <2>1, SummaryByDay
<1>6. Totals(Dated(SpentRows, SpentOn, range), AmountSpent).amount = Reports!SumFunction(e)
  <2>1. DOMAIN e = a .. b /\ \A d \in a .. b : e[d] = Totals(Dated(SpentRows, SpentOn, <<d, d>>), AmountSpent).amount
    BY <1>1, <1>2, <1>3
  <2> QED BY <1>4, <2>1, SummaryByDay
<1>7. Totals(Dated(CancelledRows, CancelledOn, range), Total).amount = Reports!SumFunction(c)
  <2>1. DOMAIN c = a .. b /\ \A d \in a .. b : c[d] = Totals(Dated(CancelledRows, CancelledOn, <<d, d>>), Total).amount
    BY <1>1, <1>2, <1>3
  <2> QED BY <1>4, <2>1, SummaryByDay
<1> QED BY <1>5, <1>6, <1>7, Summaries DEF days, i, e, c

\* The days of the calendar, those on which nothing fell included.
LEMMA CalendarAddsUp ==
  ASSUME NEW U, NEW at, NEW f, Datable(U, at, f), NEW a \in Int, NEW b \in Int,
         NEW t, TableOf(Dated(U, at, <<a, b>>), DayOf(U, at), f, t),
         NEW sums, \A d \in a .. b : sums[d] = Reports!AmountOn(t, d)
  PROVE  /\ \A d \in a .. b : sums[d] \in Int
         /\ SumFunctionOnSet(sums, a .. b) = Totals(Dated(U, at, <<a, b>>), f).amount
<1> DEFINE S == Dated(U, at, <<a, b>>)
           key == DayOf(U, at)
           D == a .. b
<1>1. IsFiniteSet(S) /\ S \subseteq U /\ \A x \in S : key[x] \in D
  BY DatedByDay DEF Datable
<1>2. \A x \in S : f[x] \in Int /\ key[x] \in D
  BY <1>1 DEF Datable
<1>3. \A d \in D : sums[d] = SumFunctionOnSet(f, Group(S, key, d))
  BY TableAt
<1>4. IsFiniteSet(D)
  BY FS_Interval
<1> HIDE DEF S, key, D
<1>5. ASSUME NEW d \in D PROVE sums[d] \in Int
  <2>1. IsFiniteSet(Group(S, key, d)) /\ \A x \in Group(S, key, d) : f[x] \in Int
    BY <1>1, <1>2, FS_Subset DEF Group
  <2> QED BY <1>3, <2>1, SumIsInt
<1>6. SumFunctionOnSet(f, S) = SumFunctionOnSet(sums, D)
  BY <1>1, <1>2, <1>3, <1>4, SumOfGroups
<1> QED BY <1>5, <1>6 DEF S, D, Totals

LEMMA ProfitBalances ==
  ASSUME ReportTypes, ReportSound, NEW a \in Int, NEW b \in Int
  PROVE  Reports!profit_loss(<<a, b>>) = Reports!income(<<a, b>>).amount - Reports!expenses(<<a, b>>).amount
<1> DEFINE range == <<a, b>>
           D == a .. b
           i == Reports!income_daily(range)
           e == Reports!expense_daily(range)
           gained == [d \in D |-> Reports!AmountOn(i, d)]
           spent == [d \in D |-> Reports!AmountOn(e, d)]
           net == [d \in D |-> Reports!AmountOn(i, d) - Reports!AmountOn(e, d)]
<1>1. Reports!profit_loss(range) = SumFunctionOnSet(net, D)
  <2>1. Reports!profit_loss(range) = Reports!SumFunction(net)
    BY DEF Reports!profit_loss, Reports!calendar
  <2> QED BY <2>1, ReportsSum
<1>2. /\ Datable(ConfirmedRows, PaidOn, AmountPaid)
      /\ Datable(SpentRows, SpentOn, AmountSpent)
  BY ReportRows DEF Datable
<1>3. /\ TableOf(Dated(ConfirmedRows, PaidOn, range), DayOf(ConfirmedRows, PaidOn), AmountPaid, i)
      /\ TableOf(Dated(SpentRows, SpentOn, range), DayOf(SpentRows, SpentOn), AmountSpent, e)
  BY ReportRows, RangeRows, IncomeByDay, ExpensesByDay
<1>4. \A d \in D : /\ gained[d] = Reports!AmountOn(i, d)
                   /\ spent[d] = Reports!AmountOn(e, d)
                   /\ net[d] = gained[d] - spent[d]
  OBVIOUS
<1> HIDE DEF i, e, gained, spent, net
<1>5. /\ \A d \in D : gained[d] \in Int
      /\ SumFunctionOnSet(gained, D) = Totals(Dated(ConfirmedRows, PaidOn, range), AmountPaid).amount
  BY <1>2, <1>3, <1>4, CalendarAddsUp
<1>6. /\ \A d \in D : spent[d] \in Int
      /\ SumFunctionOnSet(spent, D) = Totals(Dated(SpentRows, SpentOn, range), AmountSpent).amount
  BY <1>2, <1>3, <1>4, CalendarAddsUp
<1>7. IsFiniteSet(D)
  BY FS_Interval
<1> HIDE DEF D
<1>8. SumFunctionOnSet(gained, D) = SumFunctionOnSet(net, D) + SumFunctionOnSet(spent, D)
  <2>1. \A d \in D : net[d] \in Int /\ spent[d] \in Int /\ gained[d] = net[d] + spent[d]
    BY <1>4, <1>5, <1>6
  <2> QED BY <1>7, <2>1, SumOfTwo
<1>9. SumFunctionOnSet(net, D) \in Int /\ SumFunctionOnSet(spent, D) \in Int
  <2>1. (\A d \in D : net[d] \in Int) /\ \A d \in D : spent[d] \in Int
    BY <1>4, <1>5, <1>6
  <2> QED BY <1>7, <2>1, SumIsInt
<1>10. SumFunctionOnSet(net, D) = SumFunctionOnSet(gained, D) - SumFunctionOnSet(spent, D)
  BY <1>8, <1>9
<1> QED BY <1>1, <1>5, <1>6, <1>10, Summaries

\* Every row of the cohort is that of an order which is there.
LEMMA CohortColumns ==
  ASSUME ReportTypes, ReportSound, NEW range, NEW c \in Reports!order_cohort(range)
  PROVE  /\ c.value \in Int /\ c.collected \in Int /\ c.outstanding \in Int
         /\ c.status = "CANCELLED" => c.collected = 0 /\ c.outstanding = 0
         /\ c.status # "CANCELLED" => c.value = c.collected + c.outstanding
<1>1. PICK o \in OrderRows : c = CohortRow[o]
  BY CohortRows DEF Renamed
<1> QED BY <1>1, OrderWorth

\* What the orders of a range are worth was collected, is asked for, or was cancelled.
LEMMA OrdersBalance ==
  ASSUME ReportTypes, ReportSound, NEW range
  PROVE  LET o == Reports!orders(range)
         IN  o.value = o.collected + o.outstanding + o.cancelledValue
<1> DEFINE C == Reports!order_cohort(range)
           K == CancelledOf(C)
           o == Reports!orders(range)
           value == Column(C, "value")
           collected == Column(C, "collected")
           outstanding == Column(C, "outstanding")
           owed == [c \in C |-> IF c \in K THEN 0 ELSE value[c]]
           lost == [c \in C |-> IF c \in K THEN value[c] ELSE 0]
<1>1. /\ IsFiniteSet(C) /\ K \subseteq C /\ IsFiniteSet(K)
  BY CohortRows, FS_Subset DEF CancelledOf
<1>2. /\ o.value = SumFunctionOnSet(value, C) /\ o.collected = SumFunctionOnSet(collected, C)
      /\ o.outstanding = SumFunctionOnSet(outstanding, C)
      /\ o.cancelledValue = SumFunctionOnSet(value, K)
  BY <1>1, CohortColumns, OrdersAddUp
<1>3. \A c \in C : /\ value[c] = c.value /\ collected[c] = c.collected /\ outstanding[c] = c.outstanding
                   /\ c \in K <=> c.status = "CANCELLED"
  BY DEF Column, CancelledOf
<1>4. \A c \in C : /\ value[c] \in Int /\ collected[c] \in Int /\ outstanding[c] \in Int
                   /\ c \in K => collected[c] = 0 /\ outstanding[c] = 0
                   /\ c \notin K => value[c] = collected[c] + outstanding[c]
  BY <1>3, CohortColumns
<1>5. \A c \in C : /\ owed[c] = IF c \in K THEN 0 ELSE value[c]
                   /\ lost[c] = IF c \in K THEN value[c] ELSE 0
  OBVIOUS
<1> HIDE DEF C, K, o, value, collected, outstanding, owed, lost
<1>6. SumFunctionOnSet(owed, C) = SumFunctionOnSet(collected, C) + SumFunctionOnSet(outstanding, C)
  <2>1. \A c \in C : /\ collected[c] \in Int /\ outstanding[c] \in Int
                     /\ owed[c] = collected[c] + outstanding[c]
    BY <1>4, <1>5
  <2> QED BY <1>1, <2>1, SumOfTwo
<1>7. SumFunctionOnSet(value, C) = SumFunctionOnSet(owed, C) + SumFunctionOnSet(lost, C)
  <2>1. \A c \in C : owed[c] \in Int /\ lost[c] \in Int /\ value[c] = owed[c] + lost[c]
    BY <1>4, <1>5
  <2> QED BY <1>1, <2>1, SumOfTwo
<1>8. SumFunctionOnSet(lost, C) = SumFunctionOnSet(value, K)
  <2>1. (\A c \in C : lost[c] \in Int) /\ \A c \in C \ K : lost[c] = 0
    BY <1>4, <1>5
  <2>2. SumFunctionOnSet(lost, C) = SumFunctionOnSet(lost, K)
    BY <1>1, <2>1, SumOfPart
  <2>3. \A c \in K : lost[c] = value[c]
    BY <1>1, <1>5
  <2>4. SumFunctionOnSet(lost, K) = SumFunctionOnSet(value, K)
    BY <1>1, <2>3, SumOfSame
  <2> QED BY <2>2, <2>4
<1> QED BY <1>2, <1>6, <1>7, <1>8 DEF o

\* The customers of a range have its orders among them.
LEMMA CustomersBalance ==
  ASSUME ReportTypes, ReportSound, NEW range
  PROVE  LET ranked == Reports!customer_rank(range)
         IN  Reports!orders(range).count
               = Reports!SumFunction([c \in DOMAIN ranked |-> ranked[c].count])
<1> DEFINE C == Reports!order_cohort(range)
           ranked == Reports!customer_rank(range)
           D == DOMAIN ranked
           key == Column(C, "customer")
           counts == [c \in D |-> ranked[c].count]
           of(c) == {x \in C : x.customer = c}
<1>1. IsFiniteSet(C)
  BY CohortRows
<1>2. Reports!orders(range).count = Cardinality(C)
  BY <1>1, CohortColumns, OrdersAddUp
<1>3. \A x \in C : key[x] = x.customer
  BY DEF Column
<1>4. D = {x.customer : x \in C} /\ \A c \in D : ranked[c].count = Reports!Cardinality(of(c))
  BY DEF Reports!customer_rank
<1>5. D = {key[x] : x \in C} /\ \A c : of(c) = Group(C, key, c)
  BY <1>3, <1>4 DEF Group
<1> HIDE DEF C, D, ranked, key, of
<1>6. \A c \in D : counts[c] = Cardinality(Group(C, key, c))
  BY <1>4, <1>5, ReportsCount
<1>7. IsFiniteSet(D) /\ \A x \in C : key[x] \in D
  BY <1>1, <1>5, KeysFinite
<1>8. Reports!SumFunction(counts) = SumFunctionOnSet(counts, D)
  BY ReportsSum
<1> HIDE DEF counts
<1>9. SumFunctionOnSet(counts, D) = Cardinality(C)
  BY <1>1, <1>6, <1>7, CountOfGroups
<1> QED BY <1>2, <1>8, <1>9 DEF C, D, ranked, counts

\* All there was falls within all days.
LEMMA EverIsAll ==
  ASSUME NEW t \in 0 .. MaxClock
  PROVE  Reports!Within(t, Reports!Ever)
<1>1. DayLength \in Nat \ {0} /\ Offset \in Nat /\ MaxClock \in Nat
  BY ReportAssumption
<1> DEFINE d == Reports!Day(MaxClock)
<1>2. d \in Int /\ Reports!Within(MaxClock, <<d, d>>)
  <2>1. MaxClock \in Int
    BY <1>1
  <2>2. d \in Int
    BY <2>1, WithinItsDays
  <2>3. d \in d .. d
    BY <2>2
  <2> QED BY <2>1, <2>2, <2>3, WithinItsDays
<1>3. MaxClock < (d + 1) * DayLength - Offset
  BY <1>2 DEF Reports!Within, Reports!report_range
<1>4. Reports!Ever = <<0, d>>
  BY DEF Reports!Ever
<1> HIDE DEF d
<1>5. t >= 0 * DayLength - Offset
  BY <1>1
<1>6. (d + 1) * DayLength \in Int
  BY <1>1, <1>2
<1>7. t < (d + 1) * DayLength - Offset
  BY <1>1, <1>3, <1>6
<1> QED BY <1>4, <1>5, <1>7 DEF Reports!Within, Reports!report_range

\* What an order has been paid is its group of the payments.
LEMMA PaidIsGroup ==
  ASSUME ReportTypes, ReportSound, NEW o \in OrderRows
  PROVE  Reports!payments_by_order(o) = SumFunctionOnSet(AmountPaid, Group(ConfirmedRows, PaidFor, o))
<1> DEFINE P == Group(ConfirmedRows, PaidFor, o)
<1>1. P = {p \in Payments : payment[p].status = "CONFIRMED" /\ payment[p].order = o}
  BY DEF Group, ConfirmedRows, PaidFor
<1>2. IsFiniteSet(P) /\ P \subseteq Payments
  BY <1>1, ReportAssumption, FS_Subset
<1>3. \A p \in P : payment[p].amount = AmountPaid[p]
  BY <1>2 DEF AmountPaid
<1>4. Reports!payments_by_order(o) = Reports!SumFunction([p \in P |-> payment[p].amount])
  BY <1>1 DEF Reports!payments_by_order
<1> HIDE DEF P
<1>5. Reports!SumFunction([p \in P |-> payment[p].amount]) = SumFunctionOnSet(AmountPaid, P)
  BY <1>2, <1>3, RowsSum
<1> QED BY <1>4, <1>5 DEF P

LEMMA AllIsTold ==
  ASSUME ReportTypes, ReportSound
  PROVE  Reports!AllTold
<1> DEFINE Ever == Reports!Ever
           o == Reports!orders(Ever)
           C == Reports!order_cohort(Ever)
           K == CancelledOf(C)
           going == {x \in OrderRows : order[x].status # "CANCELLED"}
           paid == [x \in Orders |-> Reports!payments_by_order(x)]
           owed == [x \in Orders |-> Reports!Outstanding(x)]
<1>1. /\ Dated(ConfirmedRows, PaidOn, Ever) = ConfirmedRows
      /\ Dated(CancelledRows, CancelledOn, Ever) = CancelledRows
      /\ Dated(OrderRows, ReceivedOn, Ever) = OrderRows
  <2>1. \A p \in ConfirmedRows : Reports!Within(PaidOn[p], Ever)
    BY ReportRows, EverIsAll
  <2>2. \A x \in CancelledRows : Reports!Within(CancelledOn[x], Ever)
    BY ReportRows, EverIsAll
  <2>3. \A x \in OrderRows : Reports!Within(ReceivedOn[x], Ever)
    BY ReportRows, EverIsAll
  <2> QED BY <2>1, <2>2, <2>3 DEF Dated
<1>2. /\ Reports!Cohort(Ever) = OrderRows /\ C = Renamed(OrderRows, CohortRow)
      /\ IsFiniteSet(C) /\ IsFiniteSet(OrderRows) /\ OrderRows \subseteq Orders
      /\ CancelledRows \subseteq OrderRows /\ IsFiniteSet(CancelledRows)
  BY <1>1, RangeRows, CohortRows, ReportRows
<1>3. /\ o.collected = SumFunctionOnSet(Column(C, "collected"), C)
      /\ o.outstanding = SumFunctionOnSet(Column(C, "outstanding"), C)
      /\ o.cancelled = Cardinality(K) /\ o.cancelledValue = SumFunctionOnSet(Column(C, "value"), K)
  BY <1>2, CohortColumns, OrdersAddUp
<1>4. ASSUME NEW x \in OrderRows
      PROVE  /\ CohortRow[x].collected = paid[x] /\ paid[x] \in Int
             /\ CohortRow[x].outstanding = owed[x] /\ owed[x] \in Int
             /\ CohortRow[x].value = Total[x] /\ Total[x] \in Int
             /\ CohortRow[x].status = order[x].status
             /\ order[x].status = "CANCELLED" => owed[x] = 0
  BY <1>2, OrderWorth
<1>5. K = Renamed(CancelledRows, CohortRow)
  <2>1. \A x \in OrderRows : x \in CancelledRows <=> order[x].status = "CANCELLED"
    BY <1>2 DEF CancelledRows
  <2>2. \A x \in OrderRows : CohortRow[x].status = order[x].status
    BY <1>4
  <2>3. ASSUME NEW c \in K PROVE c \in Renamed(CancelledRows, CohortRow)
    <3>1. PICK x \in OrderRows : c = CohortRow[x]
      BY <1>2 DEF CancelledOf, Renamed
    <3>2. c.status = "CANCELLED"
      BY DEF CancelledOf
    <3> QED BY <2>1, <2>2, <3>1, <3>2 DEF Renamed
  <2>4. ASSUME NEW c \in Renamed(CancelledRows, CohortRow) PROVE c \in K
    <3>1. PICK x \in CancelledRows : c = CohortRow[x]
      BY DEF Renamed
    <3>2. x \in OrderRows
      BY <1>2
    <3>3. c \in C /\ c.status = "CANCELLED"
      BY <1>2, <2>1, <2>2, <3>1, <3>2 DEF Renamed
    <3> QED BY <3>3 DEF CancelledOf
  <2> QED BY <2>3, <2>4
<1>6. \A x \in going : Reports!receipt(x).outstanding = owed[x]
  <2> SUFFICES ASSUME NEW x \in going PROVE Reports!receipt(x).outstanding = owed[x]
    OBVIOUS
  <2>1. Reports!GetReceiptConfirmedPaymentTotal(x) = Reports!payments_by_order(x)
    BY DEF Reports!GetReceiptConfirmedPaymentTotal, Reports!payments_by_order
  <2>2. x \in Orders /\ paid[x] \in 0 .. Total[x] /\ Total[x] \in Nat
    BY <1>2, ReportRows DEF ReportSound, MoneySound
  <2>3. owed[x] = IF Total[x] > paid[x] THEN Total[x] - paid[x] ELSE 0
    BY <2>2 DEF Reports!Outstanding
  <2>4. Reports!receipt(x).outstanding = IF Total[x] - paid[x] < 0 THEN 0 ELSE Total[x] - paid[x]
    BY <2>1, <2>2 DEF Reports!receipt
  <2> HIDE DEF paid, owed
  <2> QED BY <2>2, <2>3, <2>4
<1>7. Reports!AllTold <=>
        /\ Reports!income(Ever).amount = o.collected
        /\ Reports!cancellations(Ever) = [count |-> o.cancelled, amount |-> o.cancelledValue]
        /\ o.outstanding = Reports!SumFunction([x \in going |-> Reports!receipt(x).outstanding])
  BY <1>2 DEF Reports!AllTold
<1> HIDE DEF Ever, o, C, K, paid, owed
<1>8. Reports!income(Ever).amount = o.collected
  <2>1. Reports!income(Ever).amount = SumFunctionOnSet(AmountPaid, ConfirmedRows)
    BY <1>1, Summaries DEF Totals, Ever
  <2>2. SumFunctionOnSet(Column(C, "collected"), C) = SumFunctionOnSet(paid, OrderRows)
    <3>1. \A x \in OrderRows : paid[x] \in Int /\ CohortRow[x]["collected"] = paid[x]
      BY <1>4
    <3>2. OrderRows \subseteq Reports!Cohort(Ever)
      BY <1>2
    <3> QED BY <1>2, <3>1, <3>2, RowsByOrder DEF C
  <2>3. \A x \in OrderRows : paid[x] = SumFunctionOnSet(AmountPaid, Group(ConfirmedRows, PaidFor, x))
    BY <1>2, PaidIsGroup DEF paid
  <2>4. IsFiniteSet(ConfirmedRows) /\ \A p \in ConfirmedRows : AmountPaid[p] \in Int /\ PaidFor[p] \in OrderRows
    BY ReportRows
  <2>5. SumFunctionOnSet(AmountPaid, ConfirmedRows) = SumFunctionOnSet(paid, OrderRows)
    BY <1>2, <2>3, <2>4, SumOfGroups
  <2> QED BY <1>3, <2>1, <2>2, <2>5
<1>9. Reports!cancellations(Ever) = [count |-> o.cancelled, amount |-> o.cancelledValue]
  <2>1. Reports!cancellations(Ever) = Totals(CancelledRows, Total)
    BY <1>1, Summaries DEF Ever
  <2>2. \A x \in CancelledRows : Total[x] \in Int /\ CohortRow[x]["value"] = Total[x]
    BY <1>2, <1>4
  <2>3. CancelledRows \subseteq Reports!Cohort(Ever)
    BY <1>2
  <2>4. /\ Cardinality(K) = Cardinality(CancelledRows)
        /\ SumFunctionOnSet(Column(C, "value"), K) = SumFunctionOnSet(Total, CancelledRows)
    BY <1>5, <2>2, <2>3, RowsByOrder DEF C
  <2> QED BY <1>3, <2>1, <2>4 DEF Totals
<1>10. o.outstanding = Reports!SumFunction([x \in going |-> Reports!receipt(x).outstanding])
  <2>1. SumFunctionOnSet(Column(C, "outstanding"), C) = SumFunctionOnSet(owed, OrderRows)
    <3>1. \A x \in OrderRows : owed[x] \in Int /\ CohortRow[x]["outstanding"] = owed[x]
      BY <1>4
    <3>2. OrderRows \subseteq Reports!Cohort(Ever)
      BY <1>2
    <3> QED BY <1>2, <3>1, <3>2, RowsByOrder DEF C
  <2>2. SumFunctionOnSet(owed, OrderRows) = SumFunctionOnSet(owed, going)
    <3>1. going \in SUBSET OrderRows
      OBVIOUS
    <3>2. (\A x \in OrderRows : owed[x] \in Int) /\ \A x \in OrderRows \ going : owed[x] = 0
      BY <1>4
    <3> HIDE DEF going
    <3> QED BY <1>2, <3>1, <3>2, SumOfPart
  <2>3. IsFiniteSet(going)
    BY <1>2, FS_Subset
  <2> HIDE DEF going
  <2>4. Reports!SumFunction([x \in going |-> Reports!receipt(x).outstanding]) = SumFunctionOnSet(owed, going)
    BY <1>6, <2>3, RowsSum
  <2> QED BY <1>3, <2>1, <2>2, <2>4
<1> QED BY <1>7, <1>8, <1>9, <1>10

LEMMA RangeBalances ==
  ASSUME ReportTypes, ReportSound, NEW range \in Reports!reportDateRange
  PROVE  Reports!Balanced(range)
<1>1. PICK a \in Int, b \in Int : range = <<a, b>>
  BY DEF Reports!reportDateRange, Reports!Days
<1>2. /\ Reports!income(range).amount
           = Reports!SumFunction([d \in Reports!calendar(range) |-> Reports!income(<<d, d>>).amount])
      /\ Reports!expenses(range).amount
           = Reports!SumFunction([d \in Reports!calendar(range) |-> Reports!expenses(<<d, d>>).amount])
      /\ Reports!cancellations(range).amount
           = Reports!SumFunction([d \in Reports!calendar(range) |-> Reports!cancellations(<<d, d>>).amount])
  BY <1>1, DaysBalance
<1>3. Reports!income(range) = Reports!Summary(Reports!income_methods(range))
  BY Summaries
<1>4. Reports!profit_loss(range) = Reports!income(range).amount - Reports!expenses(range).amount
  BY <1>1, ProfitBalances
<1> QED BY <1>2, <1>3, <1>4, OrdersBalance, CustomersBalance DEF Reports!Balanced

\* The dashboard is the report of today.
LEMMA DashboardBalances ==
  ASSUME ReportTypes, ReportSound
  PROVE  Reports!GetOutletDashboard =
           [payments |-> Reports!income(<<Reports!Today, Reports!Today>>),
            expenses |-> Reports!expenses(<<Reports!Today, Reports!Today>>)]
<1> DEFINE d == Reports!Today
           P == Dated(ConfirmedRows, PaidOn, <<d, d>>)
           E == Dated(SpentRows, SpentOn, <<d, d>>)
<1>1. /\ P = {p \in Payments : /\ payment[p].status = "CONFIRMED"
                               /\ payment[p].confirmed_at >= Reports!local_day.day_start
                               /\ payment[p].confirmed_at < Reports!local_day.day_end}
      /\ E = {e \in Expenses : /\ spending[e] # Reports!NoExpense
                               /\ spending[e].expense_at >= Reports!local_day.day_start
                               /\ spending[e].expense_at < Reports!local_day.day_end}
  BY DEF Dated, ConfirmedRows, PaidOn, SpentRows, SpentOn, Reports!Within, Reports!report_range,
         Reports!local_day
<1>2. /\ IsFiniteSet(P) /\ \A p \in P : payment[p].amount = AmountPaid[p]
      /\ IsFiniteSet(E) /\ \A e \in E : spending[e].amount = AmountSpent[e]
  BY <1>1, ReportAssumption, FS_Subset DEF AmountPaid, AmountSpent
<1>3. /\ Reports!payment_totals =
           [count |-> Reports!Cardinality(P), amount |-> Reports!SumFunction([p \in P |-> payment[p].amount])]
      /\ Reports!expense_totals =
           [count |-> Reports!Cardinality(E), amount |-> Reports!SumFunction([e \in E |-> spending[e].amount])]
  BY <1>1 DEF Reports!payment_totals, Reports!expense_totals
<1> HIDE DEF d, P, E
<1>4. /\ Reports!SumFunction([p \in P |-> payment[p].amount]) = SumFunctionOnSet(AmountPaid, P)
      /\ Reports!SumFunction([e \in E |-> spending[e].amount]) = SumFunctionOnSet(AmountSpent, E)
  BY <1>2, RowsSum
<1>5. Reports!payment_totals = Totals(P, AmountPaid) /\ Reports!expense_totals = Totals(E, AmountSpent)
  BY <1>3, <1>4, ReportsCount DEF Totals
<1>6. Reports!income(<<d, d>>) = Totals(P, AmountPaid) /\ Reports!expenses(<<d, d>>) = Totals(E, AmountSpent)
  BY Summaries DEF P, E
<1> QED BY <1>5, <1>6 DEF Reports!GetOutletDashboard, d

LEMMA SoundBalances == ReportTypes /\ ReportSound => Reports!Balances /\ ReportsBalance
BY RangeBalances, AllIsTold, DashboardBalances
   DEF Reports!Balances, ReportsBalance, Reports!ReportsBalance

(***************************************************************************)
(* That it stays so.  A step changes one payment at most: what an order    *)
(* was paid is what the others come to, and that one.                      *)
(***************************************************************************)
PaidRows(pay, o) == {p \in Payments : pay[p].status = "CONFIRMED" /\ pay[p].order = o}
PaidSum(pay, S) == SumFunctionOnSet([p \in Payments |-> pay[p].amount], S)

LEMMA PaidIsSum ==
  ASSUME NEW pay, NEW o
  PROVE  Reports!SumFunction([p \in PaidRows(pay, o) |-> pay[p].amount]) = PaidSum(pay, PaidRows(pay, o))
<1> DEFINE S == PaidRows(pay, o)
           f == [p \in Payments |-> pay[p].amount]
<1>1. IsFiniteSet(S) /\ S \subseteq Payments
  BY ReportAssumption, FS_Subset DEF PaidRows
<1>2. \A p \in S : pay[p].amount = f[p]
  BY <1>1
<1> HIDE DEF S, f
<1>3. Reports!SumFunction([p \in S |-> pay[p].amount]) = SumFunctionOnSet(f, S)
  BY <1>1, <1>2, RowsSum
<1> QED BY <1>3 DEF S, f, PaidSum

LEMMA PaidNow ==
  ASSUME NEW o
  PROVE  /\ Reports!payments_by_order(o) = PaidSum(payment, PaidRows(payment, o))
         /\ Reports!payments_by_order(o)' = PaidSum(payment', PaidRows(payment', o))
<1>1. Reports!payments_by_order(o) = PaidSum(payment, PaidRows(payment, o))
  BY PaidIsSum DEF Reports!payments_by_order, PaidRows
<1>2. Reports!payments_by_order(o)' = PaidSum(payment', PaidRows(payment', o))
  BY PaidIsSum DEF Reports!payments_by_order, PaidRows
<1> QED BY <1>1, <1>2

LEMMA PaidWithout ==
  ASSUME NEW pay, \A p \in Payments : pay[p].status = "CONFIRMED" => pay[p].amount \in Nat,
         NEW o, NEW q \in Payments
  PROVE  /\ PaidSum(pay, PaidRows(pay, o) \ {q}) \in Nat
         /\ PaidSum(pay, PaidRows(pay, o)) =
              PaidSum(pay, PaidRows(pay, o) \ {q}) + IF q \in PaidRows(pay, o) THEN pay[q].amount ELSE 0
<1> DEFINE S == PaidRows(pay, o)
           R == S \ {q}
           f == [p \in Payments |-> pay[p].amount]
<1>1. /\ IsFiniteSet(S) /\ IsFiniteSet(R)
      /\ S \subseteq Payments /\ \A p \in S : f[p] \in Nat
  BY ReportAssumption, FS_Subset DEF PaidRows
<1>2. f[q] = pay[q].amount /\ R \subseteq S /\ R = S \ {q}
  OBVIOUS
<1> HIDE DEF S, f, R
<1>3. SumFunctionOnSet(f, R) \in Nat
  <2>1. \A p \in R : f[p] \in Nat
    BY <1>1, <1>2
  <2> QED BY <1>1, <2>1, SumIsNat
<1>4. CASE q \in S
  <2>1. \A p \in S : f[p] \in Int
    BY <1>1
  <2>2. SumFunctionOnSet(f, S) = f[q] + SumFunctionOnSet(f, R)
    BY <1>1, <1>2, <1>4, <2>1, SumWithout
  <2>3. f[q] \in Nat
    BY <1>1, <1>4
  <2>4. SumFunctionOnSet(f, S) = SumFunctionOnSet(f, R) + f[q]
    BY <1>3, <2>2, <2>3
  <2> QED BY <1>2, <1>3, <1>4, <2>4 DEF S, f, R, PaidSum
<1>5. CASE q \notin S
  <2>1. R = S
    BY <1>2, <1>5
  <2>2. SumFunctionOnSet(f, S) = SumFunctionOnSet(f, R) + 0
    BY <1>3, <2>1
  <2> QED BY <1>3, <1>5, <2>2 DEF S, f, R, PaidSum
<1> QED BY <1>4, <1>5

LEMMA OthersPaid ==
  ASSUME NEW pay, NEW new, NEW q \in Payments, \A p \in Payments \ {q} : new[p] = pay[p], NEW o
  PROVE  PaidSum(new, PaidRows(new, o) \ {q}) = PaidSum(pay, PaidRows(pay, o) \ {q})
<1> DEFINE R == PaidRows(pay, o) \ {q}
           f == [p \in Payments |-> pay[p].amount]
           g == [p \in Payments |-> new[p].amount]
<1>1. PaidRows(new, o) \ {q} = R
  BY DEF PaidRows
<1>2. IsFiniteSet(R) /\ \A p \in R : g[p] = f[p]
  BY ReportAssumption, FS_Subset DEF PaidRows
<1> HIDE DEF R, f, g
<1>3. SumFunctionOnSet(g, R) = SumFunctionOnSet(f, R)
  BY <1>2, SumOfSame
<1> QED BY <1>1, <1>3 DEF PaidSum, R, f, g

LEMMA PaymentAmounts ==
  ASSUME NEW pay \in [Payments -> ReportedPayment \cup {Reports!NoPayment}]
  PROVE  \A p \in Payments : pay[p].status = "CONFIRMED" => pay[p].amount \in Nat
<1> SUFFICES ASSUME NEW p \in Payments, pay[p].status = "CONFIRMED" PROVE pay[p].amount \in Nat
  OBVIOUS
<1>1. pay[p] \in ReportedPayment
  BY DEF Reports!NoPayment
<1> QED BY <1>1, ReportAssumption DEF ReportedPayment

LEMMA SoundInit == Reports!Init => ReportSound
<1> SUFFICES ASSUME Reports!Init PROVE ReportSound
  OBVIOUS
<1>1. /\ order = [o \in Orders |-> Reports!NoOrder]
      /\ payment = [p \in Payments |-> Reports!NoPayment]
      /\ spending = [e \in Expenses |-> Reports!NoExpense]
      /\ clock = 0 /\ began = [r \in Requests |-> -1]
  BY DEF Reports!Init
<1>2. TimesSound /\ OrdersSound /\ PaymentsSound /\ ExpensesSound
  BY <1>1, ReportAssumption
  DEF TimesSound, OrdersSound, PaymentsSound, ExpensesSound, Reports!NoPayment
<1>3. ASSUME NEW o \in Orders
      PROVE  Reports!payments_by_order(o) \in 0 .. Total[o] /\ order[o].status # "CANCELLED"
  <2>1. PaidRows(payment, o) = {}
    BY <1>1 DEF PaidRows, Reports!NoPayment
  <2>2. Reports!payments_by_order(o) = 0
    BY <2>1, PaidNow, SumOfNone DEF PaidSum
  <2> QED BY <1>1, <2>2, ReportAssumption DEF Reports!NoOrder
<1> QED BY <1>2, <1>3 DEF ReportSound, MoneySound

\* A time at which a transaction began is a time there was.
LEMMA EndKeepsTimes ==
  ASSUME ReportTypes, TimesSound, NEW r \in Requests, Reports!End(r), clock' = clock
  PROVE  began[r] \in 0 .. MaxClock /\ TimesSound'
<1>1. /\ began \in [Requests -> Nat \cup {-1}] /\ clock \in 0 .. MaxClock /\ MaxClock \in Nat
      /\ began[r] # -1 /\ began' = [began EXCEPT ![r] = -1]
      /\ \A s \in Requests : began[s] <= clock
  BY ReportAssumption DEF ReportTypes, TimesSound, Reports!End
<1>2. \A s \in Requests : began'[s] = IF s = r THEN -1 ELSE began[s]
  BY <1>1
<1>3. \A s \in Requests : began'[s] <= clock
  BY <1>1, <1>2
<1> QED BY <1>1, <1>3 DEF TimesSound

\* Where no payment changes, what orders were paid does not.
LEMMA SamePayments ==
  ASSUME payment' = payment, NEW o
  PROVE  Reports!payments_by_order(o)' = Reports!payments_by_order(o)
BY PaidNow

LEMMA SoundCreateOrder ==
  ASSUME ReportTypes, ReportSound, NEW r \in Requests, Reports!CreateOrder(r)
  PROVE  ReportSound'
<1>1. PICK o \in Orders :
        /\ order[o] = Reports!NoOrder
        /\ order' = [order EXCEPT ![o] = [@ EXCEPT !.status = "RECEIVED", !.received_at = began[r]]]
  BY DEF Reports!CreateOrder
<1>2. /\ Reports!End(r) /\ payment' = payment /\ spending' = spending /\ clock' = clock
      /\ order \in [Orders -> ReportedOrder]
  BY DEF Reports!CreateOrder, ReportTypes
<1>3. began[r] \in 0 .. MaxClock /\ TimesSound'
  BY <1>2, EndKeepsTimes DEF ReportSound
<1> DEFINE new == [order[o] EXCEPT !.status = "RECEIVED", !.received_at = began[r]]
<1>4. /\ new # Reports!NoOrder /\ new.status = "RECEIVED" /\ new.received_at = began[r]
  BY <1>1, <1>2 DEF ReportedOrder, Reports!NoOrder
<1>5. order' = [order EXCEPT ![o] = new]
  BY <1>1
<1> HIDE DEF new
<1>6. order'[o] = new /\ \A x \in Orders \ {o} : order'[x] = order[x]
  BY <1>2, <1>5
<1>7. OrdersSound'
  BY <1>3, <1>4, <1>6 DEF ReportSound, OrdersSound
<1>8. PaymentsSound'
  <2> SUFFICES ASSUME NEW p \in Payments, payment[p].status = "CONFIRMED"
               PROVE  payment[p].confirmed_at \in 0 .. MaxClock /\ order'[payment[p].order] # Reports!NoOrder
    BY <1>2 DEF PaymentsSound
  <2>1. payment[p].order \in Orders
    BY DEF ReportTypes, ReportedPayment, Reports!NoPayment
  <2> QED BY <1>1, <1>6, <2>1 DEF ReportSound, PaymentsSound
<1>9. ExpensesSound'
  BY <1>2 DEF ReportSound, ExpensesSound
<1>10. MoneySound'
  <2> SUFFICES ASSUME NEW x \in Orders
               PROVE  /\ Reports!payments_by_order(x)' \in 0 .. Total[x]
                      /\ order'[x].status = "CANCELLED" => Reports!payments_by_order(x)' = 0
    BY DEF MoneySound
  <2>1. Reports!payments_by_order(x)' = Reports!payments_by_order(x)
    BY <1>2, SamePayments
  <2> QED BY <1>4, <1>6, <2>1 DEF ReportSound, MoneySound
<1> QED BY <1>3, <1>7, <1>8, <1>9, <1>10 DEF ReportSound

LEMMA SoundCancel ==
  ASSUME ReportTypes, ReportSound, NEW r \in Requests, Reports!Cancel(r)
  PROVE  ReportSound'
<1>1. PICK o \in Orders :
        /\ order[o].status = "RECEIVED" /\ Reports!payments_by_order(o) = 0
        /\ order' = [order EXCEPT ![o] = [@ EXCEPT !.status = "CANCELLED", !.cancelled_at = began[r]]]
  BY DEF Reports!Cancel
<1>2. /\ Reports!End(r) /\ payment' = payment /\ spending' = spending /\ clock' = clock
      /\ order \in [Orders -> ReportedOrder]
  BY DEF Reports!Cancel, ReportTypes
<1>3. began[r] \in 0 .. MaxClock /\ TimesSound'
  BY <1>2, EndKeepsTimes DEF ReportSound
<1> DEFINE new == [order[o] EXCEPT !.status = "CANCELLED", !.cancelled_at = began[r]]
<1>4. /\ new # Reports!NoOrder /\ new.status = "CANCELLED"
      /\ new.received_at = order[o].received_at /\ new.cancelled_at = began[r]
  BY <1>1, <1>2 DEF ReportedOrder, Reports!NoOrder
<1>5. order' = [order EXCEPT ![o] = new]
  BY <1>1
<1> HIDE DEF new
<1>6. order'[o] = new /\ \A x \in Orders \ {o} : order'[x] = order[x]
  BY <1>2, <1>5
<1>7. order[o] # Reports!NoOrder
  BY <1>1 DEF Reports!NoOrder
<1>8. OrdersSound'
  BY <1>3, <1>4, <1>6, <1>7 DEF ReportSound, OrdersSound
<1>9. PaymentsSound'
  <2> SUFFICES ASSUME NEW p \in Payments, payment[p].status = "CONFIRMED"
               PROVE  payment[p].confirmed_at \in 0 .. MaxClock /\ order'[payment[p].order] # Reports!NoOrder
    BY <1>2 DEF PaymentsSound
  <2>1. payment[p].order \in Orders
    BY DEF ReportTypes, ReportedPayment, Reports!NoPayment
  <2> QED BY <1>4, <1>6, <2>1 DEF ReportSound, PaymentsSound
<1>10. ExpensesSound'
  BY <1>2 DEF ReportSound, ExpensesSound
<1>11. MoneySound'
  <2> SUFFICES ASSUME NEW x \in Orders
               PROVE  /\ Reports!payments_by_order(x)' \in 0 .. Total[x]
                      /\ order'[x].status = "CANCELLED" => Reports!payments_by_order(x)' = 0
    BY DEF MoneySound
  <2>1. Reports!payments_by_order(x)' = Reports!payments_by_order(x)
    BY <1>2, SamePayments
  <2> QED BY <1>1, <1>6, <2>1 DEF ReportSound, MoneySound
<1> QED BY <1>3, <1>8, <1>9, <1>10, <1>11 DEF ReportSound

\* What is applied is no more than what is outstanding.
LEMMA SoundRecord ==
  ASSUME ReportTypes, ReportSound, NEW r \in Requests, Reports!Record(r)
  PROVE  ReportSound'
<1>1. PICK o \in Orders, q \in {x \in Payments : payment[x] = Reports!NoPayment}, m \in Methods, a \in Receipts :
        /\ order[o].status \notin {"absent", "CANCELLED"}
        /\ Reports!payments_by_order(o) + a <= Total[o]
        /\ payment' = [payment EXCEPT ![q] =
             [status |-> "CONFIRMED", order |-> o, method |-> m, amount |-> a, confirmed_at |-> began[r]]]
  BY DEF Reports!Record
<1>2. /\ Reports!End(r) /\ order' = order /\ spending' = spending /\ clock' = clock
      /\ payment \in [Payments -> ReportedPayment \cup {Reports!NoPayment}]
      /\ q \in Payments /\ payment[q].status # "CONFIRMED"
  BY <1>1 DEF Reports!Record, ReportTypes, Reports!NoPayment
<1>3. began[r] \in 0 .. MaxClock /\ TimesSound'
  BY <1>2, EndKeepsTimes DEF ReportSound
<1> DEFINE new ==
      [status |-> "CONFIRMED", order |-> o, method |-> m, amount |-> a, confirmed_at |-> began[r]]
<1>4. /\ new.status = "CONFIRMED" /\ new.order = o /\ new.amount = a /\ new.confirmed_at = began[r]
      /\ new \in ReportedPayment
  BY <1>3 DEF ReportedPayment
<1>5. payment' = [payment EXCEPT ![q] = new]
  BY <1>1
<1> HIDE DEF new
<1>6. /\ payment'[q] = new /\ \A p \in Payments \ {q} : payment'[p] = payment[p]
      /\ payment' \in [Payments -> ReportedPayment \cup {Reports!NoPayment}]
  BY <1>2, <1>4, <1>5
<1>7. OrdersSound' /\ ExpensesSound'
  BY <1>2 DEF ReportSound, OrdersSound, ExpensesSound
<1>8. PaymentsSound'
  <2>1. order[o] # Reports!NoOrder
    BY <1>1 DEF Reports!NoOrder
  <2>2. ASSUME NEW p \in Payments, payment'[p].status = "CONFIRMED"
        PROVE  payment'[p].confirmed_at \in 0 .. MaxClock /\ order[payment'[p].order] # Reports!NoOrder
    BY <1>3, <1>4, <1>6, <2>1, <2>2 DEF ReportSound, PaymentsSound
  <2> QED BY <1>2, <2>2 DEF PaymentsSound
<1>9. MoneySound'
  <2> SUFFICES ASSUME NEW x \in Orders
               PROVE  /\ Reports!payments_by_order(x)' \in 0 .. Total[x]
                      /\ order[x].status = "CANCELLED" => Reports!payments_by_order(x)' = 0
    BY <1>2 DEF MoneySound
  <2> DEFINE rest == PaidSum(payment, PaidRows(payment, x) \ {q})
  <2>1. /\ rest \in Nat
        /\ Reports!payments_by_order(x) = rest + IF q \in PaidRows(payment, x) THEN payment[q].amount ELSE 0
    BY <1>2, PaidNow, PaidWithout, PaymentAmounts
  <2>2. PaidSum(payment', PaidRows(payment', x) \ {q}) = rest
    BY <1>2, <1>6, OthersPaid
  <2>3. Reports!payments_by_order(x)' = rest + IF q \in PaidRows(payment', x) THEN payment'[q].amount ELSE 0
    <3>1. \A p \in Payments : payment'[p].status = "CONFIRMED" => payment'[p].amount \in Nat
      BY <1>2, <1>6, PaymentAmounts
    <3>2. PaidSum(payment', PaidRows(payment', x)) =
            PaidSum(payment', PaidRows(payment', x) \ {q})
              + IF q \in PaidRows(payment', x) THEN payment'[q].amount ELSE 0
      BY <3>1, PaidWithout
    <3> QED BY <2>2, <3>2, PaidNow
  <2> HIDE DEF rest
  <2>4. Reports!payments_by_order(x) = rest
    BY <1>2, <2>1 DEF PaidRows
  <2>5. /\ Total[x] \in Nat /\ Reports!payments_by_order(x) \in 0 .. Total[x]
        /\ order[x].status = "CANCELLED" => Reports!payments_by_order(x) = 0
    BY ReportAssumption DEF ReportSound, MoneySound
  <2>6. CASE x = o
    <3>1. Reports!payments_by_order(x)' = rest + a /\ a \in Nat
      BY <1>2, <1>4, <1>6, <2>3, <2>6, ReportAssumption DEF PaidRows
    <3> QED BY <1>1, <2>1, <2>4, <2>5, <2>6, <3>1
  <2>7. CASE x # o
    <3>1. Reports!payments_by_order(x)' = rest
      BY <1>4, <1>6, <2>1, <2>3, <2>7 DEF PaidRows
    <3> QED BY <2>4, <2>5, <3>1
  <2> QED BY <2>6, <2>7
<1> QED BY <1>3, <1>7, <1>8, <1>9 DEF ReportSound

LEMMA SoundVoid ==
  ASSUME ReportTypes, ReportSound, NEW r \in Requests, Reports!Void(r)
  PROVE  ReportSound'
<1>1. PICK q \in Payments :
        /\ payment[q].status = "CONFIRMED"
        /\ payment' = [payment EXCEPT ![q].status = "VOIDED"]
  BY DEF Reports!Void
<1>2. /\ Reports!End(r) /\ order' = order /\ spending' = spending /\ clock' = clock
      /\ payment \in [Payments -> ReportedPayment \cup {Reports!NoPayment}]
  BY DEF Reports!Void, ReportTypes
<1>3. TimesSound'
  BY <1>2, EndKeepsTimes DEF ReportSound
<1>4. /\ payment' \in [Payments -> ReportedPayment \cup {Reports!NoPayment}]
      /\ payment'[q].status # "CONFIRMED" /\ \A p \in Payments \ {q} : payment'[p] = payment[p]
  <2>1. payment[q] \in ReportedPayment
    BY <1>1, <1>2 DEF Reports!NoPayment
  <2> DEFINE new == [payment[q] EXCEPT !.status = "VOIDED"]
  <2>2. new \in ReportedPayment /\ new.status = "VOIDED"
    BY <2>1 DEF ReportedPayment
  <2>3. payment' = [payment EXCEPT ![q] = new]
    BY <1>1
  <2> HIDE DEF new
  <2> QED BY <1>2, <2>2, <2>3
<1>5. OrdersSound' /\ ExpensesSound'
  BY <1>2 DEF ReportSound, OrdersSound, ExpensesSound
<1>6. PaymentsSound'
  <2>1. \A p \in Payments : payment'[p].status = "CONFIRMED" => payment'[p] = payment[p]
    BY <1>4
  <2> QED BY <1>2, <2>1 DEF ReportSound, PaymentsSound
<1>7. MoneySound'
  <2> SUFFICES ASSUME NEW x \in Orders
               PROVE  /\ Reports!payments_by_order(x)' \in 0 .. Total[x]
                      /\ order[x].status = "CANCELLED" => Reports!payments_by_order(x)' = 0
    BY <1>2 DEF MoneySound
  <2> DEFINE rest == PaidSum(payment, PaidRows(payment, x) \ {q})
  <2>1. /\ rest \in Nat /\ payment[q].amount \in Nat
        /\ Reports!payments_by_order(x) = rest + IF q \in PaidRows(payment, x) THEN payment[q].amount ELSE 0
    BY <1>1, <1>2, PaidNow, PaidWithout, PaymentAmounts
  <2>2. PaidSum(payment', PaidRows(payment', x) \ {q}) = rest
    BY <1>4, OthersPaid
  <2>3. Reports!payments_by_order(x)' = rest + IF q \in PaidRows(payment', x) THEN payment'[q].amount ELSE 0
    <3>1. \A p \in Payments : payment'[p].status = "CONFIRMED" => payment'[p].amount \in Nat
      BY <1>4, PaymentAmounts
    <3>2. PaidSum(payment', PaidRows(payment', x)) =
            PaidSum(payment', PaidRows(payment', x) \ {q})
              + IF q \in PaidRows(payment', x) THEN payment'[q].amount ELSE 0
      BY <3>1, PaidWithout
    <3> QED BY <2>2, <3>2, PaidNow
  <2> HIDE DEF rest
  <2>4. Reports!payments_by_order(x)' = rest
    BY <1>4, <2>1, <2>3 DEF PaidRows
  <2>5. /\ Total[x] \in Nat /\ Reports!payments_by_order(x) \in 0 .. Total[x]
        /\ order[x].status = "CANCELLED" => Reports!payments_by_order(x) = 0
    BY ReportAssumption DEF ReportSound, MoneySound
  <2>6. rest <= Reports!payments_by_order(x)
    BY <2>1
  <2> QED BY <2>1, <2>4, <2>5, <2>6
<1> QED BY <1>3, <1>5, <1>6, <1>7 DEF ReportSound

\* Where neither an order nor a payment changes, nor the clock.
LEMMA SoundOtherwise ==
  ASSUME ReportTypes, ReportSound, UNCHANGED <<order, payment>>, TimesSound', ExpensesSound'
  PROVE  ReportSound'
<1>1. OrdersSound' /\ PaymentsSound'
  BY DEF ReportSound, OrdersSound, PaymentsSound
<1>2. MoneySound'
  BY SamePayments DEF ReportSound, MoneySound
<1> QED BY <1>1, <1>2 DEF ReportSound

LEMMA SoundNext == ReportTypes /\ ReportSound /\ Reports!Next => ReportSound'
<1> SUFFICES ASSUME ReportTypes, ReportSound, Reports!Next PROVE ReportSound'
  OBVIOUS
<1>1. ASSUME NEW r \in Requests, Reports!Begin(r) PROVE ReportSound'
  <2>1. began' = [began EXCEPT ![r] = clock] /\ UNCHANGED <<order, payment, spending, clock>>
    BY <1>1 DEF Reports!Begin
  <2>2. began \in [Requests -> Nat \cup {-1}] /\ clock \in Nat
    BY DEF ReportTypes
  <2>3. TimesSound'
    BY <2>1, <2>2 DEF ReportSound, TimesSound
  <2>4. ExpensesSound'
    BY <2>1 DEF ReportSound, ExpensesSound
  <2> QED BY <2>1, <2>3, <2>4, SoundOtherwise
<1>2. ASSUME NEW r \in Requests, Reports!EnterExpense(r) PROVE ReportSound'
  <2>1. Reports!End(r) /\ UNCHANGED <<order, payment, clock>>
    BY <1>2 DEF Reports!EnterExpense
  <2>2. PICK e \in Expenses, a \in Receipts, t \in 0 .. MaxClock :
          spending' = [spending EXCEPT ![e] = [amount |-> a, expense_at |-> t]]
    BY <1>2 DEF Reports!EnterExpense
  <2>3. ExpensesSound'
    BY <2>2 DEF ReportSound, ExpensesSound
  <2> QED BY <2>1, <2>3, EndKeepsTimes, SoundOtherwise DEF ReportSound
<1>3. ASSUME NEW r \in Requests, Reports!Rollback(r) PROVE ReportSound'
  <2>1. Reports!End(r) /\ UNCHANGED <<order, payment, spending, clock>>
    BY <1>3 DEF Reports!Rollback
  <2>2. ExpensesSound'
    BY <2>1 DEF ReportSound, ExpensesSound
  <2> QED BY <2>1, <2>2, EndKeepsTimes, SoundOtherwise DEF ReportSound
<1>4. ASSUME Reports!Tick PROVE ReportSound'
  <2>1. clock < MaxClock /\ clock' = clock + 1 /\ UNCHANGED <<order, payment, spending, began>>
    BY <1>4 DEF Reports!Tick
  <2>2. clock \in Nat /\ began \in [Requests -> Nat \cup {-1}] /\ MaxClock \in Nat
    BY ReportAssumption DEF ReportTypes
  <2>3. TimesSound'
    BY <2>1, <2>2 DEF ReportSound, TimesSound
  <2>4. ExpensesSound'
    BY <2>1 DEF ReportSound, ExpensesSound
  <2> QED BY <2>1, <2>3, <2>4, SoundOtherwise
<1> QED
  BY <1>1, <1>2, <1>3, <1>4, SoundCreateOrder, SoundCancel, SoundRecord, SoundVoid DEF Reports!Next

\* In every state no order was paid more than it costs, none that is cancelled holds money,
\* and what is written bears a time there was (Record, Void, Cancel, Create, now()).
THEOREM ReportsStaySound == BackOfficeSpec => [](ReportTypes /\ ReportSound)
<1> DEFINE Sound == ReportTypes /\ ReportSound
<1>1. BackOfficeInit => Sound
  BY ReportInit, SoundInit DEF BackOfficeInit
<1>2. Sound /\ [BackOfficeNext]_backOfficeVars => Sound'
  <2>1. Sound /\ UNCHANGED reportVars => Sound'
    <3> SUFFICES ASSUME Sound, UNCHANGED <<order, payment, spending, clock, began>> PROVE Sound'
      BY DEF reportVars
    <3>1. ReportTypes' /\ TimesSound' /\ ExpensesSound'
      BY DEF ReportTypes, ReportSound, TimesSound, ExpensesSound
    <3> QED BY <3>1, SoundOtherwise
  <2> QED BY <2>1, ReportTypesNext, SoundNext
        DEF BackOfficeNext, ExpenseStep, CatalogStep, TemplateStep, ListingStep, ReportStep, TenantStep,
            LimiterStep, backOfficeVars
<1> QED BY <1>1, <1>2, PTL DEF BackOfficeSpec

\* In every state the reports of an outlet agree with each other and with its dashboard:
\* days, methods, customers and orders add up to the same, and over all days what was
\* received is what was collected (GetOutletReport, GetOutletDashboard, receipt).  It is so
\* at any time, not only where ReportsBalance looks.
THEOREM ReportsAlwaysBalance == BackOfficeSpec => [](Reports!Balances /\ ReportsBalance)
BY ReportsStaySound, SoundBalances, PTL
-------------------------------------------------------------------------------
(***************************************************************************)
(* The limiter.  A request may enter with a clock that is late, so that an *)
(* entry may be purged, or opened, for a window that others know is over.  *)
(* Only windows that are not over matter, and of those each key has one at *)
(* most, which its entry describes.                                        *)
(***************************************************************************)
Least(m, n) == IF m <= n THEN m ELSE n

Entry == [count : 0 .. Limit + 1, until : Limiter!Ends]
Arrived == [phase : {"waiting"}, key : Keys, now : 0 .. MaxTime]

LimiterTypes ==
  /\ entries \in [Keys -> Entry]
  /\ \A k \in Keys : entries[k] # Limiter!NoEntry => entries[k].count > 0
  /\ time \in 0 .. MaxTime
  /\ waiting \in [Requests -> Arrived \cup {Limiter!NoRequest}]
  /\ passed \in [Keys -> [Limiter!Ends -> Nat]]

\* A clock that was read is not ahead.
Late == \A r \in Requests : waiting[r] # Limiter!NoRequest => waiting[r].now <= time

\* A window that is not over has an entry, which knows how many passed in it, ...
Recalled ==
  \A k \in Keys : \A u \in Limiter!Ends :
    u > time /\ passed[k][u] > 0 =>
      /\ entries[k] # Limiter!NoEntry /\ entries[k].until = u
      /\ passed[k][u] <= Least(entries[k].count, Limit)
\* ... and no entry counts more than passed in its window, up to the limit.
Earned ==
  \A k \in Keys :
    entries[k] # Limiter!NoEntry => passed[k][entries[k].until] >= Least(entries[k].count, Limit)

LimiterInv ==
  /\ LimiterTypes /\ Late /\ Recalled /\ Earned
  /\ Cardinality(Limiter!Live(entries)) <= Capacity

\* The cardinality that AuthLimiter knows.
LEMMA LimiterCardinality == \A S : Limiter!Cardinality(S) = Cardinality(S)
  BY DEF Cardinality, Limiter!Cardinality, IsFiniteSet, Limiter!IsFiniteSet

LEMMA LimiterInit == Limiter!Init => LimiterInv
<1>1. SUFFICES ASSUME Limiter!Init PROVE LimiterInv
  OBVIOUS
<1>2. 0 \in Limiter!Ends
  BY LimiterAssumption DEF Limiter!Ends
<1>3. LimiterTypes
  BY <1>1, <1>2, LimiterAssumption DEF Limiter!Init, LimiterTypes, Entry, Limiter!NoEntry
<1>4. Late /\ Recalled /\ Earned
  BY <1>1 DEF Limiter!Init, Late, Recalled, Earned
<1>5. Limiter!Live(entries) = {}
  BY <1>1 DEF Limiter!Init, Limiter!Live
<1>6. Cardinality(Limiter!Live(entries)) <= Capacity
  BY <1>5, FS_EmptySet, LimiterAssumption
<1> QED BY <1>3, <1>4, <1>6 DEF LimiterInv

\* The entries a request finds under the mutex: its own is there, or not, as its clock
\* has it, and those of others may only go when their windows are over.
LEMMA Purged ==
  ASSUME LimiterInv, NEW k \in Keys, NEW now \in 0 .. MaxTime, now <= time
  PROVE  LET t == Limiter!WithoutExpired(k, now)
         IN  /\ t \in [Keys -> Entry]
             /\ \A j \in Keys : t[j] = entries[j] \/ (t[j] = Limiter!NoEntry /\ now >= entries[j].until)
             /\ t[k] = IF now >= entries[k].until THEN Limiter!NoEntry ELSE entries[k]
             /\ Cardinality(Limiter!Live(t)) \in Nat
             /\ Cardinality(Limiter!Live(t)) <= Capacity
             /\ IsFiniteSet(Limiter!Live(t))
<1> DEFINE own == Limiter!WithoutOwn(k, now)
           t == Limiter!WithoutExpired(k, now)
           all == [j \in Keys |-> IF now >= own[j].until THEN Limiter!NoEntry ELSE own[j]]
<1>1. LimiterTypes
  BY DEF LimiterInv
<1>2. Limiter!NoEntry \in Entry
  BY LimiterAssumption DEF Entry, Limiter!NoEntry, Limiter!Ends
<1>3. /\ own \in [Keys -> Entry]
      /\ \A j \in Keys \ {k} : own[j] = entries[j]
      /\ own[k] = IF now >= entries[k].until THEN Limiter!NoEntry ELSE entries[k]
  BY <1>1, <1>2 DEF Limiter!WithoutOwn, LimiterTypes
<1>4. t = all \/ t = own
  BY DEF Limiter!WithoutExpired
<1>5. /\ all \in [Keys -> Entry]
      /\ \A j \in Keys : all[j] = IF now >= own[j].until THEN Limiter!NoEntry ELSE own[j]
  BY <1>3, <1>2
<1>6. now >= Limiter!NoEntry.until
  BY DEF Limiter!NoEntry
<1>7. t \in [Keys -> Entry]
  BY <1>3, <1>4, <1>5
<1>8. t[k] = IF now >= entries[k].until THEN Limiter!NoEntry ELSE entries[k]
  BY <1>3, <1>4, <1>5, <1>6
<1>9. ASSUME NEW j \in Keys
      PROVE  t[j] = entries[j] \/ (t[j] = Limiter!NoEntry /\ now >= entries[j].until)
  BY <1>3, <1>4, <1>5, <1>8
<1>10. Limiter!Live(t) \subseteq Limiter!Live(entries)
  BY <1>9 DEF Limiter!Live
<1>11. Limiter!Live(entries) \subseteq Keys
  BY DEF Limiter!Live
<1>12. IsFiniteSet(Limiter!Live(entries))
  BY <1>11, FS_Subset, LimiterAssumption
<1>13. /\ IsFiniteSet(Limiter!Live(t))
       /\ Cardinality(Limiter!Live(t)) <= Cardinality(Limiter!Live(entries))
  BY <1>10, <1>12, FS_Subset
<1>14. Cardinality(Limiter!Live(t)) \in Nat /\ Cardinality(Limiter!Live(entries)) \in Nat
  BY <1>12, <1>13, FS_CardinalityType
<1>15. Cardinality(Limiter!Live(t)) <= Capacity
  BY <1>13, <1>14, LimiterAssumption DEF LimiterInv
<1> QED BY <1>7, <1>8, <1>9, <1>13, <1>14, <1>15

\* What it counts itself to.
LEMMA Counting ==
  ASSUME LimiterInv, NEW k \in Keys, NEW now \in 0 .. MaxTime, now <= time
  PROVE  LET t == Limiter!WithoutExpired(k, now)
             e == Limiter!Counted(k, now, t)
         IN  /\ e \in Entry /\ e.count > 0 /\ e # Limiter!NoEntry
             /\ now < entries[k].until =>
                  /\ e.until = entries[k].until
                  /\ e.count = IF entries[k].count <= Limit THEN entries[k].count + 1 ELSE entries[k].count
             /\ now >= entries[k].until => e.count = 1 /\ e.until = now + Window
<1> DEFINE t == Limiter!WithoutExpired(k, now)
           e == Limiter!Counted(k, now, t)
<1>1. /\ t \in [Keys -> Entry]
      /\ t[k] = IF now >= entries[k].until THEN Limiter!NoEntry ELSE entries[k]
  BY Purged
<1>2. LimiterTypes
  BY DEF LimiterInv
<1>3. Limiter!NoEntry.count = 0 /\ Limiter!NoEntry.until = 0
  BY DEF Limiter!NoEntry
<1>4. CASE now >= entries[k].until
  <2>1. t[k] = Limiter!NoEntry
    BY <1>1, <1>4
  <2>2. e = [count |-> 1, until |-> now + Window]
    BY <2>1, LimiterAssumption DEF Limiter!Counted
  <2>3. now + Window \in Limiter!Ends
    BY LimiterAssumption DEF Limiter!Ends
  <2>4. e \in Entry /\ e.count = 1 /\ e.until = now + Window
    BY <2>2, <2>3, LimiterAssumption DEF Entry
  <2> QED BY <2>4, <1>3, <1>4, <1>2 DEF LimiterTypes, Entry, Limiter!Ends
<1>5. CASE now < entries[k].until
  <2>1. t[k] = entries[k] /\ entries[k] \in Entry
    BY <1>1, <1>5, <1>2 DEF LimiterTypes, Entry, Limiter!Ends
  <2>2. entries[k] # Limiter!NoEntry /\ entries[k].count > 0
    BY <1>5, <1>3, <1>2 DEF LimiterTypes
  <2>3. e = IF entries[k].count <= Limit THEN [entries[k] EXCEPT !.count = @ + 1] ELSE entries[k]
    BY <2>1, <2>2 DEF Limiter!Counted
  <2>4. /\ e \in Entry /\ e.until = entries[k].until
        /\ e.count = IF entries[k].count <= Limit THEN entries[k].count + 1 ELSE entries[k].count
    BY <2>1, <2>3, LimiterAssumption DEF Entry
  <2>5. e.count > 0
    BY <2>1, <2>2, <2>4, LimiterAssumption DEF Entry
  <2> QED BY <2>1, <2>4, <2>5, <1>3, <1>5 DEF Entry, Limiter!Ends
<1> QED BY <1>2, <1>4, <1>5 DEF LimiterTypes, Entry, Limiter!Ends

\* A request that is refused lets nobody pass: its entry, if it gets one, stops just
\* above the limit.
LEMMA RefusalKeeps ==
  ASSUME LimiterInv, NEW r \in Requests, Limiter!TooMany(r)
  PROVE  LimiterInv'
<1> DEFINE k == waiting[r].key
           now == waiting[r].now
           t == Limiter!WithoutExpired(k, now)
           e == Limiter!Counted(k, now, t)
<1>1. LimiterTypes /\ Late /\ Recalled /\ Earned
  BY DEF LimiterInv
<1>2. k \in Keys /\ now \in 0 .. MaxTime /\ now <= time
  BY <1>1 DEF Limiter!TooMany, LimiterTypes, Late, Arrived
<1>3. /\ t \in [Keys -> Entry]
      /\ \A j \in Keys : t[j] = entries[j] \/ (t[j] = Limiter!NoEntry /\ now >= entries[j].until)
      /\ t[k] = IF now >= entries[k].until THEN Limiter!NoEntry ELSE entries[k]
      /\ Cardinality(Limiter!Live(t)) \in Nat
      /\ Cardinality(Limiter!Live(t)) <= Capacity
      /\ IsFiniteSet(Limiter!Live(t))
  BY <1>2, Purged
<1>4. /\ e \in Entry /\ e.count > 0 /\ e # Limiter!NoEntry
      /\ now < entries[k].until =>
           /\ e.until = entries[k].until
           /\ e.count = IF entries[k].count <= Limit THEN entries[k].count + 1 ELSE entries[k].count
      /\ now >= entries[k].until => e.count = 1 /\ e.until = now + Window
  BY <1>2, Counting
<1> HIDE DEF t, e
<1>5. /\ Limiter!Refused(k, now)
      /\ entries' = IF Limiter!Full(k, t) THEN t ELSE [t EXCEPT ![k] = e]
      /\ waiting' = [waiting EXCEPT ![r] = Limiter!NoRequest]
      /\ UNCHANGED <<time, passed>>
  BY DEF Limiter!TooMany, t, e
<1>6. ~ Limiter!Full(k, t) => e.count > Limit
  BY <1>5 DEF Limiter!Refused, Limiter!Admitted, Limiter!Blocked, t, e
<1>7. now < entries[k].until \/ now >= entries[k].until
  BY <1>1, <1>2 DEF LimiterTypes, Entry, Limiter!Ends
<1>8. ~ Limiter!Full(k, t) =>
        now < entries[k].until /\ entries[k].count >= Limit /\ t[k] = entries[k]
  BY <1>1, <1>2, <1>3, <1>4, <1>6, <1>7, LimiterAssumption DEF LimiterTypes, Entry, Limiter!Ends
<1>9. ~ Limiter!Full(k, t) => entries[k] # Limiter!NoEntry
  BY <1>8, LimiterAssumption DEF Limiter!NoEntry
<1>15. ~ Limiter!Full(k, t) =>
         Least(entries[k].count, Limit) = Limit /\ Least(e.count, Limit) = Limit
  <2>1. SUFFICES ASSUME ~ Limiter!Full(k, t)
                 PROVE  Least(entries[k].count, Limit) = Limit /\ Least(e.count, Limit) = Limit
    OBVIOUS
  <2>2. entries[k].count \in 0 .. Limit + 1 /\ entries[k].count >= Limit
    BY <2>1, <1>1, <1>2, <1>8 DEF LimiterTypes, Entry
  <2>3. e.count \in 0 .. Limit + 1 /\ e.count > Limit
    BY <2>1, <1>4, <1>6 DEF Entry
  <2> QED BY <2>2, <2>3, LimiterAssumption DEF Least
<1> HIDE DEF k, now
<1>10. LimiterTypes'
  <2>1. entries' \in [Keys -> Entry]
    BY <1>3, <1>4, <1>5
  <2>2. \A j \in Keys : entries'[j] # Limiter!NoEntry => entries'[j].count > 0
    BY <1>1, <1>2, <1>3, <1>4, <1>5 DEF LimiterTypes
  <2>3. waiting' \in [Requests -> Arrived \cup {Limiter!NoRequest}]
    BY <1>1, <1>5 DEF LimiterTypes
  <2> QED BY <2>1, <2>2, <2>3, <1>1, <1>5 DEF LimiterTypes
<1>11. Late'
  BY <1>1, <1>5 DEF Late, LimiterTypes
<1>12. Recalled'
  <2>1. SUFFICES ASSUME NEW j \in Keys, NEW u \in Limiter!Ends, u > time, passed[j][u] > 0
                 PROVE  /\ entries'[j] # Limiter!NoEntry /\ entries'[j].until = u
                        /\ passed[j][u] <= Least(entries'[j].count, Limit)
    BY <1>5 DEF Recalled
  <2>2. /\ entries[j] # Limiter!NoEntry /\ entries[j].until = u
        /\ passed[j][u] <= Least(entries[j].count, Limit)
    BY <1>1, <2>1 DEF Recalled
  <2>3. ~ now >= entries[j].until
    BY <2>1, <2>2, <1>2, <1>1 DEF LimiterTypes, Limiter!Ends
  <2>4. t[j] = entries[j]
    BY <2>3, <1>3
  <2>5. CASE j = k /\ ~ Limiter!Full(k, t)
    <3>1. entries'[j] = e
      BY <2>5, <1>5, <1>3
    <3>2. e.until = u /\ e.count = IF entries[k].count <= Limit THEN entries[k].count + 1 ELSE entries[k].count
      BY <2>5, <2>2, <1>4, <1>8
    <3> QED BY <3>1, <3>2, <1>15, <2>2, <2>5, <1>4
  <2>6. CASE ~ (j = k /\ ~ Limiter!Full(k, t))
    <3>1. entries'[j] = entries[j]
      BY <2>4, <2>6, <1>3, <1>5
    <3> QED BY <3>1, <2>2
  <2> QED BY <2>5, <2>6
<1>13. Earned'
  <2>1. SUFFICES ASSUME NEW j \in Keys, entries'[j] # Limiter!NoEntry
                 PROVE  passed[j][entries'[j].until] >= Least(entries'[j].count, Limit)
    BY <1>5 DEF Earned
  <2>2. CASE j = k /\ ~ Limiter!Full(k, t)
    <3>1. entries'[j] = e
      BY <2>2, <1>5, <1>3
    <3>2. e.until = entries[k].until /\ e.count = IF entries[k].count <= Limit THEN entries[k].count + 1 ELSE entries[k].count
      BY <2>2, <1>4, <1>8
    <3> QED BY <3>1, <3>2, <1>15, <2>2, <1>1, <1>2, <1>9 DEF Earned
  <2>3. CASE ~ (j = k /\ ~ Limiter!Full(k, t))
    <3>1. entries'[j] = t[j]
      BY <2>3, <1>3, <1>5
    <3> QED BY <3>1, <2>1, <1>1, <1>3 DEF Earned
  <2> QED BY <2>2, <2>3
<1>14. Cardinality(Limiter!Live(entries))' <= Capacity
  <2>1. CASE Limiter!Full(k, t)
    BY <2>1, <1>3, <1>5
  <2>2. CASE ~ Limiter!Full(k, t)
    <3>1. Limiter!Live(entries)' = Limiter!Live(t)
      BY <2>2, <1>2, <1>3, <1>4, <1>5, <1>8, <1>9 DEF Limiter!Live
    <3> QED BY <3>1, <1>3
  <2> QED BY <2>1, <2>2
<1> QED BY <1>10, <1>11, <1>12, <1>13, <1>14 DEF LimiterInv

\* Who passes is counted in a window that has room for it.
LEMMA PassKeeps ==
  ASSUME LimiterInv, NEW r \in Requests, Limiter!Pass(r)
  PROVE  LimiterInv'
<1> DEFINE k == waiting[r].key
           now == waiting[r].now
           t == Limiter!WithoutExpired(k, now)
           e == Limiter!Counted(k, now, t)
<1>1. LimiterTypes /\ Late /\ Recalled /\ Earned
  BY DEF LimiterInv
<1>2. k \in Keys /\ now \in 0 .. MaxTime /\ now <= time
  BY <1>1 DEF Limiter!Pass, LimiterTypes, Late, Arrived
<1>3. /\ t \in [Keys -> Entry]
      /\ \A j \in Keys : t[j] = entries[j] \/ (t[j] = Limiter!NoEntry /\ now >= entries[j].until)
      /\ t[k] = IF now >= entries[k].until THEN Limiter!NoEntry ELSE entries[k]
      /\ Cardinality(Limiter!Live(t)) \in Nat
      /\ Cardinality(Limiter!Live(t)) <= Capacity
      /\ IsFiniteSet(Limiter!Live(t))
  BY <1>2, Purged
<1>4. /\ e \in Entry /\ e.count > 0 /\ e # Limiter!NoEntry
      /\ now < entries[k].until =>
           /\ e.until = entries[k].until
           /\ e.count = IF entries[k].count <= Limit THEN entries[k].count + 1 ELSE entries[k].count
      /\ now >= entries[k].until => e.count = 1 /\ e.until = now + Window
  BY <1>2, Counting
<1> HIDE DEF t, e
<1>5. /\ Limiter!Admitted(k, now, t)
      /\ entries' = [t EXCEPT ![k] = e]
      /\ passed' = [passed EXCEPT ![k][e.until] = @ + 1]
      /\ waiting' = [waiting EXCEPT ![r] = Limiter!NoRequest]
      /\ time' = time
  BY DEF Limiter!Pass, t, e
<1>6. e.count <= Limit /\ ~ Limiter!Full(k, t)
  BY <1>4, <1>5, LimiterAssumption DEF Limiter!Admitted, Limiter!Blocked, Entry, e
<1>7. now < entries[k].until \/ now >= entries[k].until
  BY <1>1, <1>2 DEF LimiterTypes, Entry, Limiter!Ends
<1> HIDE DEF k, now
<1>8. e.until \in Limiter!Ends /\ e.count \in Nat
  BY <1>4 DEF Entry
<1>9. /\ passed' \in [Keys -> [Limiter!Ends -> Nat]]
      /\ passed'[k][e.until] = passed[k][e.until] + 1
      /\ \A j \in Keys, u \in Limiter!Ends : ~ (j = k /\ u = e.until) => passed'[j][u] = passed[j][u]
  BY <1>1, <1>2, <1>5, <1>8 DEF LimiterTypes
<1>10. now < entries[k].until =>
         /\ entries[k].count + 1 = e.count
         /\ entries[k] # Limiter!NoEntry
  <2>1. SUFFICES ASSUME now < entries[k].until
                 PROVE  entries[k].count + 1 = e.count /\ entries[k] # Limiter!NoEntry
    OBVIOUS
  <2>2. entries[k].count \in 0 .. Limit + 1
    BY <1>1, <1>2 DEF LimiterTypes, Entry
  <2>3. e.count = IF entries[k].count <= Limit THEN entries[k].count + 1 ELSE entries[k].count
    BY <2>1, <1>4
  <2>4. entries[k].count + 1 = e.count
    BY <2>2, <2>3, <1>6, LimiterAssumption
  <2>5. entries[k] # Limiter!NoEntry
    BY <2>1, <1>2 DEF Limiter!NoEntry
  <2> QED BY <2>4, <2>5
<1>11. LimiterTypes'
  <2>1. entries' \in [Keys -> Entry]
    BY <1>3, <1>4, <1>5
  <2>2. \A j \in Keys : entries'[j] # Limiter!NoEntry => entries'[j].count > 0
    BY <1>1, <1>2, <1>3, <1>4, <1>5 DEF LimiterTypes
  <2>3. waiting' \in [Requests -> Arrived \cup {Limiter!NoRequest}]
    BY <1>1, <1>5 DEF LimiterTypes
  <2> QED BY <2>1, <2>2, <2>3, <1>1, <1>5, <1>9 DEF LimiterTypes
<1>12. Late'
  BY <1>1, <1>5 DEF Late, LimiterTypes
<1>13. Recalled'
  <2>1. SUFFICES ASSUME NEW j \in Keys, NEW u \in Limiter!Ends, u > time, passed'[j][u] > 0
                 PROVE  /\ entries'[j] # Limiter!NoEntry /\ entries'[j].until = u
                        /\ passed'[j][u] <= Least(entries'[j].count, Limit)
    BY <1>5 DEF Recalled
  <2>2. passed[j][u] > 0 =>
          /\ entries[j] # Limiter!NoEntry /\ entries[j].until = u
          /\ passed[j][u] <= Least(entries[j].count, Limit)
          /\ t[j] = entries[j]
    <3>1. SUFFICES ASSUME passed[j][u] > 0
                   PROVE  /\ entries[j] # Limiter!NoEntry /\ entries[j].until = u
                          /\ passed[j][u] <= Least(entries[j].count, Limit)
                          /\ t[j] = entries[j]
      OBVIOUS
    <3>2. /\ entries[j] # Limiter!NoEntry /\ entries[j].until = u
          /\ passed[j][u] <= Least(entries[j].count, Limit)
      BY <3>1, <2>1, <1>1 DEF Recalled
    <3>3. ~ now >= entries[j].until
      BY <3>2, <2>1, <1>2, <1>1 DEF LimiterTypes, Limiter!Ends
    <3> QED BY <3>2, <3>3, <1>3
  <2>3. CASE j # k
    <3>1. entries'[j] = t[j] /\ passed'[j][u] = passed[j][u]
      BY <2>3, <1>3, <1>5, <1>9
    <3> QED BY <3>1, <2>1, <2>2
  <2>4. CASE j = k /\ u # e.until
    <3>1. passed[k][u] > 0 /\ now < entries[k].until /\ entries[k].until = u
      BY <2>4, <2>1, <2>2, <1>9, <1>1, <1>2 DEF LimiterTypes, Limiter!Ends
    <3> QED BY <3>1, <2>4, <1>4
  <2>5. CASE j = k /\ u = e.until
    <3>1. entries'[j] = e /\ passed'[j][u] = passed[k][u] + 1 /\ passed[k][u] \in Nat
      BY <2>5, <1>3, <1>5, <1>9, <1>1 DEF LimiterTypes
    <3>2. Least(e.count, Limit) = e.count
      BY <1>6, <1>8, LimiterAssumption DEF Least
    <3>3. passed[k][u] + 1 <= e.count
      <4>1. CASE passed[k][u] = 0
        BY <4>1, <1>4, <1>8, <3>1
      <4>2. CASE passed[k][u] > 0
        <5>1. entries[k].until = u /\ passed[k][u] <= Least(entries[k].count, Limit) /\ t[k] = entries[k]
          BY <4>2, <2>2, <2>5
        <5>2. now < entries[k].until
          BY <5>1, <2>1, <1>2, <1>1 DEF LimiterTypes, Limiter!Ends
        <5>3. entries[k].count + 1 = e.count /\ entries[k].count \in 0 .. Limit + 1
          BY <5>2, <1>10, <1>1, <1>2 DEF LimiterTypes, Entry
        <5> QED BY <5>1, <5>3, <3>1, LimiterAssumption DEF Least
      <4> QED BY <4>1, <4>2, <3>1
    <3> QED BY <3>1, <3>2, <3>3, <1>4, <2>5
  <2> QED BY <2>3, <2>4, <2>5
<1>14. Earned'
  <2>1. SUFFICES ASSUME NEW j \in Keys, entries'[j] # Limiter!NoEntry
                 PROVE  passed'[j][entries'[j].until] >= Least(entries'[j].count, Limit)
    BY <1>5 DEF Earned
  <2>2. CASE j = k
    <3>1. entries'[j] = e /\ passed'[j][e.until] = passed[k][e.until] + 1 /\ passed[k][e.until] \in Nat
      BY <2>2, <1>3, <1>5, <1>8, <1>9, <1>1 DEF LimiterTypes
    <3>2. Least(e.count, Limit) = e.count
      BY <1>6, <1>8, LimiterAssumption DEF Least
    <3>3. CASE now >= entries[k].until
      BY <3>1, <3>2, <3>3, <1>4
    <3>4. CASE now < entries[k].until
      <4>1. entries[k].count + 1 = e.count /\ entries[k].count \in 0 .. Limit + 1 /\ e.until = entries[k].until
        BY <3>4, <1>4, <1>10, <1>1, <1>2 DEF LimiterTypes, Entry
      <4>2. passed[k][e.until] >= Least(entries[k].count, Limit)
        BY <4>1, <3>4, <1>10, <1>1, <1>2 DEF Earned
      <4>3. Least(entries[k].count, Limit) = entries[k].count
        BY <4>1, <1>6, LimiterAssumption DEF Least
      <4> QED BY <4>1, <4>2, <4>3, <3>1, <3>2
    <3> QED BY <3>3, <3>4, <1>7
  <2>3. CASE j # k
    <3>1. entries'[j] = t[j]
      BY <2>3, <1>3, <1>5
    <3>2. entries[j] # Limiter!NoEntry /\ entries'[j] = entries[j]
      BY <3>1, <2>1, <1>3
    <3>3. entries[j].until \in Limiter!Ends
      BY <1>1 DEF LimiterTypes, Entry
    <3> QED BY <3>2, <3>3, <2>3, <1>1, <1>9 DEF Earned
  <2> QED BY <2>2, <2>3
<1>15. Cardinality(Limiter!Live(entries))' <= Capacity
  <2>1. Limiter!Live(entries)' = Limiter!Live(t) \cup {k}
    BY <1>2, <1>3, <1>4, <1>5 DEF Limiter!Live
  <2>2. CASE t[k] = Limiter!NoEntry
    <3>1. Cardinality(Limiter!Live(t)) < Capacity
      BY <2>2, <1>3, <1>6, LimiterCardinality, LimiterAssumption DEF Limiter!Full
    <3>2. Cardinality(Limiter!Live(t) \cup {k}) = Cardinality(Limiter!Live(t)) + 1
      <4>1. k \notin Limiter!Live(t)
        BY <2>2 DEF Limiter!Live
      <4> QED BY <4>1, <1>3, FS_AddElement
    <3>3. Cardinality(Limiter!Live(t) \cup {k}) \in Nat
      BY <3>2, <1>3
    <3> QED BY <2>1, <3>1, <3>2, <3>3, <1>3, LimiterAssumption
  <2>3. CASE t[k] # Limiter!NoEntry
    <3>1. Limiter!Live(t) \cup {k} = Limiter!Live(t)
      BY <2>3, <1>2 DEF Limiter!Live
    <3> QED BY <2>1, <3>1, <1>3
  <2> QED BY <2>2, <2>3
<1> QED BY <1>11, <1>12, <1>13, <1>14, <1>15 DEF LimiterInv

LEMMA LimiterNext == LimiterInv /\ [Limiter!Next]_limiterVars => LimiterInv'
<1>1. SUFFICES ASSUME LimiterInv, [Limiter!Next]_limiterVars PROVE LimiterInv'
  OBVIOUS
<1>2. LimiterTypes /\ Late /\ Recalled /\ Earned
  BY <1>1 DEF LimiterInv
<1>3. CASE UNCHANGED limiterVars
  BY <1>1, <1>3 DEF limiterVars, LimiterInv, LimiterTypes, Late, Recalled, Earned, Limiter!Live
<1>4. ASSUME NEW r \in Requests, Limiter!Arrive(r) PROVE LimiterInv'
  <2>1. PICK k \in Keys : waiting' = [waiting EXCEPT ![r] = [phase |-> "waiting", key |-> k, now |-> time]]
    BY <1>4 DEF Limiter!Arrive
  <2>2. UNCHANGED <<entries, time, passed>>
    BY <1>4 DEF Limiter!Arrive
  <2>3. [phase |-> "waiting", key |-> k, now |-> time] \in Arrived
    BY <1>2 DEF LimiterTypes, Arrived
  <2>4. LimiterTypes'
    BY <1>2, <2>1, <2>2, <2>3 DEF LimiterTypes
  <2>5. Late'
    BY <1>2, <2>1, <2>2 DEF Late, LimiterTypes
  <2> QED BY <1>1, <2>2, <2>4, <2>5 DEF LimiterInv, Recalled, Earned, Limiter!Live
<1>5. ASSUME NEW r \in Requests, Limiter!Middleware(r) PROVE LimiterInv'
  BY <1>1, <1>5, RefusalKeeps, PassKeeps DEF Limiter!Middleware
<1>6. CASE Limiter!Tick
  <2>1. time < MaxTime /\ time' = time + 1 /\ UNCHANGED <<entries, waiting, passed>>
    BY <1>6 DEF Limiter!Tick
  <2>2. LimiterTypes'
    BY <1>2, <2>1, LimiterAssumption DEF LimiterTypes
  <2>3. Late'
    BY <1>2, <2>1 DEF Late, LimiterTypes, Arrived
  <2>4. Recalled'
    BY <1>2, <2>1 DEF Recalled, LimiterTypes, Limiter!Ends
  <2> QED BY <1>1, <2>1, <2>2, <2>3, <2>4 DEF LimiterInv, Earned, Limiter!Live
<1> QED BY <1>1, <1>3, <1>4, <1>5, <1>6 DEF Limiter!Next

\* A table at its capacity turns away who has no entry, and only for entries in force.
LEMMA RefusedForCause ==
  ASSUME LimiterInv, NEW r \in Requests, waiting[r] # Limiter!NoRequest,
         Limiter!Refused(waiting[r].key, waiting[r].now)
  PROVE  LET k == waiting[r].key
             now == waiting[r].now
         IN  \/ now < entries[k].until /\ passed[k][entries[k].until] >= Limit
             \/ Cardinality({j \in Keys \ {k} : now < entries[j].until}) >= Capacity
<1> DEFINE k == waiting[r].key
           now == waiting[r].now
           own == Limiter!WithoutOwn(k, now)
           t == Limiter!WithoutExpired(k, now)
           e == Limiter!Counted(k, now, t)
           others == {j \in Keys \ {k} : now < entries[j].until}
<1>1. LimiterTypes /\ Late /\ Earned
  BY DEF LimiterInv
<1>2. k \in Keys /\ now \in 0 .. MaxTime /\ now <= time
  BY <1>1 DEF LimiterTypes, Late, Arrived
<1>3. /\ t \in [Keys -> Entry]
      /\ \A j \in Keys : t[j] = entries[j] \/ (t[j] = Limiter!NoEntry /\ now >= entries[j].until)
      /\ t[k] = IF now >= entries[k].until THEN Limiter!NoEntry ELSE entries[k]
      /\ Cardinality(Limiter!Live(t)) \in Nat
      /\ IsFiniteSet(Limiter!Live(t))
  BY <1>2, Purged
<1>4. /\ e \in Entry /\ e.count > 0 /\ e # Limiter!NoEntry
      /\ now < entries[k].until =>
           /\ e.until = entries[k].until
           /\ e.count = IF entries[k].count <= Limit THEN entries[k].count + 1 ELSE entries[k].count
      /\ now >= entries[k].until => e.count = 1 /\ e.until = now + Window
  BY <1>2, Counting
<1>5. Limiter!Full(k, t) \/ e.count > Limit
  BY DEF Limiter!Refused, Limiter!Admitted, Limiter!Blocked
<1>6. now < entries[k].until \/ now >= entries[k].until
  BY <1>1, <1>2 DEF LimiterTypes, Entry, Limiter!Ends
<1> HIDE DEF e
<1>7. CASE e.count > Limit
  <2>1. now < entries[k].until
    BY <1>4, <1>6, <1>7, LimiterAssumption
  <2>2. entries[k].count \in 0 .. Limit + 1 /\ entries[k] # Limiter!NoEntry
    BY <2>1, <1>1, <1>2 DEF LimiterTypes, Entry, Limiter!NoEntry
  <2>3. entries[k].count >= Limit
    <3>1. e.count = IF entries[k].count <= Limit THEN entries[k].count + 1 ELSE entries[k].count
      BY <2>1, <1>4
    <3> QED BY <3>1, <2>2, <1>7, LimiterAssumption
  <2>4. Least(entries[k].count, Limit) = Limit
    BY <2>2, <2>3, LimiterAssumption DEF Least
  <2>5. passed[k][entries[k].until] >= Limit
    BY <2>2, <2>4, <1>1, <1>2 DEF Earned
  <2> QED BY <2>1, <2>5
<1>8. CASE Limiter!Full(k, t)
  <2>1. t[k] = Limiter!NoEntry /\ Cardinality(Limiter!Live(t)) >= Capacity
    BY <1>8, LimiterCardinality DEF Limiter!Full
  <2>2. \A j \in Limiter!Live(t) : j \in Keys \ {k} /\ t[j] = entries[j]
    BY <2>1, <1>3 DEF Limiter!Live
  <2>3. own[k] = Limiter!NoEntry /\ \A j \in Keys \ {k} : own[j] = entries[j]
    BY <2>1, <1>1, <1>2, <1>3 DEF Limiter!WithoutOwn, LimiterTypes
  <2>4. ASSUME ~ Cardinality(Limiter!Live(own)) >= Capacity PROVE FALSE
    <3>1. t = own
      BY <2>4, LimiterCardinality DEF Limiter!WithoutExpired
    <3> QED BY <3>1, <2>1, <2>4
  <2>5. t = [j \in Keys |-> IF now >= own[j].until THEN Limiter!NoEntry ELSE own[j]]
    BY <2>3, <2>4, LimiterCardinality DEF Limiter!WithoutExpired
  <2> HIDE DEF t, own
  <2>6. \A j \in Limiter!Live(t) : ~ now >= entries[j].until
    BY <2>2, <2>3, <2>5 DEF Limiter!Live
  <2>7. Limiter!Live(t) \subseteq others
    BY <2>2, <2>6, <1>1, <1>2 DEF LimiterTypes, Entry, Limiter!Ends
  <2>8. IsFiniteSet(others)
    BY FS_Subset, LimiterAssumption
  <2>9. Cardinality(Limiter!Live(t)) <= Cardinality(others)
    BY <2>7, <2>8, FS_Subset
  <2>10. Cardinality(others) >= Capacity
    BY <2>1, <2>8, <2>9, <1>3, FS_CardinalityType, LimiterAssumption
  <2> QED BY <2>10
<1> QED BY <1>5, <1>7, <1>8

\* The table keeps to its capacity, no key has two windows that are not over, or more
\* requests through such a window than the limit, and none is refused without cause
\* (AuthLimiter.Middleware).
THEOREM LimiterAlwaysHolds == BackOfficeSpec => []LimiterHolds
<1>1. BackOfficeInit => LimiterInv
  BY LimiterInit DEF BackOfficeInit
<1>2. [BackOfficeNext]_backOfficeVars => [Limiter!Next]_limiterVars
  BY DEF BackOfficeNext, backOfficeVars, ExpenseStep, CatalogStep, TemplateStep, ListingStep,
         ReportStep, TenantStep, LimiterStep
<1>3. LimiterInv /\ [BackOfficeNext]_backOfficeVars => LimiterInv'
  BY <1>2, LimiterNext
<1>4. LimiterInv => LimiterHolds
  <2>1. SUFFICES ASSUME LimiterInv PROVE LimiterHolds
    OBVIOUS
  <2>2. ASSUME NEW k \in Keys, NEW u \in Limiter!InForce(k), NEW v \in Limiter!InForce(k)
        PROVE  u = v /\ passed[k][u] <= Limit
    <3>1. entries[k].until = u /\ entries[k].until = v /\ passed[k][u] <= Least(entries[k].count, Limit)
      BY <2>1, <2>2 DEF LimiterInv, Recalled, Limiter!InForce, LimiterTypes, Limiter!Ends
    <3>2. entries[k].count \in Int /\ passed[k][u] \in Nat
      BY <2>1, <2>2 DEF LimiterInv, LimiterTypes, Entry, Limiter!InForce
    <3> QED BY <3>1, <3>2, LimiterAssumption DEF Least
  <2> QED BY <2>1, <2>2, RefusedForCause, LimiterCardinality DEF LimiterHolds, Limiter!LimiterHolds, LimiterInv
<1> QED BY <1>1, <1>3, <1>4, PTL DEF BackOfficeSpec
-------------------------------------------------------------------------------
(***************************************************************************)
(* Onboarding.  What a transaction wrote before it commits is, row by row, *)
(* what its phase says (Wrote); ids and emails are unique among all rows,  *)
(* of whoever (Numbered, OneEach).  What others see changes in a commit    *)
(* only, and then by all the rows of one transaction at once: that is why  *)
(* each business is whole.                                                 *)
(***************************************************************************)
Writers == Requests \cup {Done}
Addresses == {Lower[e] : e \in Emails}
Roles == {"ADMIN", "LAUNDRY_STAFF"}
Actions == {"OWNER_REGISTERED", "AUTH_SESSION_CREATED", "BUSINESS_PROVISIONED", "STAFF_CREATED"}
TenantPhases == {"idle", "called", "outlet", "tenant", "done"}

Businesses == [id : Nat, by : Writers]
OutletRows == [business : Nat, code : {1}, by : Writers]
UserRows == [business : Nat, email : Addresses, role : Roles, by : Writers]
Assignments == [business : Nat, email : Addresses, code : {1}, by : Writers]
Families == [business : Nat, email : Addresses, by : Writers]
Trails == [business : Nat, action : Actions, by : Writers]
TenantTx == [phase : TenantPhases, call : Calls \cup {NoCall}, id : Nat]

TenantTypes ==
  /\ business \subseteq Businesses /\ outlet \subseteq OutletRows /\ user \subseteq UserRows
  /\ assignment \subseteq Assignments /\ family \subseteq Families /\ trail \subseteq Trails
  /\ counter \in [Ids -> {0, 1}]
  /\ nextId \in Nat \ {0}
  /\ tx \in [Requests -> TenantTx]

\* The rows of one writer; what is committed is nobody's.
Own(stored, w) == {row \in stored : row.by = w}

Hires(r) == tx[r].call.op = "HIRE"
BusinessOf(r) == [id |-> tx[r].id, by |-> r]
FirstOutletOf(r) == [business |-> tx[r].id, code |-> 1, by |-> r]
UserOf(r) ==
  [business |-> tx[r].id, email |-> Lower[tx[r].call.email],
   role |-> IF Hires(r) THEN "LAUNDRY_STAFF" ELSE "ADMIN", by |-> r]
AssignmentOf(r) ==
  [business |-> tx[r].id, email |-> Lower[tx[r].call.email], code |-> 1, by |-> r]
FamilyOf(r) == [business |-> tx[r].id, email |-> Lower[tx[r].call.email], by |-> r]
ActionsOf(r) ==
  CASE tx[r].call.op = "REGISTER" -> {"OWNER_REGISTERED", "AUTH_SESSION_CREATED"}
    [] tx[r].call.op = "PROVISION" -> {"BUSINESS_PROVISIONED"}
    [] tx[r].call.op = "HIRE" -> {"STAFF_CREATED"}
TrailOf(r) == {[business |-> tx[r].id, action |-> a, by |-> r] : a \in ActionsOf(r)}

When(condition, written) == IF condition THEN written ELSE {}

\* What is there of r is what its phase says.
Wrote(r) ==
  /\ Own(business, r) =
       When(tx[r].phase \in {"outlet", "tenant", "done"} /\ ~ Hires(r), {BusinessOf(r)})
  /\ Own(outlet, r) =
       When(tx[r].phase \in {"outlet", "tenant", "done"} /\ ~ Hires(r), {FirstOutletOf(r)})
  /\ Own(user, r) = When(tx[r].phase \in {"tenant", "done"}, {UserOf(r)})
  /\ Own(assignment, r) = When(tx[r].phase \in {"tenant", "done"}, {AssignmentOf(r)})
  /\ Own(family, r) = When(tx[r].phase = "done" /\ tx[r].call.op = "REGISTER", {FamilyOf(r)})
  /\ Own(trail, r) = When(tx[r].phase = "done", TrailOf(r))

\* A call is about what it may be about: staff are hired by a business that is there.
Called(r) ==
  /\ tx[r].phase # "idle" => tx[r].call \in Calls
  /\ tx[r].phase \in {"outlet", "tenant"} => ~ Hires(r)
  /\ tx[r].phase # "idle" /\ Hires(r) => [id |-> tx[r].id, by |-> Done] \in business

\* Ids are given once, and the counter of a business goes with its row.
Numbered ==
  /\ \A x \in business : x.id < nextId
  /\ \A x, y \in business : x.id = y.id => x = y
  /\ \A b \in Ids : counter[b] = 1 <=> \E x \in business : x.id = b

\* Of all users, committed or not, one has an email.
OneEach == \A u, v \in user : u.email = v.email => u = v

TenantInv ==
  /\ TenantTypes
  /\ \A r \in Requests : Wrote(r) /\ Called(r)
  /\ Numbered /\ OneEach
  /\ TenantsWhole
----------------------------------------------------------------------------
(***************************************************************************)
(* Rows and their writers                                                  *)
(***************************************************************************)
LEMMA CommittedIsOwn == ASSUME NEW stored PROVE Committed(stored) = Own(stored, Done)
  BY DEF Committed, Own

\* One writer adds rows.
Adds(stored, after, w) == stored \subseteq after /\ \A row \in after \ stored : row.by = w

LEMMA AddsFacts ==
  ASSUME NEW stored, NEW after, NEW w, Adds(stored, after, w)
  PROVE  \A v : v # w => Own(after, v) = Own(stored, v)
  BY DEF Adds, Own

LEMMA AddingNone == ASSUME NEW stored, NEW w PROVE Adds(stored, stored, w)
  BY DEF Adds

LEMMA OwnUndone ==
  ASSUME NEW stored, NEW w
  PROVE  /\ Own(Undone(stored, w), w) = {}
         /\ \A v : v # w => Own(Undone(stored, w), v) = Own(stored, v)
  BY DEF Own, Undone

LEMMA OwnSeen ==
  ASSUME NEW stored, NEW r, r # Done, \A row \in stored : [row EXCEPT !.by = Done].by = Done
  PROVE  /\ Own(Seen(stored, r), r) = {}
         /\ Own(Seen(stored, r), Done) =
              Own(stored, Done) \cup {[row EXCEPT !.by = Done] : row \in Own(stored, r)}
         /\ \A v : v \notin {r, Done} => Own(Seen(stored, r), v) = Own(stored, v)
  <1> DEFINE shown(row) == IF row.by = r THEN [row EXCEPT !.by = Done] ELSE row
  <1>1. Seen(stored, r) = {shown(row) : row \in stored}
    BY DEF Seen
  <1>2. ASSUME NEW row \in stored
        PROVE  /\ row.by = r => shown(row) = [row EXCEPT !.by = Done] /\ shown(row).by = Done
               /\ row.by # r => shown(row) = row
    OBVIOUS
  <1> HIDE DEF shown
  <1>3. Own(Seen(stored, r), r) = {}
    <2> SUFFICES ASSUME NEW row \in stored, shown(row).by = r PROVE FALSE
      BY <1>1 DEF Own
    <2> QED BY <1>2
  <1>4. Own(Seen(stored, r), Done) =
          Own(stored, Done) \cup {[row EXCEPT !.by = Done] : row \in Own(stored, r)}
    BY <1>1, <1>2 DEF Own
  <1>5. ASSUME NEW v, v \notin {r, Done} PROVE Own(Seen(stored, r), v) = Own(stored, v)
    BY <1>1, <1>2, <1>5 DEF Own
  <1> QED BY <1>3, <1>4, <1>5

\* What TenantsWhole says is about committed rows only.
LEMMA SameWhole ==
  ASSUME TenantsWhole,
         Committed(business') = Committed(business), Committed(outlet') = Committed(outlet),
         Committed(user') = Committed(user), Committed(assignment') = Committed(assignment),
         Committed(family') = Committed(family), Committed(trail') = Committed(trail)
  PROVE  TenantsWhole'
  <1>1. ASSUME NEW b
        PROVE  /\ Of(outlet, b)' = Of(outlet, b) /\ Of(user, b)' = Of(user, b)
               /\ Of(assignment, b)' = Of(assignment, b) /\ Of(family, b)' = Of(family, b)
               /\ Of(trail, b)' = Of(trail, b) /\ Told(b)' = Told(b)
    BY DEF Of, Told
  <1>2. ASSUME NEW b, Whole(b) PROVE Whole(b)'
    BY <1>1, <1>2 DEF Whole
  <1>3. ASSUME NEW b PROVE [id |-> b, by |-> Done] \in business' <=> [id |-> b, by |-> Done] \in business
    <2>1. [id |-> b, by |-> Done].by = Done
      OBVIOUS
    <2> QED BY <2>1 DEF Committed
  <1> QED BY <1>2, <1>3 DEF TenantsWhole
----------------------------------------------------------------------------
(***************************************************************************)
(* What the steps do                                                       *)
(***************************************************************************)
LEMMA CallType ==
  ASSUME NEW c \in Calls
  PROVE  /\ c.email \in Emails /\ Lower[c.email] \in Addresses
         /\ c.op \in {"REGISTER", "PROVISION", "HIRE"}
         /\ c.op = "HIRE" => c.business \in Ids
  BY DEF Calls, Addresses

LEMMA IdleType == Idle \in TenantTx /\ Idle.phase = "idle"
  BY DEF Idle, TenantTx, TenantPhases

LEMMA RowTypes ==
  /\ \A row \in Businesses : [row EXCEPT !.by = Done] \in Businesses /\ [row EXCEPT !.by = Done].by = Done
  /\ \A row \in OutletRows : [row EXCEPT !.by = Done] \in OutletRows /\ [row EXCEPT !.by = Done].by = Done
  /\ \A row \in UserRows : [row EXCEPT !.by = Done] \in UserRows /\ [row EXCEPT !.by = Done].by = Done
  /\ \A row \in Assignments :
       [row EXCEPT !.by = Done] \in Assignments /\ [row EXCEPT !.by = Done].by = Done
  /\ \A row \in Families : [row EXCEPT !.by = Done] \in Families /\ [row EXCEPT !.by = Done].by = Done
  /\ \A row \in Trails : [row EXCEPT !.by = Done] \in Trails /\ [row EXCEPT !.by = Done].by = Done
  BY DEF Businesses, OutletRows, UserRows, Assignments, Families, Trails, Writers

\* The rows that r writes have their types.
LEMMA WrittenType ==
  ASSUME TenantTypes, NEW r \in Requests, tx[r].call \in Calls
  PROVE  /\ BusinessOf(r) \in Businesses /\ FirstOutletOf(r) \in OutletRows /\ UserOf(r) \in UserRows
         /\ AssignmentOf(r) \in Assignments /\ FamilyOf(r) \in Families
         /\ TrailOf(r) \subseteq Trails
  <1>1. tx[r].id \in Nat /\ Lower[tx[r].call.email] \in Addresses /\ r \in Writers
    BY CallType DEF TenantTypes, TenantTx, Writers
  <1>2. ActionsOf(r) \subseteq Actions
    BY CallType DEF ActionsOf, Actions
  <1>3. BusinessOf(r) \in Businesses /\ FirstOutletOf(r) \in OutletRows
    BY <1>1 DEF BusinessOf, Businesses, FirstOutletOf, OutletRows
  <1>4. UserOf(r) \in UserRows /\ AssignmentOf(r) \in Assignments /\ FamilyOf(r) \in Families
    BY <1>1 DEF UserOf, UserRows, Roles, AssignmentOf, Assignments, FamilyOf, Families
  <1>5. TrailOf(r) \subseteq Trails
    BY <1>1, <1>2 DEF TrailOf, Trails
  <1> QED BY <1>3, <1>4, <1>5

LEMMA MoveFacts ==
  ASSUME TenantTypes, NEW r \in Requests, NEW p \in TenantPhases, Move(r, p)
  PROVE  /\ tx' \in [Requests -> TenantTx]
         /\ tx'[r].phase = p /\ tx'[r].call = tx[r].call /\ tx'[r].id = tx[r].id
         /\ \A s \in Requests \ {r} : tx'[s] = tx[s]
  <1>1. tx \in [Requests -> TenantTx] BY DEF TenantTypes
  <1> QED BY <1>1 DEF Move, TenantTx

LEMMA FinishFacts ==
  ASSUME TenantTypes, NEW r \in Requests, Finish(r)
  PROVE  /\ tx' \in [Requests -> TenantTx] /\ tx'[r] = Idle
         /\ \A s \in Requests \ {r} : tx'[s] = tx[s]
  BY IdleType DEF TenantTypes, Finish

LEMMA CallFacts ==
  ASSUME TenantTypes, NEW r \in Requests, Call(r)
  PROVE  \E c \in Calls :
           /\ tx' \in [Requests -> TenantTx]
           /\ tx'[r].phase = "called" /\ tx'[r].call = c
           /\ c.op = "HIRE" => [id |-> tx'[r].id, by |-> Done] \in business
           /\ tx[r].phase = "idle"
           /\ \A s \in Requests \ {r} : tx'[s] = tx[s]
           /\ UNCHANGED tables
  <1>1. PICK c \in Calls :
          /\ c.op = "HIRE" => [id |-> c.business, by |-> Done] \in business
          /\ tx' = [tx EXCEPT ![r] = [phase |-> "called", call |-> c,
                                      id |-> IF c.op = "HIRE" THEN c.business ELSE 0]]
    BY DEF Call
  <1> DEFINE x == [phase |-> "called", call |-> c, id |-> IF c.op = "HIRE" THEN c.business ELSE 0]
  <1>2. x \in TenantTx /\ x.phase = "called" /\ x.call = c /\ (c.op = "HIRE" => x.id = c.business)
    BY CallType, OnboardingAssumption DEF TenantTx, TenantPhases, Ids
  <1>3. tx' = [tx EXCEPT ![r] = x]
    BY <1>1
  <1> HIDE DEF x
  <1>4. tx' \in [Requests -> TenantTx] /\ tx'[r] = x /\ \A s \in Requests \ {r} : tx'[s] = tx[s]
    BY <1>2, <1>3 DEF TenantTypes
  <1>5. c.op = "HIRE" => [id |-> tx'[r].id, by |-> Done] \in business
    BY <1>1, <1>2, <1>4
  <1> QED BY <1>2, <1>4, <1>5 DEF Call

LEMMA CreateTenantFacts ==
  ASSUME TenantTypes, NEW r \in Requests, Called(r), createTenant(r)
  PROVE  /\ tx' \in [Requests -> TenantTx]
         /\ tx'[r].phase = "outlet" /\ tx'[r].call = tx[r].call /\ tx'[r].id = nextId
         /\ \A s \in Requests \ {r} : tx'[s] = tx[s]
         /\ nextId \in Ids
         /\ business' = business \cup {BusinessOf(r)'}
         /\ outlet' = outlet \cup {[business |-> nextId, code |-> counter'[nextId], by |-> r]}
         /\ counter' = [counter EXCEPT ![nextId] = @ + 1] /\ nextId' = nextId + 1
         /\ UNCHANGED <<user, assignment, family, trail>>
  <1>1. nextId \in Ids
    BY OnboardingAssumption DEF createTenant, TenantTypes, Ids
  <1>2. /\ tx' \in [Requests -> TenantTx]
        /\ tx'[r].phase = "outlet" /\ tx'[r].call = tx[r].call /\ tx'[r].id = nextId
        /\ \A s \in Requests \ {r} : tx'[s] = tx[s]
    BY DEF createTenant, TenantTypes, TenantTx, TenantPhases
  <1>3. BusinessOf(r)' = [id |-> nextId, by |-> r]
    BY <1>2 DEF BusinessOf
  <1> QED BY <1>1, <1>2, <1>3
          DEF createTenant, PlatformCreateBusiness, CreateOutlet, AllocateOutletCode

LEMMA FirstAdminFacts ==
  ASSUME TenantTypes, NEW r \in Requests, Called(r), FirstAdmin(r)
  PROVE  /\ tx' \in [Requests -> TenantTx]
         /\ tx[r].phase = "outlet" /\ ~ Hires(r) /\ tx[r].call \in Calls
         /\ tx'[r].phase = "tenant" /\ tx'[r].call = tx[r].call /\ tx'[r].id = tx[r].id
         /\ \A s \in Requests \ {r} : tx'[s] = tx[s]
         /\ user' = user \cup {UserOf(r)} /\ assignment' = assignment \cup {AssignmentOf(r)}
         /\ UNCHANGED <<business, counter, outlet, family, trail, nextId>>
  <1>1. tx[r].phase = "outlet" /\ ~ Hires(r) /\ tx[r].call \in Calls /\ Move(r, "tenant")
    BY DEF FirstAdmin, Called
  <1>2. UserOf(r) = [business |-> tx[r].id, email |-> Lower[tx[r].call.email], role |-> "ADMIN", by |-> r]
    BY <1>1 DEF UserOf
  <1> QED BY <1>1, <1>2, MoveFacts
          DEF FirstAdmin, PlatformCreateFirstAdmin, InsertUser, AddStaffOutlet, AssignmentOf, TenantPhases

LEMMA CreateStaffFacts ==
  ASSUME TenantTypes, NEW r \in Requests, Called(r), CreateStaff(r)
  PROVE  /\ tx' \in [Requests -> TenantTx]
         /\ tx[r].phase = "called" /\ Hires(r) /\ tx[r].call \in Calls
         /\ tx'[r].phase = "done" /\ tx'[r].call = tx[r].call /\ tx'[r].id = tx[r].id
         /\ \A s \in Requests \ {r} : tx'[s] = tx[s]
         /\ user' = user \cup {UserOf(r)} /\ assignment' = assignment \cup {AssignmentOf(r)}
         /\ trail' = trail \cup TrailOf(r)
         /\ UNCHANGED <<business, counter, outlet, family, nextId>>
  <1>1. tx[r].phase = "called" /\ Hires(r) /\ tx[r].call \in Calls /\ Move(r, "done")
    BY DEF CreateStaff, Called, Hires
  <1>2. /\ UserOf(r) = [business |-> tx[r].id, email |-> Lower[tx[r].call.email],
                        role |-> "LAUNDRY_STAFF", by |-> r]
        /\ TrailOf(r) = {[business |-> tx[r].id, action |-> a, by |-> r] : a \in {"STAFF_CREATED"}}
    BY <1>1 DEF UserOf, TrailOf, ActionsOf, Hires
  <1> QED BY <1>1, <1>2, MoveFacts
          DEF CreateStaff, InsertUser, AddStaffOutlet, InsertAuditLog, AssignmentOf, TenantPhases

LEMMA RegisterFacts ==
  ASSUME TenantTypes, NEW r \in Requests, Called(r), Register(r)
  PROVE  /\ tx' \in [Requests -> TenantTx]
         /\ tx[r].phase = "tenant" /\ tx[r].call.op = "REGISTER" /\ tx[r].call \in Calls
         /\ tx'[r].phase = "done" /\ tx'[r].call = tx[r].call /\ tx'[r].id = tx[r].id
         /\ \A s \in Requests \ {r} : tx'[s] = tx[s]
         /\ family' = family \cup {FamilyOf(r)} /\ trail' = trail \cup TrailOf(r)
         /\ UNCHANGED <<business, counter, outlet, user, assignment, nextId>>
  <1>1. /\ tx[r].phase = "tenant" /\ tx[r].call.op = "REGISTER" /\ tx[r].call \in Calls
        /\ Move(r, "done")
    BY DEF Register, Called
  <1> QED BY <1>1, MoveFacts
          DEF Register, CreateSession, InsertAuditLog, FamilyOf, TrailOf, ActionsOf, TenantPhases

LEMMA ProvisionFacts ==
  ASSUME TenantTypes, NEW r \in Requests, Called(r), Provision(r)
  PROVE  /\ tx' \in [Requests -> TenantTx]
         /\ tx[r].phase = "tenant" /\ tx[r].call.op = "PROVISION" /\ tx[r].call \in Calls
         /\ tx'[r].phase = "done" /\ tx'[r].call = tx[r].call /\ tx'[r].id = tx[r].id
         /\ \A s \in Requests \ {r} : tx'[s] = tx[s]
         /\ trail' = trail \cup TrailOf(r)
         /\ UNCHANGED <<business, counter, outlet, user, assignment, family, nextId>>
  <1>1. /\ tx[r].phase = "tenant" /\ tx[r].call.op = "PROVISION" /\ tx[r].call \in Calls
        /\ Move(r, "done")
    BY DEF Provision, Called
  <1>2. TrailOf(r) =
          {[business |-> tx[r].id, action |-> a, by |-> r] : a \in {"BUSINESS_PROVISIONED"}}
    BY <1>1 DEF TrailOf, ActionsOf
  <1> QED BY <1>1, <1>2, MoveFacts DEF Provision, InsertAuditLog, TenantPhases

\* A row that is committed is there with or without the rows of requests.
LEMMA CommittedRow ==
  ASSUME NEW stored, NEW b
  PROVE  [id |-> b, by |-> Done] \in stored <=> [id |-> b, by |-> Done] \in Own(stored, Done)
  <1>1. [id |-> b, by |-> Done].by = Done
    OBVIOUS
  <1> QED BY <1>1 DEF Own

\* A request that goes on alone changes nothing of the others.
LEMMA OthersStay ==
  ASSUME NEW s \in Requests, Wrote(s), Called(s), tx'[s] = tx[s],
         Own(business', s) = Own(business, s), Own(outlet', s) = Own(outlet, s),
         Own(user', s) = Own(user, s), Own(assignment', s) = Own(assignment, s),
         Own(family', s) = Own(family, s), Own(trail', s) = Own(trail, s),
         \A b : [id |-> b, by |-> Done] \in business => [id |-> b, by |-> Done] \in business'
  PROVE  Wrote(s)' /\ Called(s)'
  <1>1. Hires(s)' = Hires(s) /\ BusinessOf(s)' = BusinessOf(s) /\ FirstOutletOf(s)' = FirstOutletOf(s)
        /\ AssignmentOf(s)' = AssignmentOf(s) /\ FamilyOf(s)' = FamilyOf(s)
    BY DEF Hires, BusinessOf, FirstOutletOf, AssignmentOf, FamilyOf
  <1>2. UserOf(s)' = UserOf(s)
    BY <1>1 DEF UserOf
  <1>3. TrailOf(s)' = TrailOf(s)
    <2>1. ActionsOf(s)' = ActionsOf(s)
      BY DEF ActionsOf
    <2> QED BY <2>1 DEF TrailOf
  <1>4. Wrote(s)'
    BY <1>1, <1>2, <1>3 DEF Wrote
  <1>5. Called(s)'
    BY <1>1 DEF Called
  <1> QED BY <1>4, <1>5

\* Rows that a request adds show in what is its own, and nowhere else.
LEMMA AddedByOne ==
  ASSUME NEW r \in Requests, TenantsWhole,
         \A s \in Requests \ {r} : Wrote(s) /\ Called(s) /\ tx'[s] = tx[s],
         Adds(business, business', r), Adds(outlet, outlet', r), Adds(user, user', r),
         Adds(assignment, assignment', r), Adds(family, family', r), Adds(trail, trail', r)
  PROVE  /\ \A s \in Requests \ {r} : Wrote(s)' /\ Called(s)'
         /\ TenantsWhole'
         /\ \A n : [id |-> n, by |-> Done] \in business => [id |-> n, by |-> Done] \in business'
  <1>1. ASSUME NEW v, v # r
        PROVE  /\ Own(business', v) = Own(business, v) /\ Own(outlet', v) = Own(outlet, v)
               /\ Own(user', v) = Own(user, v) /\ Own(assignment', v) = Own(assignment, v)
               /\ Own(family', v) = Own(family, v) /\ Own(trail', v) = Own(trail, v)
    BY <1>1, AddsFacts
  <1>2. r # Done
    BY OnboardingAssumption
  <1>3. \A n : [id |-> n, by |-> Done] \in business => [id |-> n, by |-> Done] \in business'
    BY DEF Adds
  <1>4. \A s \in Requests \ {r} : Wrote(s)' /\ Called(s)'
    BY <1>1, <1>3, OthersStay
  <1>5. TenantsWhole'
    BY <1>1, <1>2, CommittedIsOwn, SameWhole
  <1> QED BY <1>3, <1>4, <1>5
----------------------------------------------------------------------------
(***************************************************************************)
(* Steps within a transaction                                              *)
(***************************************************************************)
\* A record that is its request's keeps what it wrote when the phase moves on.
LEMMA SameRows ==
  ASSUME NEW r, tx'[r].call = tx[r].call, tx'[r].id = tx[r].id
  PROVE  /\ Hires(r)' = Hires(r) /\ BusinessOf(r)' = BusinessOf(r) /\ FirstOutletOf(r)' = FirstOutletOf(r)
         /\ UserOf(r)' = UserOf(r) /\ AssignmentOf(r)' = AssignmentOf(r)
         /\ FamilyOf(r)' = FamilyOf(r) /\ TrailOf(r)' = TrailOf(r)
  <1>1. /\ Hires(r)' = Hires(r) /\ BusinessOf(r)' = BusinessOf(r) /\ FirstOutletOf(r)' = FirstOutletOf(r)
        /\ AssignmentOf(r)' = AssignmentOf(r) /\ FamilyOf(r)' = FamilyOf(r)
    BY DEF Hires, BusinessOf, FirstOutletOf, AssignmentOf, FamilyOf
  <1>2. UserOf(r)' = UserOf(r)
    BY <1>1 DEF UserOf
  <1>3. ActionsOf(r)' = ActionsOf(r)
    BY DEF ActionsOf
  <1>4. TrailOf(r)' = TrailOf(r)
    BY <1>3 DEF TrailOf
  <1> QED BY <1>1, <1>2, <1>4

LEMMA RowsAreTheirs ==
  ASSUME NEW r
  PROVE  /\ BusinessOf(r).by = r /\ FirstOutletOf(r).by = r /\ UserOf(r).by = r
         /\ AssignmentOf(r).by = r /\ FamilyOf(r).by = r /\ \A row \in TrailOf(r) : row.by = r
  BY DEF BusinessOf, FirstOutletOf, UserOf, AssignmentOf, FamilyOf, TrailOf

LEMMA CallStep ==
  ASSUME TenantInv, NEW r \in Requests, Call(r)
  PROVE  TenantInv'
  <1>1. PICK c \in Calls :
          /\ tx' \in [Requests -> TenantTx]
          /\ tx'[r].phase = "called" /\ tx'[r].call = c
          /\ c.op = "HIRE" => [id |-> tx'[r].id, by |-> Done] \in business
          /\ tx[r].phase = "idle"
          /\ \A s \in Requests \ {r} : tx'[s] = tx[s]
          /\ UNCHANGED tables
    BY CallFacts DEF TenantInv
  <1>2. TenantTypes'
    BY <1>1 DEF TenantInv, TenantTypes, tables
  <1>3. \A s \in Requests \ {r} : Wrote(s)' /\ Called(s)'
    BY <1>1, OthersStay DEF TenantInv, tables
  <1>4. Wrote(r)'
    BY <1>1 DEF TenantInv, Wrote, When, tables, Own
  <1>5. Called(r)'
    BY <1>1 DEF Called, Hires, tables
  <1>6. Numbered' /\ OneEach'
    BY <1>1 DEF TenantInv, Numbered, OneEach, tables
  <1>7. TenantsWhole'
    BY <1>1, SameWhole DEF TenantInv, tables
  <1> QED BY <1>2, <1>3, <1>4, <1>5, <1>6, <1>7 DEF TenantInv

LEMMA CreateTenantStep ==
  ASSUME TenantInv, NEW r \in Requests, createTenant(r)
  PROVE  TenantInv'
  <1>1. /\ tx' \in [Requests -> TenantTx]
        /\ tx'[r].phase = "outlet" /\ tx'[r].call = tx[r].call /\ tx'[r].id = nextId
        /\ \A s \in Requests \ {r} : tx'[s] = tx[s]
        /\ nextId \in Ids
        /\ business' = business \cup {BusinessOf(r)'}
        /\ outlet' = outlet \cup {[business |-> nextId, code |-> counter'[nextId], by |-> r]}
        /\ counter' = [counter EXCEPT ![nextId] = @ + 1] /\ nextId' = nextId + 1
        /\ UNCHANGED <<user, assignment, family, trail>>
    BY CreateTenantFacts DEF TenantInv
  <1>2. tx[r].phase = "called" /\ ~ Hires(r) /\ tx[r].call \in Calls
    BY DEF createTenant, Hires, TenantInv, Called
  <1>3. counter[nextId] = 0 /\ counter' \in [Ids -> {0, 1}] /\ counter'[nextId] = 1
    <2>1. nextId \in Nat /\ counter \in [Ids -> {0, 1}] /\ business \subseteq Businesses
      BY DEF TenantInv, TenantTypes
    <2>2. ~ \E x \in business : x.id = nextId
      BY <2>1 DEF TenantInv, Numbered, Businesses
    <2>3. counter[nextId] = 0
      BY <1>1, <2>1, <2>2 DEF TenantInv, Numbered
    <2> QED BY <1>1, <2>1, <2>3
  <1>4. BusinessOf(r)' = [id |-> nextId, by |-> r] /\ FirstOutletOf(r)' = [business |-> nextId, code |-> 1, by |-> r]
    BY <1>1 DEF BusinessOf, FirstOutletOf
  <1>5. outlet' = outlet \cup {FirstOutletOf(r)'}
    BY <1>1, <1>3, <1>4
  <1>6. BusinessOf(r)'.by = r /\ FirstOutletOf(r)'.by = r
    BY <1>4
  <1>7. /\ Adds(business, business', r) /\ Own(business', r) = Own(business, r) \cup {BusinessOf(r)'}
        /\ Adds(outlet, outlet', r) /\ Own(outlet', r) = Own(outlet, r) \cup {FirstOutletOf(r)'}
    BY <1>1, <1>5, <1>6 DEF Adds, Own
  <1>8. /\ Adds(user, user', r) /\ Adds(assignment, assignment', r)
        /\ Adds(family, family', r) /\ Adds(trail, trail', r)
    BY <1>1, AddingNone
  <1>9. (\A s \in Requests \ {r} : Wrote(s)' /\ Called(s)') /\ TenantsWhole'
    BY <1>1, <1>7, <1>8, AddedByOne DEF TenantInv
  <1>10. Wrote(r)
    BY DEF TenantInv
  <1>11. Hires(r)' = Hires(r)
    BY <1>1 DEF Hires
  <1>12. Wrote(r)'
    BY <1>1, <1>2, <1>7, <1>10, <1>11 DEF Wrote, When
  <1>13. Called(r)'
    BY <1>1, <1>2, <1>11 DEF Called
  <1>14. TenantTypes'
    <2>1. r \in Writers /\ nextId \in Nat \ {0} /\ nextId' \in Nat \ {0}
      BY <1>1 DEF Writers, TenantInv, TenantTypes
    <2>2. BusinessOf(r)' \in Businesses /\ FirstOutletOf(r)' \in OutletRows
      BY <1>4, <2>1 DEF Businesses, OutletRows
    <2> QED BY <1>1, <1>3, <1>5, <2>1, <2>2 DEF TenantInv, TenantTypes
  <1>15. Numbered'
    <2>1. nextId \in Nat /\ \A x \in business : x.id \in Nat /\ x.id < nextId
      BY DEF TenantInv, TenantTypes, Numbered, Businesses
    <2>2. BusinessOf(r)'.id = nextId
      BY <1>4
    <2>3. \A x \in business' : x.id < nextId'
      BY <1>1, <2>1, <2>2
    <2>4. \A x, y \in business' : x.id = y.id => x = y
      BY <1>1, <2>1, <2>2 DEF TenantInv, Numbered
    <2>5. ASSUME NEW n \in Ids PROVE counter'[n] = 1 <=> \E x \in business' : x.id = n
      <3>1. CASE n = nextId
        BY <1>1, <1>3, <2>2, <3>1
      <3>2. CASE n # nextId
        <4>1. counter'[n] = counter[n]
          BY <1>1, <3>2 DEF TenantInv, TenantTypes
        <4> QED BY <1>1, <2>2, <3>2, <4>1 DEF TenantInv, Numbered
      <3> QED BY <3>1, <3>2
    <2> QED BY <2>3, <2>4, <2>5 DEF Numbered
  <1>16. OneEach'
    BY <1>1 DEF TenantInv, OneEach
  <1> QED BY <1>9, <1>12, <1>13, <1>14, <1>15, <1>16 DEF TenantInv

\* The user of a request is the only one with that email: nobody has committed it, no
\* other transaction holds it, and this one has no user yet.
LEMMA EmailIsNew ==
  ASSUME TenantInv, NEW r \in Requests, tx[r].phase \in {"called", "outlet"},
         ~ EmailHeld(r, tx[r].call.email), ~ EmailTaken(tx[r].call.email)
  PROVE  \A u \in user : u.email # UserOf(r).email
  <1> SUFFICES ASSUME NEW u \in user, u.email = UserOf(r).email PROVE FALSE
    OBVIOUS
  <1>1. u.email = Lower[tx[r].call.email]
    BY DEF UserOf
  <1>2. Own(user, r) = {}
    BY DEF TenantInv, Wrote, When
  <1>3. u.by # r
    BY <1>2 DEF Own
  <1>4. u.by = Done
    BY <1>1, <1>3 DEF EmailHeld
  <1> QED BY <1>1, <1>4 DEF EmailTaken, Committed

\* Without a change of businesses and counters, Numbered stays, and so does OneEach
\* with a user whose email is new.
LEMMA NumberedStays ==
  ASSUME Numbered, UNCHANGED <<business, counter, nextId>>
  PROVE  Numbered'
  BY DEF Numbered

LEMMA OneMore ==
  ASSUME OneEach, NEW u, \A v \in user : v.email # u.email, user' = user \cup {u}
  PROVE  OneEach'
  BY DEF OneEach

LEMMA FirstAdminStep ==
  ASSUME TenantInv, NEW r \in Requests, FirstAdmin(r)
  PROVE  TenantInv'
  <1>1. /\ tx' \in [Requests -> TenantTx]
        /\ tx[r].phase = "outlet" /\ ~ Hires(r) /\ tx[r].call \in Calls
        /\ tx'[r].phase = "tenant" /\ tx'[r].call = tx[r].call /\ tx'[r].id = tx[r].id
        /\ \A s \in Requests \ {r} : tx'[s] = tx[s]
        /\ user' = user \cup {UserOf(r)} /\ assignment' = assignment \cup {AssignmentOf(r)}
        /\ UNCHANGED <<business, counter, outlet, family, trail, nextId>>
    BY FirstAdminFacts DEF TenantInv
  <1>2. /\ Adds(user, user', r) /\ Own(user', r) = Own(user, r) \cup {UserOf(r)}
        /\ Adds(assignment, assignment', r)
        /\ Own(assignment', r) = Own(assignment, r) \cup {AssignmentOf(r)}
    BY <1>1, RowsAreTheirs DEF Adds, Own
  <1>3. /\ Adds(business, business', r) /\ Adds(outlet, outlet', r)
        /\ Adds(family, family', r) /\ Adds(trail, trail', r)
    BY <1>1, AddingNone
  <1>4. (\A s \in Requests \ {r} : Wrote(s)' /\ Called(s)') /\ TenantsWhole'
    BY <1>1, <1>2, <1>3, AddedByOne DEF TenantInv
  <1>5. Wrote(r) /\ Called(r)
    BY DEF TenantInv
  <1>6. Wrote(r)'
    BY <1>1, <1>2, <1>5, SameRows DEF Wrote, When
  <1>7. Called(r)'
    BY <1>1, <1>5, SameRows DEF Called
  <1>8. TenantTypes'
    BY <1>1, WrittenType DEF TenantInv, TenantTypes
  <1>9. OneEach'
    BY <1>1, EmailIsNew, OneMore DEF FirstAdmin, TenantInv
  <1> QED BY <1>1, <1>4, <1>6, <1>7, <1>8, <1>9, NumberedStays DEF TenantInv

LEMMA CreateStaffStep ==
  ASSUME TenantInv, NEW r \in Requests, CreateStaff(r)
  PROVE  TenantInv'
  <1>1. /\ tx' \in [Requests -> TenantTx]
        /\ tx[r].phase = "called" /\ Hires(r) /\ tx[r].call \in Calls
        /\ tx'[r].phase = "done" /\ tx'[r].call = tx[r].call /\ tx'[r].id = tx[r].id
        /\ \A s \in Requests \ {r} : tx'[s] = tx[s]
        /\ user' = user \cup {UserOf(r)} /\ assignment' = assignment \cup {AssignmentOf(r)}
        /\ trail' = trail \cup TrailOf(r)
        /\ UNCHANGED <<business, counter, outlet, family, nextId>>
    BY CreateStaffFacts DEF TenantInv
  <1>2. /\ Adds(user, user', r) /\ Own(user', r) = Own(user, r) \cup {UserOf(r)}
        /\ Adds(assignment, assignment', r)
        /\ Own(assignment', r) = Own(assignment, r) \cup {AssignmentOf(r)}
        /\ Adds(trail, trail', r) /\ Own(trail', r) = Own(trail, r) \cup TrailOf(r)
    BY <1>1, RowsAreTheirs DEF Adds, Own
  <1>3. Adds(business, business', r) /\ Adds(outlet, outlet', r) /\ Adds(family, family', r)
    BY <1>1, AddingNone
  <1>4. /\ \A s \in Requests \ {r} : Wrote(s)' /\ Called(s)'
        /\ TenantsWhole'
    BY <1>1, <1>2, <1>3, AddedByOne DEF TenantInv
  <1>5. Wrote(r) /\ Called(r)
    BY DEF TenantInv
  <1>6. tx[r].call.op # "REGISTER"
    BY <1>1 DEF Hires
  <1>7. Wrote(r)'
    BY <1>1, <1>2, <1>5, <1>6, SameRows DEF Wrote, When
  <1>8. Called(r)'
    BY <1>1, <1>5, SameRows DEF Called
  <1>9. TenantTypes'
    BY <1>1, WrittenType DEF TenantInv, TenantTypes
  <1>10. OneEach'
    BY <1>1, EmailIsNew, OneMore DEF CreateStaff, TenantInv
  <1> QED BY <1>1, <1>4, <1>7, <1>8, <1>9, <1>10, NumberedStays DEF TenantInv

LEMMA RegisterStep ==
  ASSUME TenantInv, NEW r \in Requests, Register(r)
  PROVE  TenantInv'
  <1>1. /\ tx' \in [Requests -> TenantTx]
        /\ tx[r].phase = "tenant" /\ tx[r].call.op = "REGISTER" /\ tx[r].call \in Calls
        /\ tx'[r].phase = "done" /\ tx'[r].call = tx[r].call /\ tx'[r].id = tx[r].id
        /\ \A s \in Requests \ {r} : tx'[s] = tx[s]
        /\ family' = family \cup {FamilyOf(r)} /\ trail' = trail \cup TrailOf(r)
        /\ UNCHANGED <<business, counter, outlet, user, assignment, nextId>>
    BY RegisterFacts DEF TenantInv
  <1>2. /\ Adds(family, family', r) /\ Own(family', r) = Own(family, r) \cup {FamilyOf(r)}
        /\ Adds(trail, trail', r) /\ Own(trail', r) = Own(trail, r) \cup TrailOf(r)
    BY <1>1, RowsAreTheirs DEF Adds, Own
  <1>3. /\ Adds(business, business', r) /\ Adds(outlet, outlet', r)
        /\ Adds(user, user', r) /\ Adds(assignment, assignment', r)
    BY <1>1, AddingNone
  <1>4. (\A s \in Requests \ {r} : Wrote(s)' /\ Called(s)') /\ TenantsWhole'
    BY <1>1, <1>2, <1>3, AddedByOne DEF TenantInv
  <1>5. Wrote(r) /\ Called(r)
    BY DEF TenantInv
  <1>6. Wrote(r)'
    BY <1>1, <1>2, <1>5, SameRows DEF Wrote, When
  <1>7. Called(r)'
    BY <1>1, <1>5, SameRows DEF Called
  <1>8. TenantTypes'
    BY <1>1, WrittenType DEF TenantInv, TenantTypes
  <1>9. OneEach'
    BY <1>1 DEF TenantInv, OneEach
  <1> QED BY <1>1, <1>4, <1>6, <1>7, <1>8, <1>9, NumberedStays DEF TenantInv

LEMMA ProvisionStep ==
  ASSUME TenantInv, NEW r \in Requests, Provision(r)
  PROVE  TenantInv'
  <1>1. /\ tx' \in [Requests -> TenantTx]
        /\ tx[r].phase = "tenant" /\ tx[r].call.op = "PROVISION" /\ tx[r].call \in Calls
        /\ tx'[r].phase = "done" /\ tx'[r].call = tx[r].call /\ tx'[r].id = tx[r].id
        /\ \A s \in Requests \ {r} : tx'[s] = tx[s]
        /\ trail' = trail \cup TrailOf(r)
        /\ UNCHANGED <<business, counter, outlet, user, assignment, family, nextId>>
    BY ProvisionFacts DEF TenantInv
  <1>2. Adds(trail, trail', r) /\ Own(trail', r) = Own(trail, r) \cup TrailOf(r)
    BY <1>1, RowsAreTheirs DEF Adds, Own
  <1>3. /\ Adds(business, business', r) /\ Adds(outlet, outlet', r) /\ Adds(family, family', r)
        /\ Adds(user, user', r) /\ Adds(assignment, assignment', r)
    BY <1>1, AddingNone
  <1>4. (\A s \in Requests \ {r} : Wrote(s)' /\ Called(s)') /\ TenantsWhole'
    BY <1>1, <1>2, <1>3, AddedByOne DEF TenantInv
  <1>5. Wrote(r) /\ Called(r)
    BY DEF TenantInv
  <1>6. Wrote(r)'
    BY <1>1, <1>2, <1>5, SameRows DEF Wrote, When
  <1>7. Called(r)'
    BY <1>1, <1>5, SameRows DEF Called
  <1>8. TenantTypes'
    BY <1>1, WrittenType DEF TenantInv, TenantTypes
  <1>9. OneEach'
    BY <1>1 DEF TenantInv, OneEach
  <1> QED BY <1>1, <1>4, <1>6, <1>7, <1>8, <1>9, NumberedStays DEF TenantInv
----------------------------------------------------------------------------
(***************************************************************************)
(* How a transaction ends                                                  *)
(***************************************************************************)
LEMMA RollbackStep ==
  ASSUME TenantInv, NEW r \in Requests, Rollback(r)
  PROVE  TenantInv'
  <1>1. /\ tx' \in [Requests -> TenantTx] /\ tx'[r] = Idle
        /\ \A s \in Requests \ {r} : tx'[s] = tx[s]
    BY FinishFacts DEF Rollback, TenantInv
  <1>2. /\ business' = Undone(business, r) /\ outlet' = Undone(outlet, r) /\ user' = Undone(user, r)
        /\ assignment' = Undone(assignment, r) /\ family' = Undone(family, r)
        /\ trail' = Undone(trail, r) /\ nextId' = nextId
        /\ counter' = [b \in Ids |-> IF [id |-> b, by |-> r] \in business THEN 0 ELSE counter[b]]
    BY DEF Rollback
  <1>3. /\ Own(business', r) = {} /\ Own(outlet', r) = {} /\ Own(user', r) = {}
        /\ Own(assignment', r) = {} /\ Own(family', r) = {} /\ Own(trail', r) = {}
    BY <1>2, OwnUndone
  <1>4. ASSUME NEW v, v # r
        PROVE  /\ Own(business', v) = Own(business, v) /\ Own(outlet', v) = Own(outlet, v)
               /\ Own(user', v) = Own(user, v) /\ Own(assignment', v) = Own(assignment, v)
               /\ Own(family', v) = Own(family, v) /\ Own(trail', v) = Own(trail, v)
    BY <1>2, <1>4, OwnUndone
  <1>5. r # Done
    BY OnboardingAssumption
  <1>6. \A n : [id |-> n, by |-> Done] \in business => [id |-> n, by |-> Done] \in business'
    BY <1>4, <1>5, CommittedRow
  <1>7. \A s \in Requests \ {r} : Wrote(s)' /\ Called(s)'
    BY <1>1, <1>4, <1>6, OthersStay DEF TenantInv
  <1>8. Wrote(r)' /\ Called(r)'
    BY <1>1, <1>3, IdleType DEF Wrote, When, Called
  <1>9. TenantsWhole'
    BY <1>4, <1>5, CommittedIsOwn, SameWhole DEF TenantInv
  <1>10. TenantTypes'
    <2>1. counter' \in [Ids -> {0, 1}]
      BY <1>2 DEF TenantInv, TenantTypes
    <2> QED BY <1>1, <1>2, <2>1 DEF TenantInv, TenantTypes, Undone
  <1>11. Numbered'
    <2>1. (\A x \in business' : x.id < nextId') /\ \A x, y \in business' : x.id = y.id => x = y
      BY <1>2 DEF TenantInv, Numbered, Undone
    <2>2. ASSUME NEW b \in Ids PROVE counter'[b] = 1 <=> \E x \in business' : x.id = b
      <3>1. CASE [id |-> b, by |-> r] \in business
        <4>1. \A x \in business : x.id = b => x.by = r
          BY <3>1 DEF TenantInv, Numbered
        <4> QED BY <1>2, <3>1, <4>1 DEF Undone
      <3>2. CASE [id |-> b, by |-> r] \notin business
        <4>1. \A x \in business : x.id = b => x.by # r
          BY <3>2 DEF TenantInv, TenantTypes, Businesses
        <4>2. (\E x \in business : x.id = b) <=> \E x \in business' : x.id = b
          BY <1>2, <4>1 DEF Undone
        <4> QED BY <1>2, <3>2, <4>2 DEF TenantInv, Numbered
      <3> QED BY <3>1, <3>2
    <2> QED BY <2>1, <2>2 DEF Numbered
  <1>12. OneEach'
    BY <1>2 DEF TenantInv, OneEach, Undone
  <1> QED BY <1>7, <1>8, <1>9, <1>10, <1>11, <1>12 DEF TenantInv

LEMMA RowsShown ==
  ASSUME NEW r
  PROVE  /\ [BusinessOf(r) EXCEPT !.by = Done] = [id |-> tx[r].id, by |-> Done]
         /\ [FirstOutletOf(r) EXCEPT !.by = Done] = [business |-> tx[r].id, code |-> 1, by |-> Done]
         /\ \A a : [[business |-> tx[r].id, action |-> a, by |-> r] EXCEPT !.by = Done]
                  = [business |-> tx[r].id, action |-> a, by |-> Done]
  BY DEF BusinessOf, FirstOutletOf

\* A commit shows all the rows of its transaction, and nothing else.
LEMMA CommitShows ==
  ASSUME TenantInv, NEW r \in Requests, Commit(r)
  PROVE  /\ Committed(business') =
              Committed(business) \cup When(~ Hires(r), {[id |-> tx[r].id, by |-> Done]})
         /\ Committed(outlet') =
              Committed(outlet) \cup
                When(~ Hires(r), {[business |-> tx[r].id, code |-> 1, by |-> Done]})
         /\ Committed(user') =
              Committed(user) \cup {[UserOf(r) EXCEPT !.by = Done]}
         /\ Committed(assignment') =
              Committed(assignment) \cup {[AssignmentOf(r) EXCEPT !.by = Done]}
         /\ Committed(family') =
              Committed(family) \cup
                When(tx[r].call.op = "REGISTER", {[FamilyOf(r) EXCEPT !.by = Done]})
         /\ Committed(trail') =
              Committed(trail) \cup
                {[business |-> tx[r].id, action |-> a, by |-> Done] : a \in ActionsOf(r)}
         /\ \A v : v \notin {r, Done} =>
              /\ Own(business', v) = Own(business, v) /\ Own(outlet', v) = Own(outlet, v)
              /\ Own(user', v) = Own(user, v) /\ Own(assignment', v) = Own(assignment, v)
              /\ Own(family', v) = Own(family, v) /\ Own(trail', v) = Own(trail, v)
         /\ Own(business', r) = {} /\ Own(outlet', r) = {} /\ Own(user', r) = {}
         /\ Own(assignment', r) = {} /\ Own(family', r) = {} /\ Own(trail', r) = {}
  <1>1. r # Done
    BY OnboardingAssumption
  <1>2. tx[r].phase = "done" /\ Wrote(r)
    BY DEF Commit, TenantInv
  <1>3. /\ business' = Seen(business, r) /\ outlet' = Seen(outlet, r) /\ user' = Seen(user, r)
        /\ assignment' = Seen(assignment, r) /\ family' = Seen(family, r) /\ trail' = Seen(trail, r)
    BY DEF Commit
  <1>4. /\ \A row \in business : [row EXCEPT !.by = Done].by = Done
        /\ \A row \in outlet : [row EXCEPT !.by = Done].by = Done
        /\ \A row \in user : [row EXCEPT !.by = Done].by = Done
        /\ \A row \in assignment : [row EXCEPT !.by = Done].by = Done
        /\ \A row \in family : [row EXCEPT !.by = Done].by = Done
        /\ \A row \in trail : [row EXCEPT !.by = Done].by = Done
    BY RowTypes DEF TenantInv, TenantTypes
  <1>5. /\ Own(business', r) = {}
        /\ Own(business', Done) = Own(business, Done)
             \cup {[row EXCEPT !.by = Done] : row \in Own(business, r)}
        /\ \A v : v \notin {r, Done} => Own(business', v) = Own(business, v)
    BY <1>1, <1>3, <1>4, OwnSeen
  <1>6. /\ Own(outlet', r) = {}
        /\ Own(outlet', Done) = Own(outlet, Done)
             \cup {[row EXCEPT !.by = Done] : row \in Own(outlet, r)}
        /\ \A v : v \notin {r, Done} => Own(outlet', v) = Own(outlet, v)
    BY <1>1, <1>3, <1>4, OwnSeen
  <1>7. /\ Own(user', r) = {}
        /\ Own(user', Done) = Own(user, Done)
             \cup {[row EXCEPT !.by = Done] : row \in Own(user, r)}
        /\ \A v : v \notin {r, Done} => Own(user', v) = Own(user, v)
    BY <1>1, <1>3, <1>4, OwnSeen
  <1>8. /\ Own(assignment', r) = {}
        /\ Own(assignment', Done) = Own(assignment, Done)
             \cup {[row EXCEPT !.by = Done] : row \in Own(assignment, r)}
        /\ \A v : v \notin {r, Done} => Own(assignment', v) = Own(assignment, v)
    BY <1>1, <1>3, <1>4, OwnSeen
  <1>9. /\ Own(family', r) = {}
        /\ Own(family', Done) = Own(family, Done)
             \cup {[row EXCEPT !.by = Done] : row \in Own(family, r)}
        /\ \A v : v \notin {r, Done} => Own(family', v) = Own(family, v)
    BY <1>1, <1>3, <1>4, OwnSeen
  <1>10. /\ Own(trail', r) = {}
         /\ Own(trail', Done) = Own(trail, Done)
              \cup {[row EXCEPT !.by = Done] : row \in Own(trail, r)}
         /\ \A v : v \notin {r, Done} => Own(trail', v) = Own(trail, v)
    BY <1>1, <1>3, <1>4, OwnSeen
  <1>11. /\ Own(business, r) = When(~ Hires(r), {BusinessOf(r)})
         /\ Own(outlet, r) = When(~ Hires(r), {FirstOutletOf(r)})
         /\ Own(user, r) = {UserOf(r)} /\ Own(assignment, r) = {AssignmentOf(r)}
         /\ Own(family, r) = When(tx[r].call.op = "REGISTER", {FamilyOf(r)})
         /\ Own(trail, r) = TrailOf(r)
    BY <1>2 DEF Wrote, When
  <1>12. {[row EXCEPT !.by = Done] : row \in Own(business, r)}
           = When(~ Hires(r), {[id |-> tx[r].id, by |-> Done]})
    <2>1. CASE Hires(r)
      BY <1>11, <2>1 DEF When
    <2>2. CASE ~ Hires(r)
      <3>1. {[row EXCEPT !.by = Done] : row \in Own(business, r)} = {[BusinessOf(r) EXCEPT !.by = Done]}
        BY <1>11, <2>2 DEF When
      <3> QED BY <2>2, <3>1, RowsShown DEF When
    <2> QED BY <2>1, <2>2
  <1>13. {[row EXCEPT !.by = Done] : row \in Own(outlet, r)}
           = When(~ Hires(r), {[business |-> tx[r].id, code |-> 1, by |-> Done]})
    <2>1. CASE Hires(r)
      BY <1>11, <2>1 DEF When
    <2>2. CASE ~ Hires(r)
      <3>1. {[row EXCEPT !.by = Done] : row \in Own(outlet, r)} = {[FirstOutletOf(r) EXCEPT !.by = Done]}
        BY <1>11, <2>2 DEF When
      <3> QED BY <2>2, <3>1, RowsShown DEF When
    <2> QED BY <2>1, <2>2
  <1>14. {[row EXCEPT !.by = Done] : row \in Own(user, r)} = {[UserOf(r) EXCEPT !.by = Done]}
    BY <1>11
  <1>15. {[row EXCEPT !.by = Done] : row \in Own(assignment, r)}
           = {[AssignmentOf(r) EXCEPT !.by = Done]}
    BY <1>11
  <1>16. {[row EXCEPT !.by = Done] : row \in Own(family, r)}
           = When(tx[r].call.op = "REGISTER", {[FamilyOf(r) EXCEPT !.by = Done]})
    BY <1>11 DEF When
  <1>17. {[row EXCEPT !.by = Done] : row \in Own(trail, r)}
           = {[business |-> tx[r].id, action |-> a, by |-> Done] : a \in ActionsOf(r)}
    <2> DEFINE told(a) == [business |-> tx[r].id, action |-> a, by |-> r]
               shown(a) == [business |-> tx[r].id, action |-> a, by |-> Done]
    <2>1. \A a : [told(a) EXCEPT !.by = Done] = shown(a)
      BY RowsShown
    <2>2. Own(trail, r) = {told(a) : a \in ActionsOf(r)}
      BY <1>11 DEF TrailOf
    <2> HIDE DEF told, shown
    <2>3. {[row EXCEPT !.by = Done] : row \in Own(trail, r)} = {shown(a) : a \in ActionsOf(r)}
      BY <2>1, <2>2
    <2> QED BY <2>3 DEF shown
  <1> QED BY <1>5, <1>6, <1>7, <1>8, <1>9, <1>10, <1>12, <1>13, <1>14, <1>15, <1>16, <1>17,
             CommittedIsOwn

LEMMA UserShown ==
  ASSUME NEW r
  PROVE  /\ [UserOf(r) EXCEPT !.by = Done] =
              [business |-> tx[r].id, email |-> Lower[tx[r].call.email],
               role |-> IF Hires(r) THEN "LAUNDRY_STAFF" ELSE "ADMIN", by |-> Done]
         /\ [AssignmentOf(r) EXCEPT !.by = Done] =
              [business |-> tx[r].id, email |-> Lower[tx[r].call.email], code |-> 1, by |-> Done]
         /\ [FamilyOf(r) EXCEPT !.by = Done] =
              [business |-> tx[r].id, email |-> Lower[tx[r].call.email], by |-> Done]
  BY DEF UserOf, AssignmentOf, FamilyOf

\* A new business becomes visible with everything that is its own.
LEMMA NewIsWhole ==
  ASSUME TenantInv, NEW r \in Requests, Commit(r), ~ Hires(r),
         NEW b, b = tx[r].id, NEW e, e = Lower[tx[r].call.email]
  PROVE  Whole(b)'
  <1>1. tx[r].phase = "done" /\ Wrote(r) /\ Called(r) /\ r # Done /\ tx[r].call \in Calls
    BY OnboardingAssumption DEF Commit, TenantInv, Called
  <1>2. BusinessOf(r) \in business
    BY <1>1 DEF Wrote, When, Own
  <1>3. [id |-> b, by |-> Done] \notin business
    BY <1>1, <1>2 DEF TenantInv, Numbered, BusinessOf
  <1>4. /\ \A row \in Committed(outlet) : row.business # b
        /\ \A row \in Committed(user) : row.business # b
        /\ \A row \in Committed(assignment) : row.business # b
        /\ \A row \in Committed(family) : row.business # b
        /\ \A row \in Committed(trail) : row.business # b
    BY <1>3 DEF TenantInv, TenantsWhole
  <1>5. PICK owner, a : owner = [business |-> b, email |-> e, role |-> "ADMIN", by |-> Done]
                        /\ a = [business |-> b, email |-> e, code |-> 1, by |-> Done]
    OBVIOUS
  <1>6. Of(user, b)' = {owner}
    <2>1. Committed(user') = Committed(user) \cup {owner}
      BY <1>5, CommitShows, UserShown
    <2> QED BY <1>4, <1>5, <2>1 DEF Of
  <1>7. Of(outlet, b)' = {[business |-> b, code |-> 1, by |-> Done]}
    <2>1. Committed(outlet') = Committed(outlet) \cup {[business |-> b, code |-> 1, by |-> Done]}
      BY CommitShows DEF When
    <2> QED BY <1>4, <2>1 DEF Of
  <1>8. a \in Of(assignment, b)'
    <2>1. Committed(assignment') = Committed(assignment) \cup {a}
      BY <1>5, CommitShows, UserShown
    <2> QED BY <1>5, <2>1 DEF Of
  <1>9. Told(b)' = ActionsOf(r) \ {"STAFF_CREATED"}
    <2> DEFINE told(x) == [business |-> tx[r].id, action |-> x, by |-> Done]
    <2>1. Committed(trail') = Committed(trail) \cup {told(x) : x \in ActionsOf(r)}
      BY CommitShows
    <2>2. \A x : told(x).business = b /\ told(x).action = x
      OBVIOUS
    <2> HIDE DEF told
    <2>3. Of(trail, b)' = {told(x) : x \in ActionsOf(r)}
      BY <1>4, <2>1, <2>2 DEF Of
    <2> QED BY <2>2, <2>3 DEF Told
  <1>10. Of(family, b)' = IF tx[r].call.op = "REGISTER"
                          THEN {[business |-> b, email |-> e, by |-> Done]} ELSE {}
    <2>1. Committed(family') = Committed(family) \cup
            (IF tx[r].call.op = "REGISTER" THEN {[business |-> b, email |-> e, by |-> Done]} ELSE {})
      BY CommitShows, UserShown DEF When
    <2> QED BY <1>4, <2>1 DEF Of
  <1>11. tx[r].call.op = "REGISTER" \/ tx[r].call.op = "PROVISION"
    BY <1>1, CallType DEF Hires
  <1>12. \/ /\ Told(b)' = {"OWNER_REGISTERED", "AUTH_SESSION_CREATED"}
            /\ {f.email : f \in Of(family, b)'} = {owner.email}
         \/ Told(b)' = {"BUSINESS_PROVISIONED"} /\ Of(family, b)' = {}
    <2>1. CASE tx[r].call.op = "REGISTER"
      BY <1>5, <1>9, <1>10, <2>1 DEF ActionsOf
    <2>2. CASE tx[r].call.op = "PROVISION"
      BY <1>9, <1>10, <2>2 DEF ActionsOf
    <2> QED BY <1>11, <2>1, <2>2
  <1>13. {u \in Of(user, b)' : u.role = "ADMIN"} = {owner} /\ a.email = owner.email /\ a.code = 1
    BY <1>5, <1>6
  <1>14. Whole(b)' <=>
           \E x \in Of(user, b)' :
             /\ {u \in Of(user, b)' : u.role = "ADMIN"} = {x}
             /\ Of(outlet, b)' = {[business |-> b, code |-> 1, by |-> Done]}
             /\ \E y \in Of(assignment, b)' : y.email = x.email /\ y.code = 1
             /\ \/ /\ Told(b)' = {"OWNER_REGISTERED", "AUTH_SESSION_CREATED"}
                   /\ {f.email : f \in Of(family, b)'} = {x.email}
                \/ Told(b)' = {"BUSINESS_PROVISIONED"} /\ Of(family, b)' = {}
    BY DEF Whole
  <1> QED BY <1>6, <1>7, <1>8, <1>12, <1>13, <1>14

\* A business that is there stays whole when it gets one more of the staff.
LEMMA StaffedIsWhole ==
  ASSUME TenantInv, NEW r \in Requests, Commit(r), Hires(r), NEW b, b = tx[r].id
  PROVE  Whole(b)'
  <1>1. tx[r].phase = "done" /\ Called(r) /\ r # Done
    BY OnboardingAssumption DEF Commit, TenantInv
  <1>2. Whole(b)
    <2>1. [id |-> b, by |-> Done] \in business
      BY <1>1 DEF Called
    <2>2. [id |-> b, by |-> Done] \in Committed(business) /\ [id |-> b, by |-> Done].id = b
      BY <2>1 DEF Committed
    <2>3. \A x \in Committed(business) : Whole(x.id)
      BY DEF TenantInv, TenantsWhole
    <2> QED BY <2>2, <2>3
  <1>3. Of(outlet, b)' = Of(outlet, b)
    <2>1. Committed(outlet') = Committed(outlet)
      BY CommitShows DEF When
    <2> QED BY <2>1 DEF Of
  <1>4. Of(family, b)' = Of(family, b)
    <2>1. Committed(family') = Committed(family)
      BY CommitShows DEF When, Hires
    <2> QED BY <2>1 DEF Of
  <1>5. Of(assignment, b) \subseteq Of(assignment, b)'
    <2>1. Committed(assignment) \subseteq Committed(assignment')
      BY CommitShows
    <2> QED BY <2>1 DEF Of
  <1>6. {u \in Of(user, b)' : u.role = "ADMIN"} = {u \in Of(user, b) : u.role = "ADMIN"}
    <2>1. PICK u : u = [UserOf(r) EXCEPT !.by = Done] /\ u.role = "LAUNDRY_STAFF"
      BY UserShown
    <2>2. Committed(user') = Committed(user) \cup {u}
      BY <2>1, CommitShows
    <2> QED BY <2>1, <2>2 DEF Of
  <1>7. Told(b)' = Told(b)
    <2> DEFINE told(x) == [business |-> tx[r].id, action |-> x, by |-> Done]
    <2>1. Committed(trail') = Committed(trail) \cup {told(x) : x \in ActionsOf(r)}
      BY CommitShows
    <2>2. told("STAFF_CREATED").action = "STAFF_CREATED"
      OBVIOUS
    <2> HIDE DEF told
    <2>3. ActionsOf(r) = {"STAFF_CREATED"}
      BY DEF ActionsOf, Hires
    <2>4. Committed(trail') = Committed(trail) \cup {told("STAFF_CREATED")}
      BY <2>1, <2>3
    <2>5. PICK x : x = told("STAFF_CREATED") /\ x.action = "STAFF_CREATED"
      BY <2>2
    <2>6. Committed(trail') = Committed(trail) \cup {x}
      BY <2>4, <2>5
    <2> QED BY <2>5, <2>6 DEF Told, Of
  <1>8. PICK owner \in Of(user, b) :
          /\ {u \in Of(user, b) : u.role = "ADMIN"} = {owner}
          /\ Of(outlet, b) = {[business |-> b, code |-> 1, by |-> Done]}
          /\ \E a \in Of(assignment, b) : a.email = owner.email /\ a.code = 1
          /\ \/ /\ Told(b) = {"OWNER_REGISTERED", "AUTH_SESSION_CREATED"}
                /\ {f.email : f \in Of(family, b)} = {owner.email}
             \/ Told(b) = {"BUSINESS_PROVISIONED"} /\ Of(family, b) = {}
    BY <1>2 DEF Whole
  <1>9. owner \in Of(user, b)' /\ {u \in Of(user, b)' : u.role = "ADMIN"} = {owner}
    BY <1>6, <1>8
  <1>10. /\ Of(outlet, b)' = {[business |-> b, code |-> 1, by |-> Done]}
         /\ \E a \in Of(assignment, b)' : a.email = owner.email /\ a.code = 1
         /\ \/ /\ Told(b)' = {"OWNER_REGISTERED", "AUTH_SESSION_CREATED"}
               /\ {f.email : f \in Of(family, b)'} = {owner.email}
            \/ Told(b)' = {"BUSINESS_PROVISIONED"} /\ Of(family, b)' = {}
    BY <1>3, <1>4, <1>5, <1>7, <1>8
  <1> QED BY <1>9, <1>10 DEF Whole

\* The other businesses do not notice.
LEMMA OthersAreWhole ==
  ASSUME TenantInv, NEW r \in Requests, Commit(r), NEW b, b # tx[r].id, Whole(b)
  PROVE  Whole(b)'
  <1>1. /\ UserOf(r).business = tx[r].id /\ AssignmentOf(r).business = tx[r].id
        /\ FamilyOf(r).business = tx[r].id
        /\ [UserOf(r) EXCEPT !.by = Done].business = tx[r].id
        /\ [AssignmentOf(r) EXCEPT !.by = Done].business = tx[r].id
        /\ [FamilyOf(r) EXCEPT !.by = Done].business = tx[r].id
    BY DEF UserOf, AssignmentOf, FamilyOf
  <1>o. [business |-> tx[r].id, code |-> 1, by |-> Done].business = tx[r].id
    OBVIOUS
  <1>2. PICK o : o = [business |-> tx[r].id, code |-> 1, by |-> Done] /\ o.business = tx[r].id
    BY <1>o
  <1>u. PICK u : u = [UserOf(r) EXCEPT !.by = Done] /\ u.business = tx[r].id
    BY <1>1
  <1>a. PICK a : a = [AssignmentOf(r) EXCEPT !.by = Done] /\ a.business = tx[r].id
    BY <1>1
  <1>f. PICK f : f = [FamilyOf(r) EXCEPT !.by = Done] /\ f.business = tx[r].id
    BY <1>1
  <1>3. Of(outlet, b)' = Of(outlet, b)
    <2>1. Committed(outlet') = Committed(outlet) \/ Committed(outlet') = Committed(outlet) \cup {o}
      BY <1>2, CommitShows DEF When
    <2> QED BY <1>2, <2>1 DEF Of
  <1>4. Of(user, b)' = Of(user, b)
    <2>1. Committed(user') = Committed(user) \cup {u}
      BY <1>u, CommitShows
    <2> QED BY <1>u, <2>1 DEF Of
  <1>5. Of(assignment, b)' = Of(assignment, b)
    <2>1. Committed(assignment') = Committed(assignment) \cup {a}
      BY <1>a, CommitShows
    <2> QED BY <1>a, <2>1 DEF Of
  <1>6. Of(family, b)' = Of(family, b)
    <2>1. Committed(family') = Committed(family) \/ Committed(family') = Committed(family) \cup {f}
      BY <1>f, CommitShows DEF When
    <2> QED BY <1>f, <2>1 DEF Of
  <1>7. Of(trail, b)' = Of(trail, b)
    <2> DEFINE told(y) == [business |-> tx[r].id, action |-> y, by |-> Done]
    <2>1. Committed(trail') = Committed(trail) \cup {told(y) : y \in ActionsOf(r)}
      BY CommitShows
    <2>2. \A y : told(y).business = tx[r].id
      OBVIOUS
    <2> HIDE DEF told
    <2> QED BY <2>1, <2>2 DEF Of
  <1>8. Told(b)' = Told(b)
    BY <1>7 DEF Told
  <1> QED BY <1>3, <1>4, <1>5, <1>6, <1>8 DEF Whole

LEMMA CommitStep ==
  ASSUME TenantInv, NEW r \in Requests, Commit(r)
  PROVE  TenantInv'
  <1>1. tx[r].phase = "done" /\ Wrote(r) /\ Called(r) /\ r # Done /\ tx[r].call \in Calls
    BY OnboardingAssumption DEF Commit, TenantInv, Called
  <1>2. /\ tx' \in [Requests -> TenantTx] /\ tx'[r] = Idle
        /\ \A s \in Requests \ {r} : tx'[s] = tx[s]
    BY FinishFacts DEF Commit, TenantInv
  <1>3. /\ business' = Seen(business, r) /\ outlet' = Seen(outlet, r) /\ user' = Seen(user, r)
        /\ assignment' = Seen(assignment, r) /\ family' = Seen(family, r) /\ trail' = Seen(trail, r)
        /\ UNCHANGED <<counter, nextId>>
    BY DEF Commit
  <1>4. TenantTypes'
    BY <1>2, <1>3, RowTypes DEF TenantInv, TenantTypes, Seen
  <1>5. \A n : [id |-> n, by |-> Done] \in business => [id |-> n, by |-> Done] \in business'
    BY CommitShows, CommittedRow, CommittedIsOwn
  <1>6. \A s \in Requests \ {r} : Wrote(s)' /\ Called(s)'
    BY <1>1, <1>2, <1>5, CommitShows, OthersStay, OnboardingAssumption DEF TenantInv
  <1>7. Wrote(r)' /\ Called(r)'
    BY <1>2, CommitShows, IdleType DEF Wrote, When, Called
  <1>8. Numbered'
    <2> DEFINE shown(row) == IF row.by = r THEN [row EXCEPT !.by = Done] ELSE row
    <2>1. business' = {shown(row) : row \in business}
      BY <1>3 DEF Seen
    <2>2. \A row \in business : shown(row).id = row.id
      BY DEF TenantInv, TenantTypes, Businesses
    <2> HIDE DEF shown
    <2>3. \A x \in business' : x.id < nextId'
      BY <1>3, <2>1, <2>2 DEF TenantInv, Numbered
    <2>4. \A x, y \in business' : x.id = y.id => x = y
      BY <2>1, <2>2 DEF TenantInv, Numbered
    <2>5. \A n : (\E x \in business : x.id = n) <=> \E x \in business' : x.id = n
      BY <2>1, <2>2
    <2> QED BY <1>3, <2>3, <2>4, <2>5 DEF TenantInv, Numbered
  <1>9. OneEach'
    <2> DEFINE shown(row) == IF row.by = r THEN [row EXCEPT !.by = Done] ELSE row
    <2>1. user' = {shown(row) : row \in user}
      BY <1>3 DEF Seen
    <2>2. \A row \in user : shown(row).email = row.email
      BY DEF TenantInv, TenantTypes, UserRows
    <2> HIDE DEF shown
    <2> QED BY <2>1, <2>2 DEF TenantInv, OneEach
  <1>10. \A x \in Committed(business') : Whole(x.id)'
    <2> SUFFICES ASSUME NEW x \in Committed(business') PROVE Whole(x.id)'
      OBVIOUS
    <2>1. PICK b, n, e : b = tx[r].id /\ n = x.id /\ e = Lower[tx[r].call.email]
      OBVIOUS
    <2>2. CASE n = b
      BY <2>1, <2>2, NewIsWhole, StaffedIsWhole
    <2>3. CASE n # b
      <3>1. x \in Committed(business)
        BY <2>1, <2>3, CommitShows DEF When
      <3>2. Whole(n)
        BY <2>1, <3>1 DEF TenantInv, TenantsWhole
      <3> QED BY <2>1, <2>3, <3>2, OthersAreWhole
    <2> QED BY <2>2, <2>3
  <1>11. [id |-> tx[r].id, by |-> Done] \in business'
    <2>1. CASE Hires(r)
      BY <1>1, <1>5, <2>1 DEF Called
    <2>2. CASE ~ Hires(r)
      <3>1. [id |-> tx[r].id, by |-> Done] \in Committed(business')
        BY <2>2, CommitShows DEF When
      <3> QED BY <3>1 DEF Committed
    <2> QED BY <2>1, <2>2
  <1>12. ASSUME NEW row \in Committed(outlet') \cup Committed(user') \cup Committed(assignment')
                            \cup Committed(family') \cup Committed(trail')
         PROVE  [id |-> row.business, by |-> Done] \in business'
    <2>1. /\ [UserOf(r) EXCEPT !.by = Done].business = tx[r].id
          /\ [AssignmentOf(r) EXCEPT !.by = Done].business = tx[r].id
          /\ [FamilyOf(r) EXCEPT !.by = Done].business = tx[r].id
      BY DEF UserOf, AssignmentOf, FamilyOf
    <2>2. \/ row \in Committed(outlet) \cup Committed(user) \cup Committed(assignment)
                       \cup Committed(family) \cup Committed(trail)
          \/ row.business = tx[r].id
      <3>1. CASE row \in Committed(outlet')
        BY <3>1, CommitShows DEF When
      <3>2. CASE row \in Committed(user')
        BY <2>1, <3>2, CommitShows
      <3>3. CASE row \in Committed(assignment')
        BY <2>1, <3>3, CommitShows
      <3>4. CASE row \in Committed(family')
        <4>1. row \in Committed(family) \/ row = [FamilyOf(r) EXCEPT !.by = Done]
          BY <3>4, CommitShows DEF When
        <4> QED BY <2>1, <4>1
      <3>5. CASE row \in Committed(trail')
        <4>1. row \in Committed(trail)
              \/ row \in {[business |-> tx[r].id, action |-> a, by |-> Done] : a \in ActionsOf(r)}
          BY <3>5, CommitShows
        <4> QED BY <4>1
      <3> QED BY <1>12, <3>1, <3>2, <3>3, <3>4, <3>5
    <2>3. CASE row.business = tx[r].id
      BY <1>11, <2>3
    <2>4. CASE row \in Committed(outlet) \cup Committed(user) \cup Committed(assignment)
                         \cup Committed(family) \cup Committed(trail)
      <3>1. [id |-> row.business, by |-> Done] \in business
        BY <2>4 DEF TenantInv, TenantsWhole
      <3> QED BY <1>5, <3>1
    <2> QED BY <2>2, <2>3, <2>4
  <1>13. \A u, v \in Committed(user') : u.email = v.email => u = v
    BY <1>9 DEF OneEach, Committed
  <1>14. TenantsWhole'
    BY <1>10, <1>12, <1>13 DEF TenantsWhole
  <1> QED BY <1>4, <1>6, <1>7, <1>8, <1>9, <1>14 DEF TenantInv
LEMMA TenantInit ==
  ASSUME Init
  PROVE  TenantInv
  <1>1. \A stored : stored = {} => Committed(stored) = {} /\ \A w : Own(stored, w) = {}
    BY DEF Committed, Own
  <1>2. TenantTypes
    BY IdleType DEF Init, TenantTypes
  <1>3. \A r \in Requests : tx[r] = Idle
    BY DEF Init
  <1>4. \A r \in Requests : Wrote(r) /\ Called(r)
    BY <1>1, <1>3, IdleType DEF Init, Wrote, When, Called
  <1>5. Numbered /\ OneEach
    BY DEF Init, Numbered, OneEach
  <1>6. TenantsWhole
    BY <1>1 DEF Init, TenantsWhole
  <1> QED BY <1>2, <1>4, <1>5, <1>6 DEF TenantInv

LEMMA TenantNext ==
  ASSUME TenantInv, [Next]_vars
  PROVE  TenantInv'
  <1>1. ASSUME NEW r \in Requests, Call(r) PROVE TenantInv'
    BY <1>1, CallStep
  <1>2. ASSUME NEW r \in Requests, createTenant(r) PROVE TenantInv'
    BY <1>2, CreateTenantStep
  <1>3. ASSUME NEW r \in Requests, FirstAdmin(r) PROVE TenantInv'
    BY <1>3, FirstAdminStep
  <1>4. ASSUME NEW r \in Requests, CreateStaff(r) PROVE TenantInv'
    BY <1>4, CreateStaffStep
  <1>5. ASSUME NEW r \in Requests, Register(r) PROVE TenantInv'
    BY <1>5, RegisterStep
  <1>6. ASSUME NEW r \in Requests, Provision(r) PROVE TenantInv'
    BY <1>6, ProvisionStep
  <1>7. ASSUME NEW r \in Requests, Commit(r) PROVE TenantInv'
    BY <1>7, CommitStep
  <1>8. ASSUME NEW r \in Requests, Rollback(r) PROVE TenantInv'
    BY <1>8, RollbackStep
  <1>9. ASSUME UNCHANGED vars PROVE TenantInv'
    <2>1. UNCHANGED <<business, counter, outlet, user, assignment, family, trail, nextId, tx>>
      BY <1>9 DEF vars, tables
    <2>2. \A r \in Requests : Wrote(r)' /\ Called(r)'
      BY <2>1, OthersStay DEF TenantInv
    <2>3. TenantsWhole'
      BY <2>1, SameWhole DEF TenantInv
    <2> QED BY <2>1, <2>2, <2>3 DEF TenantInv, TenantTypes, Numbered, OneEach
  <1> QED BY <1>1, <1>2, <1>3, <1>4, <1>5, <1>6, <1>7, <1>8, <1>9 DEF Next, Unavailable

LEMMA TenantStays == TenantInv /\ [BackOfficeNext]_backOfficeVars => TenantInv'
<1>1. [BackOfficeNext]_backOfficeVars => [Next]_vars
  BY DEF BackOfficeNext, backOfficeVars, ExpenseStep, CatalogStep, TemplateStep, ListingStep,
         ReportStep, TenantStep, LimiterStep
<1> QED BY <1>1, TenantNext

\* Of the users of all businesses, also of those whose transactions still run, one has an
\* email: users_email_uq is what makes Login find one account.
THEOREM EmailsAreUnique == BackOfficeSpec => []OneEach
<1>1. BackOfficeInit => TenantInv
  BY TenantInit DEF BackOfficeInit
<1>2. TenantInv => OneEach
  BY DEF TenantInv
<1> QED BY <1>1, <1>2, TenantStays, PTL DEF BackOfficeSpec

\* However registrations, provisions and hires interleave, fail or are rolled back, a
\* business is there as a whole or not at all.
THEOREM TenantsAlwaysWhole == BackOfficeSpec => []TenantsWhole
<1>1. BackOfficeInit => TenantInv
  BY TenantInit DEF BackOfficeInit
<1>2. TenantInv => TenantsWhole
  BY DEF TenantInv
<1> QED BY <1>1, <1>2, TenantStays, PTL DEF BackOfficeSpec

\* The tables of onboarding, and what its transactions carry, are of their types.
THEOREM TenantsTypeCorrect == BackOfficeSpec => []TenantTypes
<1>1. BackOfficeInit => TenantInv
  BY TenantInit DEF BackOfficeInit
<1>2. TenantInv => TenantTypes
  BY DEF TenantInv
<1> QED BY <1>1, <1>2, TenantStays, PTL DEF BackOfficeSpec
===============================================================================
