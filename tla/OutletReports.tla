---------------------------- MODULE OutletReports ----------------------------
(***************************************************************************)
(* The dashboard and the reports of one outlet (GetOutletDashboard,        *)
(* GetOutletReport), each a statement that aggregates orders, payments and *)
(* expenses as committed, and the transactions that write these tables:    *)
(* what they stamp is the time they began, what is read is what they       *)
(* committed.  OrderLedger has their locks; here an order or a payment is  *)
(* written in the step that commits it.                                    *)
(***************************************************************************)
EXTENDS Integers, FiniteSetsExt

CONSTANTS
  Requests,     \* transactions in progress at the same time
  Orders,       \* ids of orders, integers
  Customer,     \* the customer of each order
  Total,        \* orders.total_amount of each order
  Payments,     \* ids of payments, integers
  Methods,      \* payments.method
  Expenses,     \* ids of expenses
  Amounts,      \* amounts of payments and expenses
  DayLength,    \* ticks of the clock in a day
  Offset,       \* how far Asia/Jakarta is ahead of UTC, in ticks
  MaxClock,     \* bound on the clock
  MaxReportRangeDays

VARIABLES
  order,    \* order[o]: status, received_at and cancelled_at
  payment,  \* payment[p]: status, order, method, amount and confirmed_at
  expense,  \* expense[e]: amount and expense_at
  clock,    \* the time, UTC
  began     \* when each transaction began, -1 when there is none

vars == <<order, payment, expense, clock, began>>

NoOrder == [status |-> "absent", received_at |-> -1, cancelled_at |-> -1]
NoPayment == [status |-> "absent"]
NoExpense == [amount |-> 0, expense_at |-> -1]

Day(t) == (t + Offset) \div DayLength
Days == 0 .. Day(MaxClock)
Today == Day(clock)
----------------------------------------------------------------------------
(***************************************************************************)
(* GetOutletReport, one operator for each of its common table expressions. *)
(* A range is a pair of days, both included.                               *)
(***************************************************************************)
reportDateRange == {range \in Days \X Days : range[2] - range[1] \in 0 .. MaxReportRangeDays - 1}

report_range(range) ==
  [start_at |-> range[1] * DayLength - Offset, end_at |-> (range[2] + 1) * DayLength - Offset]

\* A slip: both ends belong to the range.
WithinClosed(t, range) ==
  t >= report_range(range).start_at /\ t <= report_range(range).end_at

Within(t, range) == t >= report_range(range).start_at /\ t < report_range(range).end_at

calendar(range) == range[1] .. range[2]

Confirmed(range) ==
  {p \in Payments : payment[p].status = "CONFIRMED" /\ Within(payment[p].confirmed_at, range)}
Received(P) == [count |-> Cardinality(P), amount |-> SumFunction([p \in P |-> payment[p].amount])]

income_daily(range) ==
  LET P == Confirmed(range)
  IN  [d \in {Day(payment[p].confirmed_at) : p \in P} |->
         Received({p \in P : Day(payment[p].confirmed_at) = d})]

income_methods(range) ==
  LET P == Confirmed(range)
  IN  [m \in {payment[p].method : p \in P} |-> Received({p \in P : payment[p].method = m})]

expense_daily(range) ==
  LET spent == {e \in Expenses : expense[e] # NoExpense /\ Within(expense[e].expense_at, range)}
      on(d) == {e \in spent : Day(expense[e].expense_at) = d}
  IN  [d \in {Day(expense[e].expense_at) : e \in spent} |->
         [count |-> Cardinality(on(d)), amount |-> SumFunction([e \in on(d) |-> expense[e].amount])]]

\* With the 0 of the LEFT JOIN for an order without payments.
payments_by_order(o) ==
  LET paid == {p \in Payments : payment[p].status = "CONFIRMED" /\ payment[p].order = o}
  IN  SumFunction([p \in paid |-> payment[p].amount])

\* A slip: what a cancelled order would have brought is outstanding, too.
OutstandingAlways(o) == IF Total[o] > payments_by_order(o) THEN Total[o] - payments_by_order(o) ELSE 0

Outstanding(o) ==
  IF order[o].status # "CANCELLED" /\ Total[o] > payments_by_order(o) THEN Total[o] - payments_by_order(o) ELSE 0

Cohort(range) == {o \in Orders : order[o] # NoOrder /\ Within(order[o].received_at, range)}
order_cohort(range) ==
  {[id |-> o, customer |-> Customer[o], status |-> order[o].status, value |-> Total[o],
    report_date |-> Day(order[o].received_at), collected |-> payments_by_order(o),
    outstanding |-> Outstanding(o)] : o \in Cohort(range)}

Worth(cohort) ==
  LET cancelled == {c \in cohort : c.status = "CANCELLED"}
  IN  [count |-> Cardinality(cohort),
       value |-> SumFunction([c \in cohort |-> c.value]),
       collected |-> SumFunction([c \in cohort |-> c.collected]),
       outstanding |-> SumFunction([c \in cohort |-> c.outstanding]),
       cancelled |-> Cardinality(cancelled),
       cancelledValue |-> SumFunction([c \in cancelled |-> c.value])]
orders_daily(range) ==
  LET cohort == order_cohort(range)
  IN  [d \in {c.report_date : c \in cohort} |-> Worth({c \in cohort : c.report_date = d})]

cancellation_daily(range) ==
  LET gone == {o \in Orders : order[o].status = "CANCELLED" /\ Within(order[o].cancelled_at, range)}
      on(d) == {o \in gone : Day(order[o].cancelled_at) = d}
  IN  [d \in {Day(order[o].cancelled_at) : o \in gone} |->
         [count |-> Cardinality(on(d)), amount |-> SumFunction([o \in on(d) |-> Total[o]])]]

customer_rank(range) ==
  LET cohort == order_cohort(range)
      of(c) == {x \in cohort : x.customer = c}
  IN  [c \in {x.customer : x \in cohort} |->
         [count |-> Cardinality(of(c)), value |-> SumFunction([x \in of(c) |-> x.value])]]

\* The LEFT JOIN of the calendar with a table of days.
AmountOn(daily, d) == IF d \in DOMAIN daily THEN daily[d].amount ELSE 0

Summary(daily) ==
  [count |-> SumFunction([d \in DOMAIN daily |-> daily[d].count]),
   amount |-> SumFunction([d \in DOMAIN daily |-> daily[d].amount])]
income(range) == Summary(income_daily(range))
expenses(range) == Summary(expense_daily(range))
cancellations(range) == Summary(cancellation_daily(range))
profit_loss(range) ==
  LET i == income_daily(range)
      e == expense_daily(range)
  IN  SumFunction([d \in calendar(range) |-> AmountOn(i, d) - AmountOn(e, d)])
AddedUp(daily) ==
  [f \in {"count", "value", "collected", "outstanding", "cancelled", "cancelledValue"} |->
     SumFunction([d \in DOMAIN daily |-> daily[d][f]])]
orders(range) == AddedUp(orders_daily(range))
----------------------------------------------------------------------------
(***************************************************************************)
(* GetOutletDashboard: the same of today, in sums of its own               *)
(***************************************************************************)
local_day == [day_start |-> Today * DayLength - Offset, day_end |-> (Today + 1) * DayLength - Offset]
payment_totals ==
  LET today == {p \in Payments : /\ payment[p].status = "CONFIRMED"
                                 /\ payment[p].confirmed_at >= local_day.day_start
                                 /\ payment[p].confirmed_at < local_day.day_end}
  IN  [count |-> Cardinality(today), amount |-> SumFunction([p \in today |-> payment[p].amount])]
expense_totals ==
  LET today == {e \in Expenses : /\ expense[e] # NoExpense
                                 /\ expense[e].expense_at >= local_day.day_start
                                 /\ expense[e].expense_at < local_day.day_end}
  IN  [count |-> Cardinality(today), amount |-> SumFunction([e \in today |-> expense[e].amount])]
GetOutletDashboard == [payments |-> payment_totals, expenses |-> expense_totals]
----------------------------------------------------------------------------
(***************************************************************************)
(* The money on a receipt                                                  *)
(***************************************************************************)
GetReceiptConfirmedPaymentTotal(o) ==
  LET paid == {p \in Payments : payment[p].status = "CONFIRMED" /\ payment[p].order = o}
  IN  SumFunction([p \in paid |-> payment[p].amount])

\* Its statements are taken for one; a payment between them shows in the last.
receipt(o) ==
  LET paid == GetReceiptConfirmedPaymentTotal(o)
  IN  [total |-> Total[o], paid |-> paid,
       outstanding |-> IF Total[o] - paid < 0 THEN 0 ELSE Total[o] - paid]
----------------------------------------------------------------------------
(***************************************************************************)
(* The transactions that write                                             *)
(***************************************************************************)
Init ==
  /\ order = [o \in Orders |-> NoOrder]
  /\ payment = [p \in Payments |-> NoPayment]
  /\ expense = [e \in Expenses |-> NoExpense]
  /\ clock = 0
  /\ began = [r \in Requests |-> -1]

\* now() is the time of BEGIN.
Begin(r) ==
  /\ began[r] = -1
  /\ began' = [began EXCEPT ![r] = clock]
  /\ UNCHANGED <<order, payment, expense, clock>>

End(r) == began[r] # -1 /\ began' = [began EXCEPT ![r] = -1]

\* Create of OrderIntake.
CreateOrder(r) ==
  /\ End(r)
  /\ \E o \in {x \in Orders : order[x] = NoOrder} :
       /\ o = Min({x \in Orders : order[x] = NoOrder})
       /\ order' = [order EXCEPT ![o] = [@ EXCEPT !.status = "RECEIVED", !.received_at = began[r]]]
  /\ UNCHANGED <<payment, expense, clock>>

\* A slip: a payment is dated like its order.
RecordDatedBack(r) ==
  /\ End(r)
  /\ \E o \in Orders, p \in {x \in Payments : payment[x] = NoPayment}, m \in Methods, a \in Amounts :
       /\ order[o].status \notin {"absent", "CANCELLED"}
       /\ p = Min({x \in Payments : payment[x] = NoPayment})
       /\ payments_by_order(o) + a <= Total[o]
       /\ payment' = [payment EXCEPT ![p] =
            [status |-> "CONFIRMED", order |-> o, method |-> m, amount |-> a,
             confirmed_at |-> order[o].received_at]]
  /\ UNCHANGED <<order, expense, clock>>

\* Record of OrderLedger: what is applied is never more than what is outstanding.
Record(r) ==
  /\ End(r)
  /\ \E o \in Orders, p \in {x \in Payments : payment[x] = NoPayment}, m \in Methods, a \in Amounts :
       /\ order[o].status \notin {"absent", "CANCELLED"}
       /\ p = Min({x \in Payments : payment[x] = NoPayment})
       /\ payments_by_order(o) + a <= Total[o]
       /\ payment' = [payment EXCEPT ![p] =
            [status |-> "CONFIRMED", order |-> o, method |-> m, amount |-> a,
             confirmed_at |-> began[r]]]
  /\ UNCHANGED <<order, expense, clock>>

\* Void of OrderLedger.
Void(r) ==
  /\ End(r)
  /\ \E p \in Payments :
       /\ payment[p].status = "CONFIRMED"
       /\ payment' = [payment EXCEPT ![p].status = "VOIDED"]
  /\ UNCHANGED <<order, expense, clock>>

\* Cancel of OrderLedger: an order that holds money is not cancelled.
Cancel(r) ==
  /\ End(r)
  /\ \E o \in Orders :
       /\ order[o].status = "RECEIVED" /\ payments_by_order(o) = 0
       /\ order' = [order EXCEPT ![o] = [@ EXCEPT !.status = "CANCELLED", !.cancelled_at = began[r]]]
  /\ UNCHANGED <<payment, expense, clock>>

\* Create and Update of ExpenseBook: expense_at is what the request says.
EnterExpense(r) ==
  /\ End(r)
  /\ \E e \in Expenses, a \in Amounts, t \in 0 .. MaxClock :
       expense' = [expense EXCEPT ![e] = [amount |-> a, expense_at |-> t]]
  /\ UNCHANGED <<order, payment, clock>>

Rollback(r) == End(r) /\ UNCHANGED <<order, payment, expense, clock>>

Tick ==
  /\ clock < MaxClock
  /\ clock' = clock + 1
  /\ UNCHANGED <<order, payment, expense, began>>

Next ==
  \/ \E r \in Requests :
       \/ Begin(r) \/ CreateOrder(r) \/ Record(r) \/ Void(r) \/ Cancel(r)
       \/ EnterExpense(r) \/ Rollback(r)
  \/ Tick

Spec == Init /\ [][Next]_vars
----------------------------------------------------------------------------
(***************************************************************************)
(* Properties                                                              *)
(***************************************************************************)
Ever == <<0, Day(MaxClock)>>

\* A report of a range agrees with those of its days, and its tables with each other: it
\* is the sum of its days, of its methods; profit and loss is income less expenses; what
\* orders are worth is collected, outstanding or cancelled (GetOutletReport).
Balanced(range) ==
  LET i == income(range)
      e == expenses(range)
      o == orders(range)
      ranked == customer_rank(range)
      sum(report(_)) == SumFunction([d \in calendar(range) |-> report(<<d, d>>).amount])
  IN  /\ i.amount = sum(income) /\ i = Summary(income_methods(range))
      /\ e.amount = sum(expenses)
      /\ cancellations(range).amount = sum(cancellations)
      /\ profit_loss(range) = i.amount - e.amount
      /\ o.value = o.collected + o.outstanding + o.cancelledValue
      /\ o.count = SumFunction([c \in DOMAIN ranked |-> ranked[c].count])
\* Over all days what was received is what was collected, by whatever date, and what is
\* outstanding is what the receipts ask for (GetOutletReport, receipt).
AllTold ==
  LET o == orders(Ever)
      going == {x \in Cohort(Ever) : order[x].status # "CANCELLED"}
  IN  /\ income(Ever).amount = o.collected
      /\ cancellations(Ever) = [count |-> o.cancelled, amount |-> o.cancelledValue]
      /\ o.outstanding = SumFunction([x \in going |-> receipt(x).outstanding])
\* The reports agree with each other and with the dashboard (GetOutletReport,
\* GetOutletDashboard).
Balances ==
  /\ \A range \in reportDateRange : Balanced(range)
  /\ Ever \in reportDateRange => AllTold
  /\ GetOutletDashboard =
       [payments |-> income(<<Today, Today>>), expenses |-> expenses(<<Today, Today>>)]
\* That they balance, looked at when a transaction has just begun: it has written nothing
\* yet and may begin in any state, so that every state of the tables is looked at once.
ReportsBalance == (\E r \in Requests : began[r] = clock) => Balances

\* Once the transactions of a past day have ended, no payment and no order is added to
\* its reports; they only lose payments that are voided (confirmed_at and received_at
\* are now(), the time of BEGIN).
ClosedDay(d) == d < Today /\ \A r \in Requests : began[r] = -1 \/ Day(began[r]) # d
ClosedDaysOnlyLose ==
  [][\A d \in Days : ClosedDay(d) =>
       /\ Confirmed(<<d, d>>)' \subseteq Confirmed(<<d, d>>)
       /\ Cohort(<<d, d>>)' = Cohort(<<d, d>>)]_<<order, payment>>
============================================================================
