---------------------------- MODULE OrderLedger ----------------------------
(***************************************************************************)
(* The life of an order after it was created: the workflow of              *)
(* internal/service/orders.go (TransitionStatus, Cancel) and the payment   *)
(* ledger of internal/service/payments.go (Record, Void), as concurrent    *)
(* PostgreSQL READ COMMITTED transactions over the tables orders,          *)
(* order_status_history and payments.                                      *)
(*                                                                         *)
(* A transaction is cut where other transactions can be told apart from    *)
(* it: at BEGIN (which fixes its now()), at the two locking statements of  *)
(* lockLifecycleOrder, at the reads of the payments table, and at COMMIT,  *)
(* where everything it wrote becomes visible at once.  Between BEGIN and   *)
(* COMMIT it may be rolled back at any point.                              *)
(***************************************************************************)
EXTENDS Integers, Sequences, Functions

CONSTANTS
  Requests,    \* requests in progress at the same time, one transaction each
  Orders,      \* the orders under way
  Outlets,
  OutletOf,    \* the outlet of each order
  Users,       \* users of the business
  Admins,      \* those whose role is ADMIN; the others are LAUNDRY_STAFF
  MaxAmount,   \* the largest amount in rupiah
  MaxPayments, \* bound: payments ever inserted
  Keys,        \* Idempotency-Key values
  Methods,     \* payment methods in use
  Tenders,     \* tendered amounts clients send
  MaxTime      \* bound: the last value of the database clock

Amounts == 0 .. MaxAmount
PaymentIds == 1 .. MaxPayments
Times == 0 .. MaxTime

ASSUME ConstantsAssumption ==
  /\ OutletOf \in [Orders -> Outlets]
  /\ Admins \subseteq Users
  /\ MaxAmount \in Nat /\ MaxPayments \in Nat /\ MaxTime \in Nat
  /\ Tenders \subseteq Nat \ {0}
  /\ Methods \subseteq {"CASH", "BCA_TRANSFER", "QRIS"}

VARIABLES
  order,     \* table orders: status, payment_status, total_amount, deleted_at
  history,   \* table order_status_history, per order, in the order of its ids
  payments,  \* table payments
  active,    \* users.is_active
  assigned,  \* table user_outlets: pairs <<user, outlet>>
  open,      \* outlets with is_active
  clock,     \* the database clock
  tx,        \* the transaction of each request
  acks       \* what successful calls of Record reported to their clients

vars == <<order, history, payments, active, assigned, open, clock, tx, acks>>
tables == <<order, history, payments>>
staffing == <<active, assigned, open>>
----------------------------------------------------------------------------
(***************************************************************************)
(* Rows, calls and transactions                                            *)
(***************************************************************************)
Statuses == {"RECEIVED", "PROCESSING", "READY_FOR_PICKUP", "COMPLETED", "CANCELLED"}
PaymentStatuses == {"UNPAID", "PARTIALLY_PAID", "PAID"}

OrderRow ==
  [status : Statuses, payment_status : PaymentStatuses, total : Amounts, deleted : BOOLEAN]
HistoryRow == [from : Statuses \cup {"NULL"}, to : Statuses, at : Times]

\* method and tendered stand for request_hash: two payloads have the same hash
\* when they are the same payload.
PaymentRow ==
  [id : PaymentIds, order : Orders, key : Keys, method : Methods, tendered : Tenders,
   amount : Amounts, status : {"CONFIRMED", "VOIDED"}]

TransitionCalls ==
  [op : {"TransitionStatus"}, order : Orders, user : Users,
   to : {"PROCESSING", "READY_FOR_PICKUP", "COMPLETED"}]
CancelCalls == [op : {"Cancel"}, order : Orders, user : Users]
RecordCalls ==
  [op : {"Record"}, order : Orders, user : Users, key : Keys, method : Methods,
   tendered : Tenders]
VoidCalls == [op : {"Void"}, order : Orders, user : Users, payment : PaymentIds]
Calls == TransitionCalls \cup CancelCalls \cup RecordCalls \cup VoidCalls

Acks ==
  [order : Orders, key : Keys, method : Methods, tendered : Tenders,
   payment : PaymentIds, amount : Amounts, change : Int]

NoCall == [op |-> "none"]
NoOrder == [status |-> "none"]
IdleTx == [phase |-> "idle", call |-> NoCall, at |-> 0, before |-> NoOrder, seen |-> {}]

Tx ==
  [phase : {"idle", "begun", "locked", "scoped", "read"}, call : Calls \cup {NoCall},
   at : Times, before : OrderRow \cup {NoOrder}, seen : SUBSET PaymentRow]

TypeOK ==
  /\ order \in [Orders -> OrderRow]
  /\ history \in [Orders -> Seq(HistoryRow)]
  /\ payments \in SUBSET PaymentRow
  /\ active \in [Users -> BOOLEAN]
  /\ assigned \in SUBSET (Users \X Outlets)
  /\ open \in SUBSET Outlets
  /\ clock \in Times
  /\ tx \in [Requests -> Tx]
  /\ \A r \in Requests :
       /\ tx[r].phase # "idle" => tx[r].call \in Calls
       /\ tx[r].phase \in {"locked", "scoped", "read"} => tx[r].before \in OrderRow
  /\ acks \in SUBSET Acks
----------------------------------------------------------------------------
(***************************************************************************)
(* Operators of the two services                                           *)
(***************************************************************************)
allowedOrderTransition(from, to) ==
  \/ from = "RECEIVED" /\ to \in {"PROCESSING", "CANCELLED"}
  \/ from = "PROCESSING" /\ to \in {"READY_FOR_PICKUP", "CANCELLED"}
  \/ from = "READY_FOR_PICKUP" /\ to \in {"COMPLETED", "CANCELLED"}

\* A slip: an order whose receipts were all voided is called refunded, a value
\* the column allows and no code may write.
paymentStatusForRefunding(total, paid) ==
  IF paid = 0 THEN "REFUNDED" ELSE IF paid = total THEN "PAID" ELSE "PARTIALLY_PAID"

paymentStatusFor(total, paid) ==
  IF paid = 0 THEN "UNPAID" ELSE IF paid = total THEN "PAID" ELSE "PARTIALLY_PAID"

\* The amount a new payment is credited with: cash above the balance is change.
AppliedAmount(method, tendered, outstanding) ==
  IF method = "CASH" /\ tendered > outstanding THEN outstanding ELSE tendered

changeFor(method, tendered, applied) ==
  IF method = "CASH" THEN tendered - applied ELSE 0

Confirmed(rows) == {p \in rows : p.status = "CONFIRMED"}
PaymentsOf(o) == {p \in payments : p.order = o}

\* GetConfirmedPaymentTotal over a set of rows of one order; a row is told by its id.
ConfirmedTotal(rows) ==
  LET entries == {<<p.id, p.amount>> : p \in Confirmed(rows)}
  IN  SumFunction([e \in entries |-> e[2]])
----------------------------------------------------------------------------
(***************************************************************************)
(* Locks: a transaction past lockLifecycleOrder holds, until it ends, the  *)
(* order, its outlet and the acting user FOR UPDATE.                       *)
(***************************************************************************)
Holding(r) == tx[r].phase \in {"locked", "scoped", "read"}

\* A slip: the outlet missing from FOR UPDATE OF, or locked FOR KEY SHARE.
OutletLockedForgotten(x) == FALSE

OutletLocked(x) == \E r \in Requests : Holding(r) /\ OutletOf[tx[r].call.order] = x

\* A slip: the acting user missing from FOR UPDATE OF.
UserLockedForgotten(u) == FALSE

UserLocked(u) == \E r \in Requests : Holding(r) /\ tx[r].call.user = u

\* A slip: the SELECT of lockLifecycleOrder without its FOR UPDATE.
RowsFreeUnlocked(r) == TRUE

RowsFree(r) ==
  \A s \in Requests \ {r} : Holding(s) =>
    /\ tx[s].call.order # tx[r].call.order
    /\ OutletOf[tx[s].call.order] # OutletOf[tx[r].call.order]
    /\ tx[s].call.user # tx[r].call.user

Finish(r) == tx' = [tx EXCEPT ![r] = IdleTx]

Init ==
  /\ \E total \in [Orders -> Amounts] :
       order = [o \in Orders |->
                 [status |-> "RECEIVED", payment_status |-> "UNPAID",
                  total |-> total[o], deleted |-> FALSE]]
  /\ history = [o \in Orders |-> <<[from |-> "NULL", to |-> "RECEIVED", at |-> 0]>>]
  /\ payments = {}
  /\ active = [u \in Users |-> TRUE]
  /\ assigned = (Users \ Admins) \X Outlets
  /\ open = Outlets
  /\ clock = 0
  /\ tx = [r \in Requests |-> IdleTx]
  /\ acks = {}

\* A handler passed validation and began its transaction: now() is fixed here.
\* The middleware's answer about the user is already old and is not relied on.
Begin(r) ==
  /\ tx[r].phase = "idle"
  /\ \E c \in Calls : tx' = [tx EXCEPT ![r] = [@ EXCEPT !.phase = "begun", !.call = c, !.at = clock]]
  /\ UNCHANGED <<tables, staffing, clock, acks>>

\* GetOrderForUpdate waits for the order, outlet and user rows and reads their
\* latest versions.  Its EXISTS test on user_outlets reads the snapshot of the
\* statement, taken before the wait, so nothing is concluded from it here.
LockOrder(r) ==
  /\ tx[r].phase = "begun"
  /\ RowsFree(r)
  /\ OutletOf[tx[r].call.order] \in open
  /\ active[tx[r].call.user]
  /\ tx' = [tx EXCEPT ![r] = [@ EXCEPT !.phase = "locked", !.before = order[tx[r].call.order]]]
  /\ UNCHANGED <<tables, staffing, clock, acks>>

\* A slip: the second statement forgotten, the EXISTS of the first trusted.
LockAssignmentUnchecked(r) ==
  /\ tx[r].phase = "locked"
  /\ tx' = [tx EXCEPT ![r].phase = "scoped"]
  /\ UNCHANGED <<tables, staffing, clock, acks>>

\* The assignment as it is now.
LockCurrentOrderOutletAssignment(r) ==
  <<tx[r].call.user, OutletOf[tx[r].call.order]>> \in assigned

LockAssignment(r) ==
  /\ tx[r].phase = "locked"
  /\ tx[r].call.user \in Admins \/ LockCurrentOrderOutletAssignment(r)
  /\ tx' = [tx EXCEPT ![r].phase = "scoped"]
  /\ UNCHANGED <<tables, staffing, clock, acks>>
----------------------------------------------------------------------------
(***************************************************************************)
(* The workflow                                                            *)
(***************************************************************************)
AppendHistory(o, r, to) ==
  history' = [history EXCEPT ![o] =
                Append(@, [from |-> tx[r].before.status, to |-> to, at |-> tx[r].at])]

TransitionOrderStatus(o, to) == order' = [order EXCEPT ![o].status = to]

CancelOrder(o) ==
  order' = [order EXCEPT ![o] = [@ EXCEPT !.status = "CANCELLED", !.deleted = TRUE]]

\* A slip: the target checked, the current status not.
TransitionStatusUnchecked(r) ==
  /\ tx[r].phase = "scoped" /\ tx[r].call.op = "TransitionStatus"
  /\ TransitionOrderStatus(tx[r].call.order, tx[r].call.to)
  /\ AppendHistory(tx[r].call.order, r, tx[r].call.to)
  /\ Finish(r)
  /\ UNCHANGED <<payments, staffing, clock, acks>>

TransitionStatus(r) ==
  /\ tx[r].phase = "scoped" /\ tx[r].call.op = "TransitionStatus"
  /\ allowedOrderTransition(tx[r].before.status, tx[r].call.to)
  /\ TransitionOrderStatus(tx[r].call.order, tx[r].call.to)
  /\ AppendHistory(tx[r].call.order, r, tx[r].call.to)
  /\ Finish(r)
  /\ UNCHANGED <<payments, staffing, clock, acks>>

\* A slip: an order is cancelled whatever was paid on it.
CancelPaid(r) ==
  /\ tx[r].phase = "scoped" /\ tx[r].call.op = "Cancel"
  /\ allowedOrderTransition(tx[r].before.status, "CANCELLED")
  /\ CancelOrder(tx[r].call.order)
  /\ AppendHistory(tx[r].call.order, r, "CANCELLED")
  /\ Finish(r)
  /\ UNCHANGED <<payments, staffing, clock, acks>>

Cancel(r) ==
  /\ tx[r].phase = "scoped" /\ tx[r].call.op = "Cancel"
  /\ allowedOrderTransition(tx[r].before.status, "CANCELLED")
  /\ tx[r].before.payment_status = "UNPAID"
  /\ CancelOrder(tx[r].call.order)
  /\ AppendHistory(tx[r].call.order, r, "CANCELLED")
  /\ Finish(r)
  /\ UNCHANGED <<payments, staffing, clock, acks>>
----------------------------------------------------------------------------
(***************************************************************************)
(* The ledger                                                              *)
(***************************************************************************)
\* The payments of the order as the statements after the lock see them.  Record
\* turns a cancelled order away before it reads any.
ReadPayments(r) ==
  /\ tx[r].phase = "scoped"
  /\ \/ tx[r].call.op = "Void"
     \/ /\ tx[r].call.op = "Record"
        /\ tx[r].before.status # "CANCELLED" /\ ~ tx[r].before.deleted
  /\ tx' = [tx EXCEPT ![r] = [@ EXCEPT !.phase = "read", !.seen = PaymentsOf(tx[r].call.order)]]
  /\ UNCHANGED <<tables, staffing, clock, acks>>

\* The next value of the payments id sequence.
NextPaymentId(id) ==
  /\ id \in PaymentIds
  /\ \A p \in payments : p.id # id
  /\ \A i \in PaymentIds : i < id => \E p \in payments : p.id = i

Acknowledge(c, p) ==
  acks' = acks \cup {[order |-> c.order, key |-> c.key, method |-> c.method,
                      tendered |-> c.tendered, payment |-> p.id, amount |-> p.amount,
                      change |-> changeFor(p.method, c.tendered, p.amount)]}

\* UpdateOrderPaymentStatus with the total that is now confirmed.
SetPaymentStatus(r, paid) ==
  order' = [order EXCEPT ![tx[r].call.order].payment_status =
              paymentStatusFor(tx[r].before.total, paid)]

CreateConfirmedPayment(p) == payments' = payments \cup {p}

\* A slip: a key that is already in the ledger is not looked up.
KeyUsedForgotten(rows, key) == FALSE

KeyUsed(rows, key) == \E p \in rows : p.key = key

\* Record of a key the order has not seen.
RecordPayment(r) ==
  LET c == tx[r].call
      paidBefore == ConfirmedTotal(tx[r].seen)
      outstanding == tx[r].before.total - paidBefore
      applied == AppliedAmount(c.method, c.tendered, outstanding)
  IN  /\ tx[r].phase = "read" /\ c.op = "Record"
      /\ ~ KeyUsed(tx[r].seen, c.key)
      /\ outstanding > 0
      /\ applied <= outstanding
      /\ \E id \in PaymentIds :
           LET p == [id |-> id, order |-> c.order, key |-> c.key, method |-> c.method,
                     tendered |-> c.tendered, amount |-> applied, status |-> "CONFIRMED"]
           IN  /\ NextPaymentId(id)
               /\ CreateConfirmedPayment(p)
               /\ Acknowledge(c, p)
      /\ SetPaymentStatus(r, paidBefore + applied)
      /\ Finish(r)
      /\ UNCHANGED <<history, staffing, clock>>

\* Record of a key the order has seen with the same payload: nothing is written
\* and the payment of the first call is reported.
ReplayPayment(r) ==
  /\ tx[r].phase = "read" /\ tx[r].call.op = "Record"
  /\ ConfirmedTotal(tx[r].seen) <= tx[r].before.total
  /\ \E p \in tx[r].seen :
       /\ p.key = tx[r].call.key
       /\ p.method = tx[r].call.method /\ p.tendered = tx[r].call.tendered
       /\ Acknowledge(tx[r].call, p)
  /\ Finish(r)
  /\ UNCHANGED <<tables, staffing, clock>>

GetOrderPaymentForUpdate(r) == {p \in tx[r].seen : p.id = tx[r].call.payment}

VoidConfirmedPayment(p) == payments' = (payments \ {p}) \cup {[p EXCEPT !.status = "VOIDED"]}

\* A slip: the void removes the receipt instead of marking it.
VoidDeleting(r) ==
  /\ tx[r].phase = "read" /\ tx[r].call.op = "Void"
  /\ \E p \in Confirmed(GetOrderPaymentForUpdate(r)) :
       /\ payments' = payments \ {p}
       /\ SetPaymentStatus(r, ConfirmedTotal(tx[r].seen \ {p}))
  /\ Finish(r)
  /\ UNCHANGED <<history, staffing, clock, acks>>

Void(r) ==
  /\ tx[r].phase = "read" /\ tx[r].call.op = "Void"
  /\ \E p \in Confirmed(GetOrderPaymentForUpdate(r)) :
       /\ VoidConfirmedPayment(p)
       /\ ConfirmedTotal(tx[r].seen \ {p}) <= tx[r].before.total
       /\ SetPaymentStatus(r, ConfirmedTotal(tx[r].seen \ {p}))
  /\ Finish(r)
  /\ UNCHANGED <<history, staffing, clock, acks>>

\* Every early return with an error, a repeated void, a cancelled request
\* context, a lost connection or a crash: nothing is written, the locks go.
Rollback(r) ==
  /\ tx[r].phase # "idle"
  /\ Finish(r)
  /\ UNCHANGED <<tables, staffing, clock, acks>>
----------------------------------------------------------------------------
(***************************************************************************)
(* Owners at work in internal/handlers/management.go meanwhile.  These     *)
(* writes need the same rows; module StaffManagement has their own story.  *)
(***************************************************************************)
OwnerOtherThan(u) == \E v \in Admins \ {u} : active[v]

\* An active owner switches another user; nobody deactivates themselves.
UpdateStaff(u) ==
  /\ OwnerOtherThan(u)
  /\ ~ UserLocked(u)
  /\ active' = [active EXCEPT ![u] = ~ @]
  /\ UNCHANGED <<tables, assigned, open, clock, tx, acks>>

ReplaceStaffOutlets(u, outlets) ==
  /\ u \notin Admins /\ OwnerOtherThan(u)
  /\ outlets # {} /\ outlets \subseteq open
  /\ ~ UserLocked(u)
  /\ \A x \in outlets : ~ OutletLocked(x)
  /\ assigned' = {a \in assigned : a[1] # u} \cup ({u} \X outlets)
  /\ UNCHANGED <<tables, active, open, clock, tx, acks>>

\* An outlet is closed only if no active staff member is left without one.
UpdateOutlet(x) ==
  /\ \E v \in Admins : active[v]
  /\ ~ OutletLocked(x)
  /\ \/ x \notin open /\ open' = open \cup {x}
     \/ /\ x \in open /\ open' = open \ {x}
        /\ \A u \in Users \ Admins : active[u] /\ <<u, x>> \in assigned =>
             \E y \in open \ {x} : <<u, y>> \in assigned
  /\ UNCHANGED <<tables, active, assigned, clock, tx, acks>>

Tick ==
  /\ clock < MaxTime
  /\ clock' = clock + 1
  /\ UNCHANGED <<tables, staffing, tx, acks>>

Request(r) ==
  \/ Begin(r) \/ LockOrder(r) \/ LockAssignment(r) \/ ReadPayments(r)
  \/ TransitionStatus(r) \/ Cancel(r) \/ RecordPayment(r) \/ ReplayPayment(r) \/ Void(r)
  \/ Rollback(r)

Management ==
  \/ \E u \in Users : UpdateStaff(u)
  \/ \E u \in Users : \E outlets \in SUBSET Outlets : ReplaceStaffOutlets(u, outlets)
  \/ \E x \in Outlets : UpdateOutlet(x)

Next == (\E r \in Requests : Request(r)) \/ Management \/ Tick

Spec == Init /\ [][Next]_vars
----------------------------------------------------------------------------
(***************************************************************************)
(* Properties                                                              *)
(***************************************************************************)
\* The order's payment_status, kept in another table than the receipts it sums
\* up, always agrees with them, and the confirmed receipts never exceed the
\* order's total, however many calls of Record and Void race (Record, Void).
LedgerBalanced ==
  \A o \in Orders :
    /\ ConfirmedTotal(PaymentsOf(o)) <= order[o].total
    /\ order[o].payment_status =
         paymentStatusFor(order[o].total, ConfirmedTotal(PaymentsOf(o)))

\* No confirmed receipt is left on a cancelled order: Cancel and Record race for
\* the order row and the loser sees what the winner did (Cancel, Record).
CancelledHoldsNoMoney ==
  \A o \in Orders :
    order[o].status = "CANCELLED" => order[o].deleted /\ Confirmed(PaymentsOf(o)) = {}

\* Every success reported under one Idempotency-Key of an order is the same
\* success: a retry, also one after the receipt was voided, names the receipt of
\* the first call, and what the client handed over is the amount credited plus
\* the change (Record, changeFor).
RetriesAgree ==
  /\ \A a, b \in acks : a.order = b.order /\ a.key = b.key => a = b
  /\ \A a \in acks :
       /\ a.tendered = a.amount + a.change
       /\ \E p \in payments : /\ p.id = a.payment /\ p.order = a.order /\ p.key = a.key
                              /\ p.amount = a.amount

\* A receipt is never removed and never altered but for being voided, once and
\* for good (CreateConfirmedPayment, VoidConfirmedPayment).
ReceiptsArePermanent ==
  [][\A p \in payments :
       \/ p \in payments'
       \/ p.status = "CONFIRMED" /\ [p EXCEPT !.status = "VOIDED"] \in payments']_vars

\* The rows of order_status_history, in the order they were committed, are the
\* path the order took: each starts where the one before ended, the last one
\* ends at the order's status, and every step is one the table's CHECK admits.
AdmittedRow(h) ==
  \/ h.from = "NULL" /\ h.to = "RECEIVED"
  \/ h.from = "RECEIVED" /\ h.to \in {"PROCESSING", "CANCELLED"}
  \/ h.from = "PROCESSING" /\ h.to \in {"READY_FOR_PICKUP", "CANCELLED"}
  \/ h.from = "READY_FOR_PICKUP" /\ h.to \in {"COMPLETED", "CANCELLED"}

IsPath(h) ==
  /\ h # <<>> /\ h[1].from = "NULL"
  /\ \A i \in 1 .. Len(h) : AdmittedRow(h[i])
  /\ \A i \in 2 .. Len(h) : h[i].from = h[i - 1].to

HistoryIsPath ==
  \A o \in Orders : IsPath(history[o]) /\ history[o][Len(history[o])].to = order[o].status

Authorised(u, o) ==
  /\ active[u]
  /\ OutletOf[o] \in open
  /\ u \in Admins \/ <<u, OutletOf[o]>> \in assigned

Touched(o) ==
  \/ order'[o] # order[o]
  \/ history'[o] # history[o]
  \/ \E p \in payments' \ payments : p.order = o

\* Whatever changes on an order, its actor is at that moment an active user, the
\* outlet is open and, for staff, assigned to them: deactivation, reassignment
\* and closing an outlet take effect at once, also for requests that passed the
\* middleware before (lockLifecycleOrder).
AuthorityInForce ==
  [][\A o \in Orders : Touched(o) =>
       \E r \in Requests : /\ Holding(r) /\ tx'[r] = IdleTx
                           /\ tx[r].call.order = o
                           /\ Authorised(tx[r].call.user, o)]_vars

\* What the two invariants on money need of the ledger to be kept by every step:
\* receipts have their own ids and a positive amount, and a payment is not
\* computed for a cancelled order.
ReceiptsWellFormed ==
  /\ \A p, q \in payments : p.id = q.id => p = q
  /\ \A p \in payments : p.amount > 0
  /\ \A r \in Requests : tx[r].phase = "read" /\ tx[r].call.op = "Record" =>
       tx[r].before.status # "CANCELLED"

LedgerInv == LedgerBalanced /\ CancelledHoldsNoMoney /\ ReceiptsWellFormed

Current(r) ==
  LET o == tx[r].call.order
  IN  /\ tx[r].before = order[o]
      /\ tx[r].phase = "read" => tx[r].seen = PaymentsOf(o)
      /\ active[tx[r].call.user] /\ OutletOf[o] \in open
      /\ tx[r].phase \in {"scoped", "read"} => Authorised(tx[r].call.user, o)
      /\ RowsFree(r)

\* What a transaction read under its locks is still so when it writes: the order
\* row, the receipts, the user, the outlet and the assignment; and no two
\* transactions hold the same rows (lockLifecycleOrder).  The other properties
\* rest on this one.
ReadsStayCurrent == \A r \in Requests : Holding(r) => Current(r)

\* The detailed ledger implements the account of OrderAccount, where an order
\* advances, is cancelled, is credited and is debited in single steps.
AccountOf(o) ==
  [stage |-> order[o].status, total |-> order[o].total,
   paid |-> ConfirmedTotal(PaymentsOf(o)), standing |-> order[o].payment_status]

Accounts == [o \in Orders |-> AccountOf(o)]

Account == INSTANCE OrderAccount WITH account <- Accounts

ImplementsAccount == Account!Spec
============================================================================
