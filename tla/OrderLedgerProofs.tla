------------------------- MODULE OrderLedgerProofs -------------------------
(***************************************************************************)
(* Proofs about OrderLedger, for any number of requests, orders, outlets   *)
(* and users, any amounts and any bounds.                                  *)
(***************************************************************************)
EXTENDS OrderLedger, SumTheorems, TLAPS

\* Every call names an order and a user, and its op tells which fields it has.
LEMMA CallFields ==
  ASSUME NEW c \in Calls
  PROVE  /\ c.order \in Orders /\ c.user \in Users
         /\ c.op = "TransitionStatus" => c.to \in Statuses
         /\ c.op = "Record" => /\ c.key \in Keys /\ c.method \in Methods
                               /\ c.tendered \in Tenders
  BY DEF Calls, TransitionCalls, CancelCalls, RecordCalls, VoidCalls, Statuses

LEMMA IdleTxType == IdleTx \in Tx
  BY ConstantsAssumption DEF IdleTx, Tx, Times

LEMMA StatusForType ==
  ASSUME NEW total, NEW paid PROVE paymentStatusFor(total, paid) \in PaymentStatuses
  BY DEF paymentStatusFor, PaymentStatuses

\* sum() over rows with an id and an amount: the sum of nothing is zero, and one more row
\* adds its amount.
Entries == PaymentIds \X Amounts
SumOf(entries) == SumFunction([e \in entries |-> e[2]])

LEMMA SumsOfEntries ==
  /\ SumOf({}) = 0
  /\ \A S \in SUBSET Entries : SumOf(S) \in Nat
  /\ \A S \in SUBSET Entries : \A e \in Entries \ S : SumOf(S \cup {e}) = SumOf(S) + e[2]
  <1>1. IsFiniteSet(Entries) /\ \A e \in Entries : e[2] \in Nat
    <2>1. IsFiniteSet(PaymentIds) /\ IsFiniteSet(Amounts)
      BY ConstantsAssumption, FS_Interval DEF PaymentIds, Amounts
    <2>2. IsFiniteSet(PaymentIds \X Amounts)
      BY <2>1, FS_Product
    <2> QED BY <2>2, ConstantsAssumption DEF Entries, Amounts
  <1>2. ASSUME NEW S \in SUBSET Entries
        PROVE  IsFiniteSet(S) /\ SumOf(S) = SumFunctionOnSet([e \in Entries |-> e[2]], S)
    <2>1. IsFiniteSet(S)
      BY <1>1, FS_Subset
    <2>2. SumOf(S) = SumFunctionOnSet([e \in S |-> e[2]], S)
      BY DEF SumOf, SumFunction
    <2> QED BY <2>1, <2>2, SumOfSame
  <1>3. SumOf({}) = 0
    BY SumOfNone DEF SumOf, SumFunction
  <1>4. ASSUME NEW S \in SUBSET Entries PROVE SumOf(S) \in Nat
    BY <1>1, <1>2, SumIsNat
  <1>5. ASSUME NEW S \in SUBSET Entries, NEW e \in Entries \ S
        PROVE  SumOf(S \cup {e}) = SumOf(S) + e[2]
    <2> DEFINE amount == [x \in Entries |-> x[2]]
    <2>1. S \cup {e} \in SUBSET Entries /\ \A y \in S \cup {e} : amount[y] \in Int
      BY <1>1
    <2>2. SumFunctionOnSet(amount, S \cup {e}) = amount[e] + SumFunctionOnSet(amount, S)
      BY <1>2, <1>5, <2>1, SumWithOneMore
    <2>3. amount[e] = e[2] /\ e[2] \in Nat /\ SumOf(S) \in Nat
      BY <1>1, <1>4
    <2> QED BY <1>2, <2>1, <2>2, <2>3
  <1> QED BY <1>3, <1>4, <1>5

LEMMA TotalIsSum ==
  ASSUME NEW rows
  PROVE  ConfirmedTotal(rows) = SumOf({<<p.id, p.amount>> : p \in Confirmed(rows)})
  BY DEF ConfirmedTotal, SumOf

LEMMA TotalIsNat ==
  ASSUME NEW rows \in SUBSET PaymentRow PROVE ConfirmedTotal(rows) \in Nat
  <1>1. {<<p.id, p.amount>> : p \in Confirmed(rows)} \in SUBSET Entries
    BY DEF Confirmed, PaymentRow, Entries
  <1> QED BY <1>1, SumsOfEntries, TotalIsSum

LEMMA ChangeType ==
  ASSUME NEW method, NEW tendered \in Tenders, NEW applied \in Amounts
  PROVE  changeFor(method, tendered, applied) \in Int
  <1>1. tendered \in Int /\ applied \in Int
    BY ConstantsAssumption DEF Amounts
  <1> QED BY <1>1 DEF changeFor

LEMMA FinishType ==
  ASSUME TypeOK, NEW r \in Requests, Finish(r)
  PROVE  /\ tx' \in [Requests -> Tx]
         /\ \A s \in Requests :
              /\ tx'[s].phase # "idle" => tx'[s].call \in Calls
              /\ tx'[s].phase \in {"locked", "scoped", "read"} => tx'[s].before \in OrderRow
  <1>1. tx \in [Requests -> Tx] BY DEF TypeOK
  <1>2. \A s \in Requests : tx'[s] = IF s = r THEN IdleTx ELSE tx[s] BY <1>1 DEF Finish
  <1>3. tx' \in [Requests -> Tx] BY <1>1, IdleTxType DEF Finish
  <1>4. IdleTx.phase = "idle" BY DEF IdleTx
  <1> QED BY <1>2, <1>3, <1>4 DEF TypeOK

\* A transaction that is past its locks: its call, and the row it read.
LEMMA HolderTypes ==
  ASSUME TypeOK, NEW r \in Requests, tx[r].phase \in {"locked", "scoped", "read"}
  PROVE  /\ tx[r].call \in Calls /\ tx[r].call.order \in Orders /\ tx[r].call.user \in Users
         /\ tx[r].before \in OrderRow
         /\ tx[r].seen \in SUBSET PaymentRow
         /\ tx[r].at \in Times
  BY CallFields DEF TypeOK, Tx

LEMMA HistoryType ==
  ASSUME TypeOK, NEW r \in Requests, tx[r].phase = "scoped", NEW to \in Statuses,
         AppendHistory(tx[r].call.order, r, to)
  PROVE  history' \in [Orders -> Seq(HistoryRow)]
  <1> DEFINE row == [from |-> tx[r].before.status, to |-> to, at |-> tx[r].at]
  <1>1. row \in HistoryRow BY HolderTypes DEF HistoryRow, OrderRow
  <1>2. \A h \in Seq(HistoryRow) : Append(h, row) \in Seq(HistoryRow) BY <1>1
  <1> QED BY <1>2 DEF AppendHistory, TypeOK

LEMMA SetStatusType ==
  ASSUME TypeOK, NEW r \in Requests, tx[r].phase = "read", NEW paid, SetPaymentStatus(r, paid)
  PROVE  order' \in [Orders -> OrderRow]
  <1>1. order \in [Orders -> OrderRow] BY DEF TypeOK
  <1>2. paymentStatusFor(tx[r].before.total, paid) \in PaymentStatuses BY StatusForType
  <1> QED BY <1>1, <1>2 DEF SetPaymentStatus, OrderRow

LEMMA TypeInit == Init => TypeOK
  <1> SUFFICES ASSUME Init PROVE TypeOK
    OBVIOUS
  <1>1. PICK total \in [Orders -> Amounts] :
          order = [o \in Orders |-> [status |-> "RECEIVED", payment_status |-> "UNPAID",
                                     total |-> total[o], deleted |-> FALSE]]
    BY DEF Init
  <1>2. order \in [Orders -> OrderRow]
    BY <1>1 DEF OrderRow, Statuses, PaymentStatuses
  <1>3. <<[from |-> "NULL", to |-> "RECEIVED", at |-> 0]>> \in Seq(HistoryRow)
    BY ConstantsAssumption DEF HistoryRow, Statuses, Times
  <1>4. history \in [Orders -> Seq(HistoryRow)]
    BY <1>3 DEF Init
  <1>5. tx \in [Requests -> Tx] /\ \A r \in Requests : tx[r].phase = "idle"
    BY IdleTxType DEF Init, IdleTx
  <1>6. payments \in SUBSET PaymentRow /\ acks \in SUBSET Acks
    BY DEF Init
  <1>7. active \in [Users -> BOOLEAN] /\ assigned \in SUBSET (Users \X Outlets)
    BY DEF Init
  <1>8. open \in SUBSET Outlets /\ clock \in Times
    BY ConstantsAssumption DEF Init, Times
  <1> QED BY <1>2, <1>4, <1>5, <1>6, <1>7, <1>8 DEF TypeOK

\* A step of a request that only moves its transaction on, or ends it.
LEMMA TypeQuiet ==
  ASSUME TypeOK, tx' \in [Requests -> Tx],
         \A r \in Requests :
           /\ tx'[r].phase # "idle" => tx'[r].call \in Calls
           /\ tx'[r].phase \in {"locked", "scoped", "read"} => tx'[r].before \in OrderRow,
         UNCHANGED <<tables, staffing, clock, acks>>
  PROVE  TypeOK'
  BY DEF TypeOK, tables, staffing

LEMMA TypeNext == TypeOK /\ [Next]_vars => TypeOK'
  <1> SUFFICES ASSUME TypeOK, [Next]_vars PROVE TypeOK'
    OBVIOUS
  <1>types. /\ order \in [Orders -> OrderRow] /\ tx \in [Requests -> Tx]
            /\ payments \in SUBSET PaymentRow /\ acks \in SUBSET Acks
    BY DEF TypeOK
  <1>1. ASSUME NEW r \in Requests, Begin(r) PROVE TypeOK'
    <2>1. PICK c \in Calls :
            tx' = [tx EXCEPT ![r] = [@ EXCEPT !.phase = "begun", !.call = c, !.at = clock]]
      BY <1>1 DEF Begin
    <2>2. [tx[r] EXCEPT !.phase = "begun", !.call = c, !.at = clock] \in Tx
      BY <1>types DEF Tx, TypeOK
    <2> QED BY <2>1, <2>2, <1>1, <1>types, TypeQuiet DEF Begin, TypeOK, Tx
  <1>2. ASSUME NEW r \in Requests, LockOrder(r) PROVE TypeOK'
    <2>1. tx[r].call \in Calls /\ tx[r].call.order \in Orders
      BY <1>2, CallFields DEF LockOrder, TypeOK
    <2>2. order[tx[r].call.order] \in OrderRow
      BY <2>1, <1>types
    <2>3. [tx[r] EXCEPT !.phase = "locked", !.before = order[tx[r].call.order]] \in Tx
      BY <1>types, <2>2 DEF Tx
    <2> QED BY <1>2, <2>1, <2>2, <2>3, <1>types, TypeQuiet DEF LockOrder, TypeOK, Tx
  <1>3. ASSUME NEW r \in Requests, LockAssignment(r) PROVE TypeOK'
    <2>1. [tx[r] EXCEPT !.phase = "scoped"] \in Tx
      BY <1>types DEF Tx
    <2> QED BY <1>3, <2>1, <1>types, TypeQuiet DEF LockAssignment, TypeOK, Tx
  <1>4. ASSUME NEW r \in Requests, ReadPayments(r) PROVE TypeOK'
    <2>1. [tx[r] EXCEPT !.phase = "read", !.seen = PaymentsOf(tx[r].call.order)] \in Tx
      BY <1>types DEF Tx, PaymentsOf
    <2> QED BY <1>4, <2>1, <1>types, TypeQuiet DEF ReadPayments, TypeOK, Tx
  <1>5. ASSUME NEW r \in Requests, TransitionStatus(r) PROVE TypeOK'
    <2>1. tx[r].call \in Calls /\ tx[r].call.order \in Orders /\ tx[r].call.to \in Statuses
      BY <1>5, HolderTypes, CallFields DEF TransitionStatus
    <2>2. order' \in [Orders -> OrderRow]
      BY <1>5, <1>types, <2>1 DEF TransitionStatus, TransitionOrderStatus, OrderRow
    <2>3. history' \in [Orders -> Seq(HistoryRow)]
      BY <1>5, <2>1, HistoryType DEF TransitionStatus
    <2> QED BY <1>5, <2>2, <2>3, FinishType DEF TransitionStatus, TypeOK, staffing
  <1>6. ASSUME NEW r \in Requests, Cancel(r) PROVE TypeOK'
    <2>1. tx[r].call.order \in Orders /\ "CANCELLED" \in Statuses
      BY <1>6, HolderTypes DEF Cancel, Statuses
    <2>2. order' \in [Orders -> OrderRow]
      BY <1>6, <1>types, <2>1 DEF Cancel, CancelOrder, OrderRow
    <2>3. history' \in [Orders -> Seq(HistoryRow)]
      BY <1>6, <2>1, HistoryType DEF Cancel
    <2> QED BY <1>6, <2>2, <2>3, FinishType DEF Cancel, TypeOK, staffing
  <1>7. ASSUME NEW r \in Requests, RecordPayment(r) PROVE TypeOK'
    <2> DEFINE c == tx[r].call
               outstanding == tx[r].before.total - ConfirmedTotal(tx[r].seen)
               applied == AppliedAmount(c.method, c.tendered, outstanding)
               row(id) == [id |-> id, order |-> c.order, key |-> c.key, method |-> c.method,
                           tendered |-> c.tendered, amount |-> applied, status |-> "CONFIRMED"]
    <2>1. /\ c \in Calls /\ c.order \in Orders /\ c.key \in Keys /\ c.method \in Methods
          /\ c.tendered \in Tenders
      BY <1>7, HolderTypes, CallFields DEF RecordPayment
    <2>2. applied \in Amounts
      <3>1. ConfirmedTotal(tx[r].seen) \in Nat /\ tx[r].before.total \in Amounts
        BY <1>7, HolderTypes, TotalIsNat DEF RecordPayment, OrderRow
      <3>2. outstanding > 0 /\ applied <= outstanding
        BY <1>7 DEF RecordPayment
      <3>3. applied = outstanding \/ applied = c.tendered
        BY DEF AppliedAmount
      <3>4. tx[r].before.total \in Nat /\ tx[r].before.total <= MaxAmount
        BY <3>1, ConstantsAssumption DEF Amounts
      <3>5. outstanding \in Nat /\ outstanding <= tx[r].before.total
        BY <3>1, <3>2, <3>4
      <3>6. c.tendered \in Nat
        BY <2>1, ConstantsAssumption
      <3> HIDE DEF applied, outstanding
      <3> QED BY <3>2, <3>3, <3>4, <3>5, <3>6, ConstantsAssumption DEF Amounts
    <2>3. PICK id \in PaymentIds :
            payments' = payments \cup {row(id)} /\ Acknowledge(c, row(id))
      BY <1>7 DEF RecordPayment, CreateConfirmedPayment
    <2>4. row(id) \in PaymentRow
      BY <2>1, <2>2 DEF PaymentRow
    <2>5. payments' \in SUBSET PaymentRow
      BY <2>3, <2>4, <1>types
    <2>6. changeFor(c.method, c.tendered, applied) \in Int
      BY <2>1, <2>2, ChangeType
    <2>7. acks' \in SUBSET Acks
      BY <2>1, <2>2, <2>3, <2>6, <1>types DEF Acknowledge, Acks
    <2>8. order' \in [Orders -> OrderRow]
      BY <1>7, SetStatusType DEF RecordPayment
    <2> QED BY <1>7, <2>5, <2>7, <2>8, FinishType DEF RecordPayment, TypeOK, staffing
  <1>8. ASSUME NEW r \in Requests, ReplayPayment(r) PROVE TypeOK'
    <2> DEFINE c == tx[r].call
    <2>1. /\ c \in Calls /\ c.order \in Orders /\ c.key \in Keys /\ c.method \in Methods
          /\ c.tendered \in Tenders /\ tx[r].seen \in SUBSET PaymentRow
      BY <1>8, HolderTypes, CallFields DEF ReplayPayment
    <2>2. PICK p \in tx[r].seen : Acknowledge(c, p)
      BY <1>8 DEF ReplayPayment
    <2>3. p.id \in PaymentIds /\ p.amount \in Amounts
      BY <2>1 DEF PaymentRow
    <2>4. changeFor(p.method, c.tendered, p.amount) \in Int
      BY <2>1, <2>3, ChangeType
    <2>5. acks' \in SUBSET Acks
      BY <2>1, <2>2, <2>3, <2>4, <1>types DEF Acknowledge, Acks
    <2> QED BY <1>8, <2>5, FinishType DEF ReplayPayment, TypeOK, tables, staffing
  <1>9. ASSUME NEW r \in Requests, Void(r) PROVE TypeOK'
    <2>1. tx[r].seen \in SUBSET PaymentRow
      BY <1>9, HolderTypes DEF Void
    <2>2. PICK p \in Confirmed(tx[r].seen) :
            /\ payments' = (payments \ {p}) \cup {[p EXCEPT !.status = "VOIDED"]}
            /\ SetPaymentStatus(r, ConfirmedTotal(tx[r].seen \ {p}))
      BY <1>9 DEF Void, VoidConfirmedPayment, GetOrderPaymentForUpdate, Confirmed
    <2>3. [p EXCEPT !.status = "VOIDED"] \in PaymentRow
      BY <2>1 DEF Confirmed, PaymentRow
    <2>4. payments' \in SUBSET PaymentRow
      BY <2>2, <2>3, <1>types
    <2>5. order' \in [Orders -> OrderRow]
      BY <1>9, <2>2, SetStatusType DEF Void
    <2> QED BY <1>9, <2>4, <2>5, FinishType DEF Void, TypeOK, staffing
  <1>10. ASSUME NEW r \in Requests, Rollback(r) PROVE TypeOK'
    BY <1>10, FinishType, TypeQuiet DEF Rollback
  <1>11. ASSUME NEW u \in Users, UpdateStaff(u) PROVE TypeOK'
    BY <1>11 DEF UpdateStaff, TypeOK, tables
  <1>12. ASSUME NEW u \in Users, NEW outlets \in SUBSET Outlets, ReplaceStaffOutlets(u, outlets)
         PROVE TypeOK'
    BY <1>12 DEF ReplaceStaffOutlets, TypeOK, tables
  <1>13. ASSUME NEW x \in Outlets, UpdateOutlet(x) PROVE TypeOK'
    BY <1>13 DEF UpdateOutlet, TypeOK, tables
  <1>14. CASE Tick
    BY <1>14, ConstantsAssumption DEF Tick, TypeOK, tables, staffing, Times
  <1>15. CASE UNCHANGED vars
    BY <1>15 DEF vars, TypeOK
  <1> QED
    BY <1>1, <1>2, <1>3, <1>4, <1>5, <1>6, <1>7, <1>8, <1>9, <1>10, <1>11, <1>12, <1>13,
       <1>14, <1>15 DEF Next, Request, Management

\* Every variable keeps the type of the table, lock or report it stands for.
THEOREM TypeCorrect == Spec => []TypeOK
  BY TypeInit, TypeNext, PTL DEF Spec
----------------------------------------------------------------------------
(***************************************************************************)
(* Nothing a transaction read changes while it holds its locks             *)
(***************************************************************************)
\* The state with which a transaction ends: the rows of others are untouched.
LEMMA CurrentAfterFinish ==
  ASSUME TypeOK, ReadsStayCurrent, NEW r \in Requests, Finish(r), UNCHANGED staffing,
         Holding(r) => \A o \in Orders \ {tx[r].call.order} :
                         order'[o] = order[o] /\ PaymentsOf(o)' = PaymentsOf(o),
         ~ Holding(r) => UNCHANGED <<order, payments>>
  PROVE  ReadsStayCurrent'
  <1>1. /\ tx'[r] = IdleTx
        /\ \A s \in Requests \ {r} : tx'[s] = tx[s]
    BY DEF Finish, TypeOK
  <1>2. ~ Holding(r)' /\ \A s \in Requests \ {r} : Holding(s)' <=> Holding(s)
    BY <1>1 DEF Holding, IdleTx
  <1> SUFFICES ASSUME NEW s \in Requests, Holding(s)' PROVE Current(s)'
    BY DEF ReadsStayCurrent
  <1>3. s # r /\ tx'[s] = tx[s] /\ Holding(s) /\ Current(s)
    BY <1>1, <1>2 DEF ReadsStayCurrent
  <1>4. tx[s].call.order \in Orders
    BY <1>3, HolderTypes DEF Holding
  <1>5. /\ order'[tx[s].call.order] = order[tx[s].call.order]
        /\ PaymentsOf(tx[s].call.order)' = PaymentsOf(tx[s].call.order)
    <2>1. CASE Holding(r)
      BY <2>1, <1>3, <1>4 DEF Current, RowsFree
    <2>2. CASE ~ Holding(r)
      BY <2>2, <1>3 DEF PaymentsOf
    <2> QED BY <2>1, <2>2
  <1>6. RowsFree(s)'
    BY <1>1, <1>2, <1>3 DEF Current, RowsFree
  <1> QED BY <1>3, <1>5, <1>6 DEF Current, Authorised, staffing, PaymentsOf

\* A step that writes no table and moves one transaction on, without taking
\* locks: what it now holds must be current.
LEMMA CurrentAfterMove ==
  ASSUME TypeOK, ReadsStayCurrent, NEW r \in Requests,
         UNCHANGED <<tables, staffing>>,
         \A s \in Requests \ {r} : tx'[s] = tx[s],
         tx'[r].call = tx[r].call,
         Holding(r)' => Current(r)',
         Holding(r)' => RowsFree(r)
  PROVE  ReadsStayCurrent'
  <1> SUFFICES ASSUME NEW s \in Requests, s # r, Holding(s)' PROVE Current(s)'
    BY DEF ReadsStayCurrent
  <1>1. tx'[s] = tx[s] /\ Holding(s) /\ Current(s)
    BY DEF Holding, ReadsStayCurrent
  <1>2. RowsFree(s)'
    BY <1>1 DEF Current, RowsFree, Holding
  <1> QED BY <1>1, <1>2 DEF Current, Authorised, tables, staffing, PaymentsOf

LEMMA CurrentInit == Init => ReadsStayCurrent
  BY DEF Init, ReadsStayCurrent, Holding, IdleTx

LEMMA CurrentNext == TypeOK /\ ReadsStayCurrent /\ [Next]_vars => ReadsStayCurrent'
  <1> SUFFICES ASSUME TypeOK, ReadsStayCurrent, [Next]_vars PROVE ReadsStayCurrent'
    OBVIOUS
  <1>types. tx \in [Requests -> Tx] /\ order \in [Orders -> OrderRow]
    BY DEF TypeOK
  <1>1. ASSUME NEW r \in Requests, Begin(r) PROVE ReadsStayCurrent'
    <2>1. \A s \in Requests : s # r => tx'[s] = tx[s]
      BY <1>1, <1>types DEF Begin
    <2>2. tx'[r].phase = "begun" /\ tx[r].phase = "idle"
      BY <1>1, <1>types DEF Begin, Tx
    <2> SUFFICES ASSUME NEW s \in Requests, Holding(s)' PROVE Current(s)'
      BY DEF ReadsStayCurrent
    <2>3. s # r /\ tx'[s] = tx[s] /\ Holding(s) /\ Current(s)
      BY <2>1, <2>2 DEF Holding, ReadsStayCurrent
    <2>4. RowsFree(s)'
      BY <2>1, <2>2, <2>3 DEF Current, RowsFree, Holding
    <2> QED BY <1>1, <2>3, <2>4 DEF Begin, Current, Authorised, tables, staffing, PaymentsOf
  <1>2. ASSUME NEW r \in Requests, LockOrder(r) PROVE ReadsStayCurrent'
    <2>1. /\ \A s \in Requests \ {r} : tx'[s] = tx[s]
          /\ tx'[r].call = tx[r].call /\ tx'[r].phase = "locked"
          /\ tx'[r].before = order[tx[r].call.order]
      BY <1>2, <1>types DEF LockOrder, Tx
    <2>2. RowsFree(r) /\ RowsFree(r)'
      BY <1>2, <2>1 DEF LockOrder, RowsFree, Holding
    <2>3. Current(r)'
      BY <1>2, <2>1, <2>2 DEF LockOrder, Current, tables, staffing
    <2> QED BY <1>2, <2>1, <2>2, <2>3, CurrentAfterMove DEF LockOrder
  <1>3. ASSUME NEW r \in Requests, LockAssignment(r) PROVE ReadsStayCurrent'
    <2>1. /\ \A s \in Requests \ {r} : tx'[s] = tx[s]
          /\ tx'[r].call = tx[r].call /\ tx'[r].phase = "scoped"
          /\ tx'[r].before = tx[r].before
      BY <1>3, <1>types DEF LockAssignment, Tx
    <2>2. Holding(r) /\ Current(r)
      BY <1>3 DEF LockAssignment, Holding, ReadsStayCurrent
    <2>3. RowsFree(r) /\ RowsFree(r)'
      BY <2>1, <2>2 DEF Current, RowsFree, Holding
    <2>4. Current(r)'
      BY <1>3, <2>1, <2>2, <2>3 DEF LockAssignment, LockCurrentOrderOutletAssignment, Current, Authorised, tables, staffing
    <2> QED BY <1>3, <2>1, <2>3, <2>4, CurrentAfterMove DEF LockAssignment
  <1>4. ASSUME NEW r \in Requests, ReadPayments(r) PROVE ReadsStayCurrent'
    <2>1. /\ \A s \in Requests \ {r} : tx'[s] = tx[s]
          /\ tx'[r].call = tx[r].call /\ tx'[r].phase = "read"
          /\ tx'[r].before = tx[r].before /\ tx'[r].seen = PaymentsOf(tx[r].call.order)
      BY <1>4, <1>types DEF ReadPayments, Tx
    <2>2. Holding(r) /\ Current(r) /\ tx[r].phase = "scoped"
      BY <1>4 DEF ReadPayments, Holding, ReadsStayCurrent
    <2>3. RowsFree(r) /\ RowsFree(r)'
      BY <2>1, <2>2 DEF Current, RowsFree, Holding
    <2>4. Current(r)'
      BY <1>4, <2>1, <2>2, <2>3 DEF ReadPayments, Current, Authorised, PaymentsOf, tables, staffing
    <2> QED BY <1>4, <2>1, <2>3, <2>4, CurrentAfterMove DEF ReadPayments
  <1>5. ASSUME NEW r \in Requests, TransitionStatus(r) PROVE ReadsStayCurrent'
    <2>1. \A o \in Orders \ {tx[r].call.order} :
            order'[o] = order[o] /\ PaymentsOf(o)' = PaymentsOf(o)
      BY <1>5, <1>types DEF TransitionStatus, TransitionOrderStatus, PaymentsOf
    <2> QED BY <1>5, <2>1, CurrentAfterFinish DEF TransitionStatus, Holding
  <1>6. ASSUME NEW r \in Requests, Cancel(r) PROVE ReadsStayCurrent'
    <2>1. \A o \in Orders \ {tx[r].call.order} :
            order'[o] = order[o] /\ PaymentsOf(o)' = PaymentsOf(o)
      BY <1>6, <1>types DEF Cancel, CancelOrder, PaymentsOf
    <2> QED BY <1>6, <2>1, CurrentAfterFinish DEF Cancel, Holding
  <1>7. ASSUME NEW r \in Requests, RecordPayment(r) PROVE ReadsStayCurrent'
    <2>1. \A o \in Orders \ {tx[r].call.order} : order'[o] = order[o]
      BY <1>7, <1>types DEF RecordPayment, SetPaymentStatus
    <2>2. PICK p : payments' = payments \cup {p} /\ p.order = tx[r].call.order
      BY <1>7 DEF RecordPayment, CreateConfirmedPayment
    <2>3. \A o \in Orders \ {tx[r].call.order} : PaymentsOf(o)' = PaymentsOf(o)
      BY <2>2 DEF PaymentsOf
    <2> QED BY <1>7, <2>1, <2>3, CurrentAfterFinish DEF RecordPayment, Holding
  <1>8. ASSUME NEW r \in Requests, ReplayPayment(r) PROVE ReadsStayCurrent'
    BY <1>8, CurrentAfterFinish DEF ReplayPayment, Holding, tables, PaymentsOf
  <1>9. ASSUME NEW r \in Requests, Void(r) PROVE ReadsStayCurrent'
    <2>1. \A o \in Orders \ {tx[r].call.order} : order'[o] = order[o]
      BY <1>9, <1>types DEF Void, SetPaymentStatus
    <2>2. PICK p \in Confirmed(tx[r].seen) :
            payments' = (payments \ {p}) \cup {[p EXCEPT !.status = "VOIDED"]}
      BY <1>9 DEF Void, VoidConfirmedPayment, GetOrderPaymentForUpdate, Confirmed
    <2>3. Holding(r) /\ p \in PaymentsOf(tx[r].call.order)
      BY <1>9, <2>2 DEF Void, Holding, ReadsStayCurrent, Current, Confirmed
    <2>4. [p EXCEPT !.status = "VOIDED"].order = tx[r].call.order /\ p.order = tx[r].call.order
      BY <2>3 DEF PaymentsOf, TypeOK, PaymentRow
    <2>5. \A o \in Orders \ {tx[r].call.order} : PaymentsOf(o)' = PaymentsOf(o)
      BY <2>2, <2>4 DEF PaymentsOf
    <2> QED BY <1>9, <2>1, <2>3, <2>5, CurrentAfterFinish DEF Void
  <1>10. ASSUME NEW r \in Requests, Rollback(r) PROVE ReadsStayCurrent'
    BY <1>10, CurrentAfterFinish DEF Rollback, tables, PaymentsOf
  <1>11. ASSUME NEW u \in Users, UpdateStaff(u) PROVE ReadsStayCurrent'
    <2>1. \A v \in Users \ {u} : active'[v] = active[v]
      BY <1>11 DEF UpdateStaff, TypeOK
    <2> SUFFICES ASSUME NEW s \in Requests, Holding(s) PROVE Current(s)'
      BY <1>11 DEF UpdateStaff, ReadsStayCurrent, Holding
    <2>2. Current(s) /\ tx[s].call.user \in Users \ {u}
      BY <1>11, HolderTypes DEF UpdateStaff, UserLocked, ReadsStayCurrent, Holding
    <2>3. RowsFree(s)'
      BY <1>11, <2>2 DEF UpdateStaff, Current, RowsFree, Holding
    <2> QED BY <1>11, <2>1, <2>2, <2>3 DEF UpdateStaff, Current, Authorised, PaymentsOf, tables
  <1>12. ASSUME NEW u \in Users, NEW outlets \in SUBSET Outlets, ReplaceStaffOutlets(u, outlets)
         PROVE ReadsStayCurrent'
    <2>1. \A v \in Users \ {u} : \A x \in Outlets :
            <<v, x>> \in assigned' <=> <<v, x>> \in assigned
      BY <1>12 DEF ReplaceStaffOutlets
    <2> SUFFICES ASSUME NEW s \in Requests, Holding(s) PROVE Current(s)'
      BY <1>12 DEF ReplaceStaffOutlets, ReadsStayCurrent, Holding
    <2>2. /\ Current(s) /\ tx[s].call.user \in Users \ {u}
          /\ OutletOf[tx[s].call.order] \in Outlets
      BY <1>12, HolderTypes, ConstantsAssumption
         DEF ReplaceStaffOutlets, UserLocked, ReadsStayCurrent, Holding
    <2>3. RowsFree(s)'
      BY <1>12, <2>2 DEF ReplaceStaffOutlets, Current, RowsFree, Holding
    <2> QED BY <1>12, <2>1, <2>2, <2>3
            DEF ReplaceStaffOutlets, Current, Authorised, PaymentsOf, tables
  <1>13. ASSUME NEW x \in Outlets, UpdateOutlet(x) PROVE ReadsStayCurrent'
    <2>1. \A y \in Outlets \ {x} : y \in open' <=> y \in open
      BY <1>13 DEF UpdateOutlet
    <2> SUFFICES ASSUME NEW s \in Requests, Holding(s) PROVE Current(s)'
      BY <1>13 DEF UpdateOutlet, ReadsStayCurrent, Holding
    <2>2. Current(s) /\ OutletOf[tx[s].call.order] \in Outlets \ {x}
      BY <1>13, HolderTypes, ConstantsAssumption
         DEF UpdateOutlet, OutletLocked, ReadsStayCurrent, Holding
    <2>3. RowsFree(s)'
      BY <1>13, <2>2 DEF UpdateOutlet, Current, RowsFree, Holding
    <2> QED BY <1>13, <2>1, <2>2, <2>3 DEF UpdateOutlet, Current, Authorised, PaymentsOf, tables
  <1>14. CASE Tick
    BY <1>14 DEF Tick, ReadsStayCurrent, Holding, Current, Authorised, RowsFree, PaymentsOf,
                 tables, staffing
  <1>15. CASE UNCHANGED vars
    BY <1>15 DEF vars, ReadsStayCurrent, Holding, Current, Authorised, RowsFree, PaymentsOf
  <1> QED
    BY <1>1, <1>2, <1>3, <1>4, <1>5, <1>6, <1>7, <1>8, <1>9, <1>10, <1>11, <1>12, <1>13,
       <1>14, <1>15 DEF Next, Request, Management

\* What a transaction read under its locks is current until it ends.
THEOREM ReadsCurrent == Spec => []ReadsStayCurrent
  BY TypeInit, TypeNext, CurrentInit, CurrentNext, PTL DEF Spec
----------------------------------------------------------------------------
(***************************************************************************)
(* Who may change an order                                                 *)
(***************************************************************************)
LEMMA AuthorityStep ==
  ASSUME TypeOK, ReadsStayCurrent, [Next]_vars, NEW o \in Orders, Touched(o)
  PROVE  \E r \in Requests : /\ Holding(r) /\ tx'[r] = IdleTx
                             /\ tx[r].call.order = o
                             /\ Authorised(tx[r].call.user, o)
  <1>types. /\ order \in [Orders -> OrderRow] /\ tx \in [Requests -> Tx]
            /\ history \in [Orders -> Seq(HistoryRow)]
    BY DEF TypeOK
  <1>held. ASSUME NEW r \in Requests, tx[r].phase \in {"scoped", "read"}, Finish(r),
                  tx[r].call.order = o
           PROVE  /\ Holding(r) /\ tx'[r] = IdleTx
                  /\ Authorised(tx[r].call.user, o)
    BY <1>held, <1>types DEF Finish, Holding, ReadsStayCurrent, Current
  <1>quiet. ~ UNCHANGED tables
    BY DEF Touched, tables
  <1>1. ASSUME NEW r \in Requests, TransitionStatus(r) \/ Cancel(r)
        PROVE  tx[r].phase = "scoped" /\ Finish(r) /\ tx[r].call.order = o
    <2>1. \A x \in Orders \ {tx[r].call.order} : order'[x] = order[x] /\ history'[x] = history[x]
      BY <1>1, <1>types DEF TransitionStatus, TransitionOrderStatus, Cancel, CancelOrder, AppendHistory
    <2> QED BY <1>1, <2>1 DEF TransitionStatus, Cancel, Touched
  <1>2. ASSUME NEW r \in Requests, RecordPayment(r)
        PROVE  tx[r].phase = "read" /\ Finish(r) /\ tx[r].call.order = o
    <2>1. \A x \in Orders \ {tx[r].call.order} : order'[x] = order[x]
      BY <1>2, <1>types DEF RecordPayment, SetPaymentStatus
    <2>2. PICK p : payments' = payments \cup {p} /\ p.order = tx[r].call.order
      BY <1>2 DEF RecordPayment, CreateConfirmedPayment
    <2> QED BY <1>2, <2>1, <2>2 DEF RecordPayment, Touched
  <1>3. ASSUME NEW r \in Requests, Void(r)
        PROVE  tx[r].phase = "read" /\ Finish(r) /\ tx[r].call.order = o
    <2>1. \A x \in Orders \ {tx[r].call.order} : order'[x] = order[x]
      BY <1>3, <1>types DEF Void, SetPaymentStatus
    <2>2. PICK p \in Confirmed(tx[r].seen) :
            payments' = (payments \ {p}) \cup {[p EXCEPT !.status = "VOIDED"]}
      BY <1>3 DEF Void, VoidConfirmedPayment, GetOrderPaymentForUpdate, Confirmed
    <2>3. p \in PaymentsOf(tx[r].call.order)
      BY <1>3, <2>2 DEF Void, Holding, ReadsStayCurrent, Current, Confirmed
    <2>4. [p EXCEPT !.status = "VOIDED"].order = tx[r].call.order
      BY <2>3 DEF PaymentsOf, TypeOK, PaymentRow
    <2> QED BY <1>3, <2>1, <2>2, <2>4 DEF Void, Touched
  <1>4. \E r \in Requests :
          TransitionStatus(r) \/ Cancel(r) \/ RecordPayment(r) \/ Void(r)
    BY <1>quiet DEF Next, Request, Management, vars, tables, Begin, LockOrder, LockAssignment,
         ReadPayments, ReplayPayment, Rollback, UpdateStaff, ReplaceStaffOutlets, UpdateOutlet, Tick
  <1> QED BY <1>held, <1>1, <1>2, <1>3, <1>4

\* An order is only ever changed by a request whose user is, at that moment, an
\* active user with authority over the order's open outlet.
THEOREM AuthorityAlwaysInForce == Spec => AuthorityInForce
  <1> DEFINE Answerable ==
        \A o \in Orders : Touched(o) =>
          \E r \in Requests : /\ Holding(r) /\ tx'[r] = IdleTx
                              /\ tx[r].call.order = o
                              /\ Authorised(tx[r].call.user, o)
  <1>1. TypeOK /\ ReadsStayCurrent /\ [Next]_vars => [Answerable]_vars
    BY AuthorityStep
  <1>2. Spec => [][Answerable]_vars
    BY <1>1, TypeInit, TypeNext, CurrentInit, CurrentNext, PTL DEF Spec
  <1> QED BY <1>2 DEF AuthorityInForce
----------------------------------------------------------------------------
(***************************************************************************)
(* Money                                                                   *)
(***************************************************************************)
LEMMA TenderedPositive ==
  ASSUME NEW tendered \in Tenders PROVE tendered \in Nat /\ tendered > 0
  <1>1. tendered \in Nat /\ tendered # 0
    BY ConstantsAssumption
  <1> QED BY <1>1

LEMMA TotalOfNone ==
  ASSUME NEW rows, Confirmed(rows) = {} PROVE ConfirmedTotal(rows) = 0
  <1>1. {<<p.id, p.amount>> : p \in Confirmed(rows)} = {}
    OBVIOUS
  <1> QED BY <1>1, SumsOfEntries, TotalIsSum

\* A confirmed receipt with an id of its own adds its amount to the total.
LEMMA TotalWithOneMore ==
  ASSUME NEW rows \in SUBSET PaymentRow, NEW p \in PaymentRow, p.status = "CONFIRMED",
         \A q \in rows : q.id # p.id
  PROVE  ConfirmedTotal(rows \cup {p}) = ConfirmedTotal(rows) + p.amount
  <1> DEFINE entries == {<<q.id, q.amount>> : q \in Confirmed(rows)}
             entry == <<p.id, p.amount>>
  <1>1. entries \in SUBSET Entries /\ entry \in Entries
    BY DEF Confirmed, PaymentRow, Entries
  <1>2. entry \notin entries
    BY DEF Confirmed
  <1>3. {<<q.id, q.amount>> : q \in Confirmed(rows \cup {p})} = entries \cup {entry}
    BY DEF Confirmed
  <1>4. SumOf(entries \cup {entry}) = SumOf(entries) + entry[2]
    BY <1>1, <1>2, SumsOfEntries
  <1> QED BY <1>3, <1>4, TotalIsSum

\* Voided receipts do not count.
LEMMA TotalIgnoresVoided ==
  ASSUME NEW rows, NEW p, p.status # "CONFIRMED"
  PROVE  ConfirmedTotal(rows \cup {p}) = ConfirmedTotal(rows)
  <1>1. Confirmed(rows \cup {p}) = Confirmed(rows)
    BY DEF Confirmed
  <1> QED BY <1>1 DEF ConfirmedTotal

\* The total of a ledger without one of its confirmed receipts.
LEMMA TotalWithOneLess ==
  ASSUME NEW rows \in SUBSET PaymentRow, NEW p \in Confirmed(rows),
         \A q \in rows : q.id = p.id => q = p
  PROVE  /\ ConfirmedTotal(rows) = ConfirmedTotal(rows \ {p}) + p.amount
         /\ ConfirmedTotal(rows \ {p}) \in Nat
  <1>1. p \in PaymentRow /\ p.status = "CONFIRMED" /\ p \in rows
    BY DEF Confirmed
  <1>2. (rows \ {p}) \cup {p} = rows /\ rows \ {p} \in SUBSET PaymentRow
    BY <1>1
  <1>3. \A q \in rows \ {p} : q.id # p.id
    OBVIOUS
  <1>4. ConfirmedTotal((rows \ {p}) \cup {p}) = ConfirmedTotal(rows \ {p}) + p.amount
    BY <1>1, <1>2, <1>3, TotalWithOneMore
  <1> QED BY <1>2, <1>4, TotalIsNat

\* A step that leaves the ledger and the money columns of the orders alone.
LEMMA LedgerUntouched ==
  ASSUME LedgerInv, UNCHANGED <<order, payments>>,
         \A r \in Requests : tx'[r] = tx[r] \/ tx'[r].phase # "read"
  PROVE  LedgerInv'
  BY DEF LedgerInv, LedgerBalanced, CancelledHoldsNoMoney, ReceiptsWellFormed, PaymentsOf

\* A step in which one order, and only its receipts, change and a transaction
\* ends: the invariant is a matter of that order.
LEMMA LedgerOfOneOrder ==
  ASSUME LedgerInv, TypeOK, NEW r \in Requests, NEW o \in Orders, Finish(r),
         \A x \in Orders \ {o} : order'[x] = order[x] /\ PaymentsOf(x)' = PaymentsOf(x),
         ConfirmedTotal(PaymentsOf(o)') <= order'[o].total,
         order'[o].payment_status =
           paymentStatusFor(order'[o].total, ConfirmedTotal(PaymentsOf(o)')),
         order'[o].status = "CANCELLED" =>
           order'[o].deleted /\ Confirmed(PaymentsOf(o)') = {},
         \A p, q \in payments' : p.id = q.id => p = q,
         \A p \in payments' : p.amount > 0
  PROVE  LedgerInv'
  <1>1. LedgerBalanced'
    <2> SUFFICES ASSUME NEW x \in Orders
                 PROVE  /\ ConfirmedTotal(PaymentsOf(x)') <= order'[x].total
                        /\ order'[x].payment_status =
                             paymentStatusFor(order'[x].total, ConfirmedTotal(PaymentsOf(x)'))
      BY DEF LedgerBalanced, paymentStatusFor, ConfirmedTotal, Confirmed
    <2> QED BY DEF LedgerInv, LedgerBalanced
  <1>2. CancelledHoldsNoMoney'
    <2> SUFFICES ASSUME NEW x \in Orders, order'[x].status = "CANCELLED"
                 PROVE  order'[x].deleted /\ Confirmed(PaymentsOf(x)') = {}
      BY DEF CancelledHoldsNoMoney, Confirmed
    <2> QED BY DEF LedgerInv, CancelledHoldsNoMoney
  <1>3. \A s \in Requests : tx'[s] = tx[s] \/ tx'[s].phase # "read"
    BY DEF Finish, TypeOK, IdleTx
  <1>4. ReceiptsWellFormed'
    BY <1>3 DEF ReceiptsWellFormed, LedgerInv
  <1> QED BY <1>1, <1>2, <1>4 DEF LedgerInv

LEMMA LedgerInit == Init => LedgerInv
  <1> SUFFICES ASSUME Init PROVE LedgerInv
    OBVIOUS
  <1>1. \A o \in Orders : PaymentsOf(o) = {} /\ Confirmed(PaymentsOf(o)) = {}
    BY DEF Init, PaymentsOf, Confirmed
  <1>2. \A o \in Orders : ConfirmedTotal(PaymentsOf(o)) = 0
    BY <1>1, TotalOfNone
  <1>3. \A o \in Orders : /\ order[o].payment_status = "UNPAID" /\ order[o].status = "RECEIVED"
                          /\ order[o].total \in Nat
    BY ConstantsAssumption DEF Init, Amounts
  <1>4. ReceiptsWellFormed
    BY DEF Init, ReceiptsWellFormed, IdleTx
  <1> QED BY <1>1, <1>2, <1>3, <1>4
          DEF LedgerInv, LedgerBalanced, CancelledHoldsNoMoney, paymentStatusFor

\* What Record writes: a receipt of its own, of a positive amount that is still
\* outstanding, under a key the order has not seen.
LEMMA RecordEffect ==
  ASSUME TypeOK, ReadsStayCurrent, LedgerInv, NEW r \in Requests, RecordPayment(r)
  PROVE  \E o \in Orders, p \in PaymentRow :
           /\ o = tx[r].call.order /\ tx[r].call \in RecordCalls
           /\ p.order = o /\ p.key = tx[r].call.key /\ p.method = tx[r].call.method
           /\ p.tendered = tx[r].call.tendered /\ p.status = "CONFIRMED"
           /\ p.amount \in Nat /\ p.amount > 0
           /\ p.method # "CASH" => p.amount = p.tendered
           /\ ConfirmedTotal(PaymentsOf(o)) + p.amount <= order[o].total
           /\ \A q \in payments : q.id # p.id
           /\ \A q \in PaymentsOf(o) : q.key # p.key
           /\ payments' = payments \cup {p}
           /\ PaymentsOf(o)' = PaymentsOf(o) \cup {p}
           /\ ConfirmedTotal(PaymentsOf(o)') = ConfirmedTotal(PaymentsOf(o)) + p.amount
           /\ \A x \in Orders \ {o} : PaymentsOf(x)' = PaymentsOf(x)
           /\ order' = [order EXCEPT ![o].payment_status =
                          paymentStatusFor(order[o].total, ConfirmedTotal(PaymentsOf(o)'))]
           /\ order[o].status # "CANCELLED"
           /\ Acknowledge(tx[r].call, p) /\ Finish(r) /\ UNCHANGED history
  <1>types. /\ order \in [Orders -> OrderRow] /\ tx \in [Requests -> Tx]
            /\ payments \in SUBSET PaymentRow
    BY DEF TypeOK
  <1>1. PICK o \in Orders :
          /\ o = tx[r].call.order /\ tx[r].call \in Calls /\ tx[r].call.op = "Record"
          /\ tx[r].before = order[o] /\ tx[r].seen = PaymentsOf(o)
    BY HolderTypes DEF RecordPayment, Holding, ReadsStayCurrent, Current
  <1>2. tx[r].call \in RecordCalls
    BY <1>1 DEF Calls, TransitionCalls, CancelCalls, RecordCalls, VoidCalls
  <1> DEFINE paid == ConfirmedTotal(PaymentsOf(o))
             outstanding == order[o].total - paid
             applied == AppliedAmount(tx[r].call.method, tx[r].call.tendered, outstanding)
             receipt(id) ==
               [id |-> id, order |-> o, key |-> tx[r].call.key,
                method |-> tx[r].call.method, tendered |-> tx[r].call.tendered,
                amount |-> applied, status |-> "CONFIRMED"]
  <1>3. /\ tx[r].call.tendered \in Nat /\ tx[r].call.tendered > 0
        /\ tx[r].call.key \in Keys /\ tx[r].call.method \in Methods
        /\ tx[r].call.tendered \in Tenders
    BY <1>1, CallFields, TenderedPositive
  <1>4. PaymentsOf(o) \in SUBSET PaymentRow /\ order[o].total \in Amounts
    BY <1>types DEF PaymentsOf, OrderRow
  <1>5. paid \in Nat /\ order[o].total \in Nat /\ order[o].total <= MaxAmount
    BY <1>4, TotalIsNat, ConstantsAssumption DEF Amounts
  <1>6. outstanding > 0 /\ applied <= outstanding
    BY <1>1 DEF RecordPayment
  <1>7. applied = outstanding \/ applied = tx[r].call.tendered
    BY DEF AppliedAmount
  <1>8. outstanding \in Nat /\ outstanding <= order[o].total
    BY <1>5, <1>6
  <1>9. tx[r].call.method # "CASH" => applied = tx[r].call.tendered
    BY DEF AppliedAmount
  <1>10. /\ applied \in Nat /\ applied > 0 /\ applied \in Amounts
         /\ paid + applied <= order[o].total
    <2> HIDE DEF applied
    <2>1. applied \in Nat /\ applied > 0
      BY <1>3, <1>6, <1>7, <1>8
    <2>2. paid + applied <= order[o].total
      BY <1>5, <1>6, <2>1
    <2>3. applied \in Amounts
      BY <1>5, <1>6, <1>8, <2>1, ConstantsAssumption DEF Amounts
    <2> QED BY <2>1, <2>2, <2>3
  <1>11. PICK id \in PaymentIds :
           /\ NextPaymentId(id) /\ payments' = payments \cup {receipt(id)}
           /\ Acknowledge(tx[r].call, receipt(id))
    BY <1>1 DEF RecordPayment, CreateConfirmedPayment
  <1>12. receipt(id) \in PaymentRow
    BY <1>3, <1>10 DEF PaymentRow
  <1>13. PICK p \in PaymentRow :
           /\ p.order = o /\ p.key = tx[r].call.key /\ p.method = tx[r].call.method
           /\ p.tendered = tx[r].call.tendered /\ p.status = "CONFIRMED"
           /\ p.amount = applied /\ \A q \in payments : q.id # p.id
           /\ payments' = payments \cup {p}
           /\ Acknowledge(tx[r].call, p)
    <2>1. /\ receipt(id).order = o /\ receipt(id).key = tx[r].call.key
          /\ receipt(id).method = tx[r].call.method
          /\ receipt(id).tendered = tx[r].call.tendered /\ receipt(id).status = "CONFIRMED"
          /\ receipt(id).amount = applied /\ receipt(id).id = id
      OBVIOUS
    <2> HIDE DEF receipt, applied
    <2> QED BY <1>11, <1>12, <2>1 DEF NextPaymentId
  <1>14. PaymentsOf(o)' = PaymentsOf(o) \cup {p}
    BY <1>13 DEF PaymentsOf
  <1>15. \A x \in Orders \ {o} : PaymentsOf(x)' = PaymentsOf(x)
    BY <1>13 DEF PaymentsOf
  <1>16. \A q \in PaymentsOf(o) : q.key # p.key /\ q.id # p.id
    BY <1>1, <1>13 DEF RecordPayment, KeyUsed, PaymentsOf
  <1>17. ConfirmedTotal(PaymentsOf(o)') = paid + applied
    <2> HIDE DEF applied
    <2> QED BY <1>4, <1>13, <1>14, <1>16, TotalWithOneMore
  <1>18. /\ order' = [order EXCEPT ![o].payment_status = paymentStatusFor(order[o].total, paid + applied)]
         /\ Finish(r) /\ UNCHANGED history
    BY <1>1 DEF RecordPayment, SetPaymentStatus
  <1>19. order[o].status # "CANCELLED"
    BY <1>1 DEF RecordPayment, LedgerInv, ReceiptsWellFormed
  <1> HIDE DEF paid, applied, receipt
  <1>20. /\ p.amount \in Nat /\ p.amount > 0 /\ paid + p.amount <= order[o].total
         /\ p.method # "CASH" => p.amount = p.tendered
    BY <1>9, <1>10, <1>13
  <1>21. /\ ConfirmedTotal(PaymentsOf(o)') = paid + p.amount
         /\ order' = [order EXCEPT ![o].payment_status =
                         paymentStatusFor(order[o].total, ConfirmedTotal(PaymentsOf(o)'))]
    BY <1>13, <1>17, <1>18
  <1> QED BY <1>1, <1>2, <1>13, <1>14, <1>15, <1>16, <1>18, <1>19, <1>20, <1>21 DEF paid

\* What Void writes: a confirmed receipt of the order is marked, and nothing else.
LEMMA VoidEffect ==
  ASSUME TypeOK, ReadsStayCurrent, LedgerInv, NEW r \in Requests, Void(r)
  PROVE  \E o \in Orders, p \in payments, v \in PaymentRow :
           /\ o = tx[r].call.order /\ p.order = o /\ p.status = "CONFIRMED"
           /\ v = [p EXCEPT !.status = "VOIDED"]
           /\ v.id = p.id /\ v.order = o /\ v.key = p.key /\ v.method = p.method
           /\ v.tendered = p.tendered /\ v.amount = p.amount /\ v.status = "VOIDED"
           /\ p.amount \in Nat /\ p.amount > 0
           /\ payments' = (payments \ {p}) \cup {v}
           /\ ConfirmedTotal(PaymentsOf(o)') \in Nat
           /\ ConfirmedTotal(PaymentsOf(o)) = ConfirmedTotal(PaymentsOf(o)') + p.amount
           /\ ConfirmedTotal(PaymentsOf(o)') <= order[o].total
           /\ \A x \in Orders \ {o} : PaymentsOf(x)' = PaymentsOf(x)
           /\ order' = [order EXCEPT ![o].payment_status =
                          paymentStatusFor(order[o].total, ConfirmedTotal(PaymentsOf(o)'))]
           /\ order[o].status # "CANCELLED"
           /\ Finish(r) /\ UNCHANGED <<history, acks>>
  <1>types. /\ order \in [Orders -> OrderRow] /\ tx \in [Requests -> Tx]
            /\ payments \in SUBSET PaymentRow
    BY DEF TypeOK
  <1>wf. /\ \A p, q \in payments : p.id = q.id => p = q
         /\ \A p \in payments : p.amount > 0
    BY DEF LedgerInv, ReceiptsWellFormed
  <1>1. PICK o \in Orders :
          o = tx[r].call.order /\ tx[r].before = order[o] /\ tx[r].seen = PaymentsOf(o)
    BY HolderTypes DEF Void, Holding, ReadsStayCurrent, Current
  <1> DEFINE rest(p) == PaymentsOf(o) \ {p}
             voided(p) == [p EXCEPT !.status = "VOIDED"]
  <1>2. PICK p \in Confirmed(PaymentsOf(o)) :
          /\ payments' = (payments \ {p}) \cup {voided(p)}
          /\ ConfirmedTotal(rest(p)) <= order[o].total
          /\ SetPaymentStatus(r, ConfirmedTotal(rest(p))) /\ Finish(r) /\ UNCHANGED <<history, acks>>
    BY <1>1 DEF Void, VoidConfirmedPayment, GetOrderPaymentForUpdate, Confirmed
  <1>3. p \in payments /\ p \in PaymentRow /\ p.order = o /\ p.status = "CONFIRMED"
    BY <1>types, <1>2 DEF Confirmed, PaymentsOf
  <1>4. PICK v \in PaymentRow :
          /\ v = voided(p) /\ v.id = p.id /\ v.order = o /\ v.key = p.key /\ v.method = p.method
          /\ v.tendered = p.tendered /\ v.amount = p.amount /\ v.status = "VOIDED"
    <2>1. /\ voided(p) \in PaymentRow
          /\ voided(p).id = p.id /\ voided(p).order = o /\ voided(p).key = p.key
          /\ voided(p).method = p.method /\ voided(p).tendered = p.tendered
          /\ voided(p).amount = p.amount /\ voided(p).status = "VOIDED"
      BY <1>3 DEF PaymentRow
    <2> HIDE DEF voided
    <2> QED BY <2>1
  <1> HIDE DEF voided
  <1>5. PaymentsOf(o)' = rest(p) \cup {v}
    BY <1>2, <1>3, <1>4 DEF PaymentsOf
  <1>6. ConfirmedTotal(PaymentsOf(o)') = ConfirmedTotal(rest(p))
    BY <1>4, <1>5, TotalIgnoresVoided
  <1>7. /\ ConfirmedTotal(PaymentsOf(o)) = ConfirmedTotal(rest(p)) + p.amount
        /\ ConfirmedTotal(rest(p)) \in Nat
    <2>1. PaymentsOf(o) \in SUBSET PaymentRow /\ \A q \in PaymentsOf(o) : q.id = p.id => q = p
      BY <1>types, <1>wf, <1>3 DEF PaymentsOf
    <2> QED BY <1>2, <2>1, TotalWithOneLess
  <1>8. p.amount \in Nat /\ p.amount > 0
    BY <1>wf, <1>3, ConstantsAssumption DEF PaymentRow, Amounts
  <1>9. \A x \in Orders \ {o} : PaymentsOf(x)' = PaymentsOf(x)
    BY <1>2, <1>3, <1>4 DEF PaymentsOf
  <1>10. order' = [order EXCEPT ![o].payment_status =
                     paymentStatusFor(order[o].total, ConfirmedTotal(PaymentsOf(o)'))]
    BY <1>1, <1>2, <1>6 DEF SetPaymentStatus
  <1>11. order[o].status # "CANCELLED"
    BY <1>2 DEF LedgerInv, CancelledHoldsNoMoney
  <1> QED BY <1>1, <1>2, <1>3, <1>4, <1>6, <1>7, <1>8, <1>9, <1>10, <1>11 DEF voided

LEMMA LedgerNext ==
  TypeOK /\ ReadsStayCurrent /\ LedgerInv /\ [Next]_vars => LedgerInv'
  <1> SUFFICES ASSUME TypeOK, ReadsStayCurrent, LedgerInv, [Next]_vars PROVE LedgerInv'
    OBVIOUS
  <1>types. /\ order \in [Orders -> OrderRow] /\ tx \in [Requests -> Tx]
            /\ payments \in SUBSET PaymentRow
    BY DEF TypeOK
  <1>wf. /\ \A p, q \in payments : p.id = q.id => p = q
         /\ \A p \in payments : p.amount > 0
    BY DEF LedgerInv, ReceiptsWellFormed
  <1>1. ASSUME NEW r \in Requests, Begin(r) \/ LockOrder(r) \/ LockAssignment(r)
        PROVE  LedgerInv'
    <2>1. \A s \in Requests : tx'[s] = tx[s] \/ tx'[s].phase # "read"
      BY <1>1, <1>types DEF Begin, LockOrder, LockAssignment, Tx
    <2> QED BY <1>1, <2>1, LedgerUntouched DEF Begin, LockOrder, LockAssignment, tables
  <1>2. ASSUME NEW r \in Requests, ReadPayments(r) PROVE LedgerInv'
    <2>1. /\ \A s \in Requests \ {r} : tx'[s] = tx[s]
          /\ tx'[r].call = tx[r].call /\ tx'[r].before = tx[r].before
      BY <1>2, <1>types DEF ReadPayments, Tx
    <2>2. tx[r].call.op = "Record" => tx[r].before.status # "CANCELLED"
      BY <1>2 DEF ReadPayments
    <2>3. ReceiptsWellFormed'
      BY <1>2, <2>1, <2>2 DEF ReadPayments, tables, LedgerInv, ReceiptsWellFormed
    <2> QED BY <1>2, <2>3
            DEF ReadPayments, tables, LedgerInv, LedgerBalanced, CancelledHoldsNoMoney, PaymentsOf
  <1>3. ASSUME NEW r \in Requests, TransitionStatus(r) PROVE LedgerInv'
    <2>1. PICK o \in Orders :
            o = tx[r].call.order /\ tx[r].call \in Calls /\ tx[r].before = order[o]
      BY <1>3, HolderTypes DEF TransitionStatus, Holding, ReadsStayCurrent, Current
    <2>2. tx[r].call.to # "CANCELLED"
      BY <1>3, <2>1 DEF TransitionStatus, Calls, TransitionCalls, CancelCalls, RecordCalls, VoidCalls
    <2>3. order' = [order EXCEPT ![o].status = tx[r].call.to] /\ payments' = payments /\ Finish(r)
      BY <1>3, <2>1 DEF TransitionStatus, TransitionOrderStatus
    <2>4. /\ order'[o].total = order[o].total /\ order'[o].status = tx[r].call.to
          /\ order'[o].payment_status = order[o].payment_status
      BY <1>types, <2>1, <2>3 DEF OrderRow
    <2>5. \A x \in Orders : PaymentsOf(x)' = PaymentsOf(x) /\ (x # o => order'[x] = order[x])
      BY <1>types, <2>3 DEF PaymentsOf
    <2> QED BY <1>wf, <2>2, <2>3, <2>4, <2>5, LedgerOfOneOrder DEF LedgerInv, LedgerBalanced
  <1>4. ASSUME NEW r \in Requests, Cancel(r) PROVE LedgerInv'
    <2>1. PICK o \in Orders : o = tx[r].call.order /\ tx[r].before = order[o]
      BY <1>4, HolderTypes DEF Cancel, Holding, ReadsStayCurrent, Current
    <2>2. /\ order[o].payment_status = "UNPAID" /\ payments' = payments /\ Finish(r)
          /\ order' = [order EXCEPT ![o] = [@ EXCEPT !.status = "CANCELLED", !.deleted = TRUE]]
      BY <1>4, <2>1 DEF Cancel, CancelOrder
    <2>3. /\ order'[o].total = order[o].total /\ order'[o].deleted
          /\ order'[o].payment_status = order[o].payment_status
      BY <1>types, <2>2 DEF OrderRow
    <2>4. \A x \in Orders : PaymentsOf(x)' = PaymentsOf(x) /\ (x # o => order'[x] = order[x])
      BY <1>types, <2>2 DEF PaymentsOf
    <2>5. ConfirmedTotal(PaymentsOf(o)) = 0
      BY <2>2 DEF LedgerInv, LedgerBalanced, paymentStatusFor
    <2>6. Confirmed(PaymentsOf(o)) = {}
      <3> SUFFICES ASSUME NEW p \in Confirmed(PaymentsOf(o)) PROVE FALSE
        OBVIOUS
      <3>1. PaymentsOf(o) \in SUBSET PaymentRow /\ p \in payments
        BY <1>types DEF PaymentsOf, Confirmed
      <3>2. \A q \in PaymentsOf(o) : q.id = p.id => q = p
        BY <1>wf, <3>1 DEF PaymentsOf
      <3>3. p.amount \in Nat /\ p.amount > 0
        BY <1>types, <1>wf, <3>1, ConstantsAssumption DEF PaymentRow, Amounts
      <3>4. /\ 0 = ConfirmedTotal(PaymentsOf(o) \ {p}) + p.amount
            /\ ConfirmedTotal(PaymentsOf(o) \ {p}) \in Nat
        BY <2>5, <3>1, <3>2, TotalWithOneLess
      <3> QED BY <3>3, <3>4
    <2> QED BY <1>wf, <2>2, <2>3, <2>4, <2>6, LedgerOfOneOrder DEF LedgerInv, LedgerBalanced
  <1>5. ASSUME NEW r \in Requests, RecordPayment(r) PROVE LedgerInv'
    <2>1. PICK o \in Orders, p \in PaymentRow :
            /\ p.amount > 0 /\ \A q \in payments : q.id # p.id
            /\ ConfirmedTotal(PaymentsOf(o)) + p.amount <= order[o].total
            /\ payments' = payments \cup {p}
            /\ ConfirmedTotal(PaymentsOf(o)') = ConfirmedTotal(PaymentsOf(o)) + p.amount
            /\ \A x \in Orders \ {o} : PaymentsOf(x)' = PaymentsOf(x)
            /\ order' = [order EXCEPT ![o].payment_status =
                           paymentStatusFor(order[o].total, ConfirmedTotal(PaymentsOf(o)'))]
            /\ order[o].status # "CANCELLED" /\ Finish(r)
      BY <1>5, RecordEffect
    <2>2. /\ order'[o].total = order[o].total /\ order'[o].status = order[o].status
          /\ order'[o].payment_status =
               paymentStatusFor(order[o].total, ConfirmedTotal(PaymentsOf(o)'))
          /\ \A x \in Orders \ {o} : order'[x] = order[x]
      BY <1>types, <2>1 DEF OrderRow
    <2>3. /\ \A x, y \in payments' : x.id = y.id => x = y
          /\ \A x \in payments' : x.amount > 0
      BY <1>wf, <2>1
    <2> QED BY <2>1, <2>2, <2>3, LedgerOfOneOrder
  <1>6. ASSUME NEW r \in Requests, ReplayPayment(r) PROVE LedgerInv'
    <2>1. \A s \in Requests : tx'[s] = tx[s] \/ tx'[s].phase # "read"
      BY <1>6, <1>types DEF ReplayPayment, Finish, IdleTx
    <2> QED BY <1>6, <2>1, LedgerUntouched DEF ReplayPayment, tables
  <1>7. ASSUME NEW r \in Requests, Void(r) PROVE LedgerInv'
    <2>1. PICK o \in Orders, p \in payments, v \in PaymentRow :
            /\ v.id = p.id /\ v.amount = p.amount
            /\ payments' = (payments \ {p}) \cup {v}
            /\ ConfirmedTotal(PaymentsOf(o)') <= order[o].total
            /\ \A x \in Orders \ {o} : PaymentsOf(x)' = PaymentsOf(x)
            /\ order' = [order EXCEPT ![o].payment_status =
                           paymentStatusFor(order[o].total, ConfirmedTotal(PaymentsOf(o)'))]
            /\ order[o].status # "CANCELLED" /\ Finish(r)
      BY <1>7, VoidEffect
    <2>2. /\ order'[o].total = order[o].total /\ order'[o].status = order[o].status
          /\ order'[o].payment_status =
               paymentStatusFor(order[o].total, ConfirmedTotal(PaymentsOf(o)'))
          /\ \A x \in Orders \ {o} : order'[x] = order[x]
      BY <1>types, <2>1 DEF OrderRow
    <2>3. /\ \A x, y \in payments' : x.id = y.id => x = y
          /\ \A x \in payments' : x.amount > 0
      BY <1>wf, <2>1
    <2> QED BY <2>1, <2>2, <2>3, LedgerOfOneOrder
  <1>8. ASSUME NEW r \in Requests, Rollback(r) PROVE LedgerInv'
    <2>1. \A s \in Requests : tx'[s] = tx[s] \/ tx'[s].phase # "read"
      BY <1>8, <1>types DEF Rollback, Finish, IdleTx
    <2> QED BY <1>8, <2>1, LedgerUntouched DEF Rollback, tables
  <1>9. CASE Management \/ Tick \/ UNCHANGED vars
    BY <1>9, LedgerUntouched
       DEF Management, UpdateStaff, ReplaceStaffOutlets, UpdateOutlet, Tick, vars, tables
  <1> QED BY <1>1, <1>2, <1>3, <1>4, <1>5, <1>6, <1>7, <1>8, <1>9 DEF Next, Request

\* payment_status and the receipts always agree and never exceed the total.
THEOREM LedgerStaysBalanced == Spec => []LedgerBalanced
  <1>1. LedgerInv => LedgerBalanced
    BY DEF LedgerInv
  <1> QED BY <1>1, TypeInit, TypeNext, CurrentInit, CurrentNext, LedgerInit, LedgerNext, PTL DEF Spec

\* A cancelled order holds no confirmed receipt.
THEOREM NothingPaidOnCancelled == Spec => []CancelledHoldsNoMoney
  <1>1. LedgerInv => CancelledHoldsNoMoney
    BY DEF LedgerInv
  <1> QED BY <1>1, TypeInit, TypeNext, CurrentInit, CurrentNext, LedgerInit, LedgerNext, PTL DEF Spec
----------------------------------------------------------------------------
(***************************************************************************)
(* Receipts and retries                                                    *)
(***************************************************************************)
\* Only Record and Void write the table of receipts.
LEMMA OtherStepsKeepReceipts ==
  ASSUME [Next]_vars, \A r \in Requests : ~ RecordPayment(r) /\ ~ Void(r)
  PROVE  UNCHANGED payments
  BY DEF Next, Request, Management, vars, tables, Begin, LockOrder, LockAssignment, ReadPayments,
         TransitionStatus, Cancel, ReplayPayment, Rollback, UpdateStaff, ReplaceStaffOutlets,
         UpdateOutlet, Tick

LEMMA ReceiptsStep ==
  ASSUME TypeOK, ReadsStayCurrent, LedgerInv, [Next]_vars, NEW q \in payments
  PROVE  \/ q \in payments'
         \/ q.status = "CONFIRMED" /\ [q EXCEPT !.status = "VOIDED"] \in payments'
  <1>1. ASSUME NEW r \in Requests, RecordPayment(r) PROVE q \in payments'
    BY <1>1, RecordEffect
  <1>2. ASSUME NEW r \in Requests, Void(r)
        PROVE  \/ q \in payments'
               \/ q.status = "CONFIRMED" /\ [q EXCEPT !.status = "VOIDED"] \in payments'
    <2>1. PICK p \in payments, v \in PaymentRow :
            /\ p.status = "CONFIRMED" /\ v = [p EXCEPT !.status = "VOIDED"]
            /\ payments' = (payments \ {p}) \cup {v}
      BY <1>2, VoidEffect, ZenonT(60)
    <2>2. CASE q = p
      <3>1. q.status = "CONFIRMED" /\ v = [q EXCEPT !.status = "VOIDED"]
        BY <2>1, <2>2
      <3> QED BY <2>1, <3>1, Zenon
    <2>3. CASE q # p
      BY <2>1, <2>3
    <2> QED BY <2>2, <2>3
  <1> QED BY <1>1, <1>2, OtherStepsKeepReceipts

\* A receipt is never removed and never altered but for being voided, once and for good.
THEOREM ReceiptsStay == Spec => ReceiptsArePermanent
  <1> DEFINE Kept ==
        \A p \in payments :
          \/ p \in payments'
          \/ p.status = "CONFIRMED" /\ [p EXCEPT !.status = "VOIDED"] \in payments'
  <1>1. TypeOK /\ ReadsStayCurrent /\ LedgerInv /\ [Next]_vars => [Kept]_vars
    BY ReceiptsStep
  <1>2. Spec => [][Kept]_vars
    BY <1>1, TypeInit, TypeNext, CurrentInit, CurrentNext, LedgerInit, LedgerNext, PTL DEF Spec
  <1> QED BY <1>2 DEF ReceiptsArePermanent

\* What a report says of the receipt it names.
Reports(a, p) ==
  /\ p.id = a.payment /\ p.order = a.order /\ p.key = a.key
  /\ p.method = a.method /\ p.tendered = a.tendered /\ p.amount = a.amount
  /\ a.change = changeFor(a.method, a.tendered, a.amount)

\* A key has one receipt in its order, only cash gives change, and every report
\* names its receipt.
RetriesInv ==
  /\ \A p, q \in payments : p.order = q.order /\ p.key = q.key => p = q
  /\ \A p \in payments : p.method # "CASH" => p.amount = p.tendered
  /\ \A a \in acks : \E p \in payments : Reports(a, p)

LEMMA RetriesFollow == TypeOK /\ RetriesInv => RetriesAgree
  <1> SUFFICES ASSUME TypeOK, RetriesInv PROVE RetriesAgree
    OBVIOUS
  <1>1. ASSUME NEW a \in acks, NEW b \in acks, a.order = b.order, a.key = b.key PROVE a = b
    <2>1. PICK p \in payments : Reports(a, p)
      BY DEF RetriesInv
    <2>2. PICK q \in payments : Reports(b, q)
      BY DEF RetriesInv
    <2>3. p = q
      BY <1>1, <2>1, <2>2 DEF RetriesInv, Reports
    <2>4. a \in Acks /\ b \in Acks
      BY DEF TypeOK
    <2> QED BY <1>1, <2>1, <2>2, <2>3, <2>4 DEF Reports, Acks
  <1>2. ASSUME NEW a \in acks
        PROVE  /\ a.tendered = a.amount + a.change
               /\ \E p \in payments : /\ p.id = a.payment /\ p.order = a.order /\ p.key = a.key
                                      /\ p.amount = a.amount
    <2>1. PICK p \in payments : Reports(a, p)
      BY DEF RetriesInv
    <2>2. p.method # "CASH" => p.amount = p.tendered
      BY DEF RetriesInv
    <2>3. p \in PaymentRow
      BY DEF TypeOK
    <2>4. a.tendered \in Int /\ a.amount \in Int
      <3>1. p.tendered \in Tenders /\ p.amount \in Amounts
        BY <2>3 DEF PaymentRow
      <3>2. p.tendered \in Int
        BY <3>1, TenderedPositive
      <3>3. p.amount \in Int
        BY <3>1, ConstantsAssumption DEF Amounts
      <3> QED BY <2>1, <3>2, <3>3 DEF Reports
    <2> QED BY <2>1, <2>2, <2>4 DEF Reports, changeFor
  <1> QED BY <1>1, <1>2 DEF RetriesAgree

LEMMA RetriesInit == Init => RetriesInv
  BY DEF Init, RetriesInv

LEMMA RetriesNext ==
  TypeOK /\ ReadsStayCurrent /\ LedgerInv /\ RetriesInv /\ [Next]_vars => RetriesInv'
  <1> SUFFICES ASSUME TypeOK, ReadsStayCurrent, LedgerInv, RetriesInv, [Next]_vars
               PROVE  RetriesInv'
    OBVIOUS
  <1>1. ASSUME NEW r \in Requests, RecordPayment(r) PROVE RetriesInv'
    <2>1. PICK o \in Orders, p \in PaymentRow :
            /\ o = tx[r].call.order
            /\ p.order = o /\ p.key = tx[r].call.key /\ p.method = tx[r].call.method
            /\ p.tendered = tx[r].call.tendered
            /\ p.method # "CASH" => p.amount = p.tendered
            /\ \A q \in PaymentsOf(o) : q.key # p.key
            /\ payments' = payments \cup {p} /\ Acknowledge(tx[r].call, p)
      BY <1>1, RecordEffect
    <2>2. \A q \in payments : q.order = p.order => q.key # p.key
      BY <2>1 DEF PaymentsOf
    <2>3. ASSUME NEW a \in acks' PROVE \E q \in payments' : Reports(a, q)
      BY <2>1, <2>3 DEF Acknowledge, Reports, RetriesInv
    <2> QED BY <2>1, <2>2, <2>3 DEF RetriesInv, Reports
  <1>2. ASSUME NEW r \in Requests, Void(r) PROVE RetriesInv'
    <2>1. PICK p \in payments, v \in PaymentRow :
            /\ v.id = p.id /\ v.order = p.order /\ v.key = p.key /\ v.method = p.method
            /\ v.tendered = p.tendered /\ v.amount = p.amount
            /\ payments' = (payments \ {p}) \cup {v} /\ UNCHANGED acks
      BY <1>2, VoidEffect
    <2>2. ASSUME NEW a \in acks' PROVE \E q \in payments' : Reports(a, q)
      BY <2>1 DEF Reports, RetriesInv
    <2> QED BY <2>1, <2>2 DEF RetriesInv, Reports
  <1>3. ASSUME NEW r \in Requests, ReplayPayment(r) PROVE RetriesInv'
    <2>1. tx[r].seen = PaymentsOf(tx[r].call.order)
      BY <1>3 DEF ReplayPayment, Holding, ReadsStayCurrent, Current
    <2>2. PICK p \in payments :
            /\ p.order = tx[r].call.order /\ p.key = tx[r].call.key
            /\ p.method = tx[r].call.method /\ p.tendered = tx[r].call.tendered
            /\ Acknowledge(tx[r].call, p)
      BY <1>3, <2>1 DEF ReplayPayment, PaymentsOf
    <2>3. UNCHANGED payments
      BY <1>3 DEF ReplayPayment, tables
    <2>4. ASSUME NEW a \in acks' PROVE \E q \in payments : Reports(a, q)
      BY <2>2 DEF Acknowledge, Reports, RetriesInv
    <2> QED BY <2>3, <2>4 DEF RetriesInv, Reports
  <1>4. CASE \A r \in Requests : ~ RecordPayment(r) /\ ~ Void(r) /\ ~ ReplayPayment(r)
    <2>1. UNCHANGED <<payments, acks>>
      BY <1>4 DEF Next, Request, Management, vars, tables, Begin, LockOrder, LockAssignment,
           ReadPayments, TransitionStatus, Cancel, Rollback, UpdateStaff, ReplaceStaffOutlets,
           UpdateOutlet, Tick
    <2> QED BY <2>1 DEF RetriesInv, Reports
  <1> QED BY <1>1, <1>2, <1>3, <1>4

\* Every success reported under one Idempotency-Key of an order is the same success,
\* and names a receipt that is in the ledger.
THEOREM RetriesAlwaysAgree == Spec => []RetriesAgree
  BY RetriesFollow, TypeInit, TypeNext, CurrentInit, CurrentNext, LedgerInit, LedgerNext,
     RetriesInit, RetriesNext, PTL DEF Spec
----------------------------------------------------------------------------
(***************************************************************************)
(* The history of an order                                                 *)
(***************************************************************************)
\* A path that is prolonged from where it ends.
LEMMA PathGrows ==
  ASSUME NEW h \in Seq(HistoryRow), IsPath(h), NEW row \in HistoryRow, AdmittedRow(row),
         row.from = h[Len(h)].to
  PROVE  IsPath(Append(h, row)) /\ Append(h, row)[Len(Append(h, row))].to = row.to
  <1> DEFINE g == Append(h, row)
  <1>1. Len(h) \in Nat /\ Len(h) > 0
    BY DEF IsPath
  <1>2. /\ Len(g) = Len(h) + 1 /\ g[Len(h) + 1] = row
        /\ \A i \in 1 .. Len(h) : g[i] = h[i]
    OBVIOUS
  <1> HIDE DEF g
  <1>3. \A i \in 1 .. Len(g) : AdmittedRow(g[i])
    BY <1>1, <1>2 DEF IsPath
  <1>4. ASSUME NEW i \in 2 .. Len(g) PROVE g[i].from = g[i - 1].to
    <2>1. CASE i = Len(h) + 1
      BY <1>1, <1>2, <2>1
    <2>2. CASE i # Len(h) + 1
      BY <1>1, <1>2, <2>2 DEF IsPath
    <2> QED BY <2>1, <2>2
  <1>5. g # <<>> /\ g[1].from = "NULL"
    BY <1>1, <1>2 DEF IsPath
  <1>6. IsPath(g) /\ g[Len(g)].to = row.to
    BY <1>2, <1>3, <1>4, <1>5 DEF IsPath
  <1> QED BY <1>6 DEF g

\* A step of the workflow from the status that the order still has.
LEMMA HistoryGrows ==
  ASSUME TypeOK, ReadsStayCurrent, HistoryIsPath, NEW r \in Requests, tx[r].phase = "scoped",
         NEW to \in Statuses, allowedOrderTransition(tx[r].before.status, to),
         AppendHistory(tx[r].call.order, r, to),
         order'[tx[r].call.order].status = to,
         \A o \in Orders \ {tx[r].call.order} : order'[o] = order[o]
  PROVE  HistoryIsPath'
  <1>1. PICK o \in Orders : o = tx[r].call.order /\ tx[r].before = order[o]
    BY HolderTypes DEF Holding, ReadsStayCurrent, Current
  <1> DEFINE row == [from |-> tx[r].before.status, to |-> to, at |-> tx[r].at]
  <1>2. /\ row \in HistoryRow /\ AdmittedRow(row)
        /\ row.from = order[o].status /\ row.to = to
    BY <1>1, HolderTypes DEF HistoryRow, OrderRow, AdmittedRow, allowedOrderTransition
  <1>3. history \in [Orders -> Seq(HistoryRow)]
    BY DEF TypeOK
  <1>4. history' = [history EXCEPT ![o] = Append(@, row)]
    BY <1>1 DEF AppendHistory
  <1> HIDE DEF row
  <1>5. IsPath(history[o]) /\ history[o][Len(history[o])].to = order[o].status
    BY DEF HistoryIsPath
  <1>6. /\ history'[o] = Append(history[o], row)
        /\ \A x \in Orders \ {o} : history'[x] = history[x]
    BY <1>3, <1>4
  <1>7. IsPath(history'[o]) /\ history'[o][Len(history'[o])].to = order'[o].status
    BY <1>1, <1>2, <1>3, <1>5, <1>6, PathGrows
  <1> SUFFICES ASSUME NEW x \in Orders
               PROVE  IsPath(history'[x]) /\ history'[x][Len(history'[x])].to = order'[x].status
    BY DEF HistoryIsPath, IsPath, AdmittedRow
  <1>8. CASE x = o
    BY <1>7, <1>8
  <1>9. CASE x # o
    BY <1>1, <1>6, <1>9 DEF HistoryIsPath
  <1> QED BY <1>8, <1>9

LEMMA HistoryInit == Init => HistoryIsPath
  BY DEF Init, HistoryIsPath, IsPath, AdmittedRow

\* A step that appends no row and leaves every status as it is.
LEMMA HistoryUntouched ==
  ASSUME HistoryIsPath, UNCHANGED history, \A o \in Orders : order'[o].status = order[o].status
  PROVE  HistoryIsPath'
  BY DEF HistoryIsPath, IsPath, AdmittedRow

LEMMA HistoryNext ==
  TypeOK /\ ReadsStayCurrent /\ LedgerInv /\ HistoryIsPath /\ [Next]_vars => HistoryIsPath'
  <1> SUFFICES ASSUME TypeOK, ReadsStayCurrent, LedgerInv, HistoryIsPath, [Next]_vars
               PROVE  HistoryIsPath'
    OBVIOUS
  <1>types. order \in [Orders -> OrderRow]
    BY DEF TypeOK
  <1>1. ASSUME NEW r \in Requests, TransitionStatus(r) PROVE HistoryIsPath'
    <2>1. tx[r].call.order \in Orders /\ tx[r].call.to \in Statuses
      BY <1>1, HolderTypes, CallFields DEF TransitionStatus
    <2>2. /\ order'[tx[r].call.order].status = tx[r].call.to
          /\ \A o \in Orders \ {tx[r].call.order} : order'[o] = order[o]
      BY <1>1, <1>types, <2>1 DEF TransitionStatus, TransitionOrderStatus, OrderRow
    <2> QED BY <1>1, <2>1, <2>2, HistoryGrows DEF TransitionStatus
  <1>2. ASSUME NEW r \in Requests, Cancel(r) PROVE HistoryIsPath'
    <2>1. tx[r].call.order \in Orders /\ "CANCELLED" \in Statuses
      BY <1>2, HolderTypes DEF Cancel, Statuses
    <2>2. /\ order'[tx[r].call.order].status = "CANCELLED"
          /\ \A o \in Orders \ {tx[r].call.order} : order'[o] = order[o]
      BY <1>2, <1>types, <2>1 DEF Cancel, CancelOrder, OrderRow
    <2> QED BY <1>2, <2>1, <2>2, HistoryGrows DEF Cancel
  <1>3. ASSUME NEW r \in Requests, RecordPayment(r) PROVE HistoryIsPath'
    <2>1. PICK o \in Orders, status \in PaymentStatuses :
            order' = [order EXCEPT ![o].payment_status = status] /\ UNCHANGED history
      BY <1>3, RecordEffect, StatusForType
    <2> QED BY <1>types, <2>1, HistoryUntouched DEF OrderRow
  <1>4. ASSUME NEW r \in Requests, Void(r) PROVE HistoryIsPath'
    <2>1. PICK o \in Orders, status \in PaymentStatuses :
            order' = [order EXCEPT ![o].payment_status = status] /\ UNCHANGED history
      BY <1>4, VoidEffect, StatusForType
    <2> QED BY <1>types, <2>1, HistoryUntouched DEF OrderRow
  <1>5. CASE \A r \in Requests :
               ~ TransitionStatus(r) /\ ~ Cancel(r) /\ ~ RecordPayment(r) /\ ~ Void(r)
    <2>1. UNCHANGED <<order, history>>
      BY <1>5 DEF Next, Request, Management, vars, tables, Begin, LockOrder, LockAssignment,
           ReadPayments, ReplayPayment, Rollback, UpdateStaff, ReplaceStaffOutlets, UpdateOutlet, Tick
    <2> QED BY <2>1, HistoryUntouched
  <1> QED BY <1>1, <1>2, <1>3, <1>4, <1>5

\* The rows of order_status_history are the path the order took, and end at its status.
THEOREM HistoryStaysPath == Spec => []HistoryIsPath
  BY TypeInit, TypeNext, CurrentInit, CurrentNext, LedgerInit, LedgerNext, HistoryInit,
     HistoryNext, PTL DEF Spec
----------------------------------------------------------------------------
(***************************************************************************)
(* The account of OrderAccount                                             *)
(***************************************************************************)
LEMMA AccountFields ==
  ASSUME NEW o \in Orders
  PROVE  /\ Accounts[o] = AccountOf(o)
         /\ Accounts[o].stage = order[o].status
         /\ Accounts[o].total = order[o].total
         /\ Accounts[o].paid = ConfirmedTotal(PaymentsOf(o))
         /\ Accounts[o].standing = order[o].payment_status
  <1>1. Accounts[o] = AccountOf(o)
    BY DEF Accounts
  <1> DEFINE paid == ConfirmedTotal(PaymentsOf(o))
  <1>2. AccountOf(o) = [stage |-> order[o].status, total |-> order[o].total,
                        paid |-> paid, standing |-> order[o].payment_status]
    BY DEF AccountOf
  <1> HIDE DEF paid
  <1>3. /\ AccountOf(o).stage = order[o].status /\ AccountOf(o).total = order[o].total
        /\ AccountOf(o).paid = paid /\ AccountOf(o).standing = order[o].payment_status
    BY <1>2
  <1> QED BY <1>1, <1>3 DEF paid

\* As long as no more is paid than is owed, paid exactly and fully are the same.
LEMMA StandingIsStatus ==
  ASSUME NEW total \in Int, NEW paid \in Int, paid <= total
  PROVE  Account!Standing(total, paid) = paymentStatusFor(total, paid)
  BY DEF Account!Standing, paymentStatusFor

LEMMA AccountInit == Init => Account!Init
  <1> SUFFICES ASSUME Init PROVE Account!Init
    OBVIOUS
  <1>1. PICK total \in [Orders -> Amounts] :
          order = [o \in Orders |->
                    [status |-> "RECEIVED", payment_status |-> "UNPAID",
                     total |-> total[o], deleted |-> FALSE]]
    BY DEF Init
  <1>2. ASSUME NEW o \in Orders PROVE AccountOf(o) = Account!Opened(total[o])
    <2>1. ConfirmedTotal(PaymentsOf(o)) = 0
      <3>1. Confirmed(PaymentsOf(o)) = {}
        BY DEF Init, PaymentsOf, Confirmed
      <3> QED BY <3>1, TotalOfNone
    <2>2. Account!Standing(total[o], 0) = "UNPAID"
      BY DEF Account!Standing
    <2> QED BY <1>1, <2>1, <2>2 DEF AccountOf, Account!Opened
  <1>3. Accounts = [o \in Orders |-> Account!Opened(total[o])]
    BY <1>2 DEF Accounts
  <1> QED BY <1>1, <1>3 DEF Account!Init, Amounts

\* A step that touches one order touches one account.
LEMMA OneAccount ==
  ASSUME NEW o \in Orders, NEW a, AccountOf(o)' = a,
         \A x \in Orders \ {o} : AccountOf(x)' = AccountOf(x)
  PROVE  Accounts' = [Accounts EXCEPT ![o] = a]
  BY DEF Accounts

LEMMA WorkflowAccount ==
  ASSUME TypeOK, NEW o \in Orders, NEW to,
         order'[o].status = to, order'[o].total = order[o].total,
         order'[o].payment_status = order[o].payment_status,
         \A x \in Orders \ {o} : order'[x] = order[x], UNCHANGED payments
  PROVE  Accounts' = [Accounts EXCEPT ![o].stage = to]
  <1>1. \A x \in Orders : ConfirmedTotal(PaymentsOf(x))' = ConfirmedTotal(PaymentsOf(x))
    BY DEF ConfirmedTotal, PaymentsOf, Confirmed
  <1>2. AccountOf(o)' = [AccountOf(o) EXCEPT !.stage = to]
    BY <1>1 DEF AccountOf
  <1>3. \A x \in Orders \ {o} : AccountOf(x)' = AccountOf(x)
    BY <1>1 DEF AccountOf
  <1>4. Accounts' = [Accounts EXCEPT ![o] = [AccountOf(o) EXCEPT !.stage = to]]
    BY <1>2, <1>3, OneAccount
  <1>5. Accounts[o] = AccountOf(o)
    BY DEF Accounts
  <1> QED BY <1>4, <1>5

LEMMA LedgerAccount ==
  ASSUME TypeOK, NEW o \in Orders, NEW paid \in Nat, paid <= order[o].total,
         ConfirmedTotal(PaymentsOf(o))' = paid,
         \A x \in Orders \ {o} : PaymentsOf(x)' = PaymentsOf(x),
         order' = [order EXCEPT ![o].payment_status = paymentStatusFor(order[o].total, paid)]
  PROVE  Accounts' = [Accounts EXCEPT ![o] =
                        [@ EXCEPT !.paid = paid,
                                  !.standing = Account!Standing(Accounts[o].total, paid)]]
  <1>1. order \in [Orders -> OrderRow] /\ order[o] \in OrderRow
    BY DEF TypeOK
  <1>2. order[o].total \in Int
    BY <1>1, ConstantsAssumption DEF OrderRow, Amounts
  <1>3. Account!Standing(order[o].total, paid) = paymentStatusFor(order[o].total, paid)
    BY <1>2, StandingIsStatus
  <1>4. Accounts[o] = AccountOf(o) /\ Accounts[o].total = order[o].total
    BY DEF Accounts, AccountOf
  <1>5. /\ order'[o].status = order[o].status /\ order'[o].total = order[o].total
        /\ order'[o].payment_status = paymentStatusFor(order[o].total, paid)
        /\ \A x \in Orders \ {o} : order'[x] = order[x]
    BY <1>1 DEF OrderRow
  <1>6. AccountOf(o)' = [AccountOf(o) EXCEPT !.paid = paid,
                           !.standing = Account!Standing(Accounts[o].total, paid)]
    <2> DEFINE b == Account!Standing(Accounts[o].total, paid)
               was == ConfirmedTotal(PaymentsOf(o))
               stage == order[o].status
               total == order[o].total
               stood == order[o].payment_status
    <2>1. AccountOf(o) = [stage |-> stage, total |-> total, paid |-> was, standing |-> stood]
      BY DEF AccountOf
    <2>2. AccountOf(o)' = [stage |-> stage, total |-> total, paid |-> paid, standing |-> b]
      BY <1>3, <1>4, <1>5 DEF AccountOf
    <2> HIDE DEF b, was, stage, total, stood
    <2>3. [AccountOf(o) EXCEPT !.paid = paid] =
            [stage |-> stage, total |-> total, paid |-> paid, standing |-> stood]
      BY <2>1
    <2>4. [[AccountOf(o) EXCEPT !.paid = paid] EXCEPT !.standing = b] =
            [stage |-> stage, total |-> total, paid |-> paid, standing |-> b]
      <3>1. [[stage |-> stage, total |-> total, paid |-> paid, standing |-> stood]
               EXCEPT !.standing = b]
            = [stage |-> stage, total |-> total, paid |-> paid, standing |-> b]
        OBVIOUS
      <3> QED BY <2>3, <3>1, Zenon
    <2>5. [AccountOf(o) EXCEPT !.paid = paid, !.standing = b] =
            [[AccountOf(o) EXCEPT !.paid = paid] EXCEPT !.standing = b]
      OBVIOUS
    <2> QED BY <2>2, <2>4, <2>5, Zenon DEF b
  <1>7. \A x \in Orders \ {o} : AccountOf(x)' = AccountOf(x)
    BY <1>5 DEF AccountOf, ConfirmedTotal
  <1> DEFINE a == [AccountOf(o) EXCEPT !.paid = paid,
                     !.standing = Account!Standing(Accounts[o].total, paid)]
  <1>8. Accounts' = [Accounts EXCEPT ![o] = a]
    BY <1>6, <1>7, OneAccount
  <1> QED BY <1>4, <1>8

LEMMA AccountNext ==
  ASSUME TypeOK, ReadsStayCurrent, LedgerInv, [Next]_vars
  PROVE  [Account!Next]_Accounts
  <1>types. order \in [Orders -> OrderRow]
    BY DEF TypeOK
  <1>1. ASSUME NEW r \in Requests, TransitionStatus(r) PROVE Account!Next
    <2>1. PICK o \in Orders :
            o = tx[r].call.order /\ tx[r].before = order[o] /\ tx[r].call \in Calls
      BY <1>1, HolderTypes DEF TransitionStatus, Holding, ReadsStayCurrent, Current
    <2>2. tx[r].call.to \in {"PROCESSING", "READY_FOR_PICKUP", "COMPLETED"}
      BY <1>1, <2>1 DEF TransitionStatus, Calls, TransitionCalls, CancelCalls, RecordCalls, VoidCalls
    <2>3. /\ order[o].status \in DOMAIN Account!NextStage
          /\ tx[r].call.to = Account!NextStage[order[o].status]
      BY <1>1, <2>1, <2>2 DEF TransitionStatus, allowedOrderTransition, Account!NextStage
    <2>4. Accounts' = [Accounts EXCEPT ![o].stage = tx[r].call.to]
      BY <1>1, <1>types, <2>1, WorkflowAccount
         DEF TransitionStatus, TransitionOrderStatus, OrderRow
    <2>5. Accounts[o].stage = order[o].status
      BY AccountFields
    <2>6. Account!Advance(o)
      BY <2>3, <2>4, <2>5 DEF Account!Advance, Account!UnderWay
    <2> QED BY <2>6 DEF Account!Next
  <1>2. ASSUME NEW r \in Requests, Cancel(r) PROVE Account!Next
    <2>1. PICK o \in Orders :
            o = tx[r].call.order /\ tx[r].before = order[o]
      BY <1>2, HolderTypes DEF Cancel, Holding, ReadsStayCurrent, Current
    <2>2. order[o].status \in DOMAIN Account!NextStage
      BY <1>2, <2>1 DEF Cancel, allowedOrderTransition, Account!NextStage
    <2>3. ConfirmedTotal(PaymentsOf(o)) = 0
      BY <1>2, <2>1 DEF Cancel, LedgerInv, LedgerBalanced, paymentStatusFor
    <2>4. Accounts' = [Accounts EXCEPT ![o].stage = "CANCELLED"]
      BY <1>2, <1>types, <2>1, WorkflowAccount DEF Cancel, CancelOrder, OrderRow
    <2>5. Accounts[o].stage = order[o].status /\ Accounts[o].paid = 0
      BY AccountFields, <2>3
    <2>6. Account!Cancel(o)
      BY <2>2, <2>4, <2>5 DEF Account!Cancel, Account!UnderWay
    <2> QED BY <2>6 DEF Account!Next
  <1>3. ASSUME NEW r \in Requests, RecordPayment(r) PROVE Account!Next
    <2>1. PICK o \in Orders, p \in PaymentRow :
            /\ p.amount \in Nat /\ p.amount > 0
            /\ ConfirmedTotal(PaymentsOf(o)) + p.amount <= order[o].total
            /\ ConfirmedTotal(PaymentsOf(o)') = ConfirmedTotal(PaymentsOf(o)) + p.amount
            /\ \A x \in Orders \ {o} : PaymentsOf(x)' = PaymentsOf(x)
            /\ order' = [order EXCEPT ![o].payment_status =
                           paymentStatusFor(order[o].total, ConfirmedTotal(PaymentsOf(o)'))]
            /\ order[o].status # "CANCELLED"
      BY <1>3, RecordEffect
    <2> DEFINE paid == ConfirmedTotal(PaymentsOf(o)) + p.amount
    <2>2. ConfirmedTotal(PaymentsOf(o)) \in Nat /\ order[o].total \in Nat
      <3>1. PaymentsOf(o) \in SUBSET PaymentRow /\ order[o].total \in Amounts
        BY <1>types DEF TypeOK, PaymentsOf, OrderRow
      <3> QED BY <3>1, TotalIsNat, ConstantsAssumption DEF Amounts
    <2>3. /\ paid \in Nat /\ paid <= order[o].total
          /\ paid \in ConfirmedTotal(PaymentsOf(o)) + 1 .. order[o].total
      BY <2>1, <2>2
    <2>4. ConfirmedTotal(PaymentsOf(o))' = paid
      BY <2>1 DEF ConfirmedTotal, Confirmed
    <2> HIDE DEF paid
    <2>5. Accounts' = [Accounts EXCEPT ![o] =
                        [@ EXCEPT !.paid = paid,
                                  !.standing = Account!Standing(Accounts[o].total, paid)]]
      BY <2>1, <2>3, <2>4, LedgerAccount DEF paid
    <2>6. /\ Accounts[o].stage = order[o].status /\ Accounts[o].total = order[o].total
          /\ Accounts[o].paid = ConfirmedTotal(PaymentsOf(o))
      BY AccountFields
    <2>7. Account!SetPaid(o, paid)
      BY <2>5 DEF Account!SetPaid
    <2>8. Account!Credit(o)
      BY <2>1, <2>3, <2>6, <2>7 DEF Account!Credit
    <2> QED BY <2>8 DEF Account!Next
  <1>4. ASSUME NEW r \in Requests, Void(r) PROVE Account!Next
    <2>1. PICK o \in Orders, p \in payments :
            /\ p.amount \in Nat /\ p.amount > 0
            /\ ConfirmedTotal(PaymentsOf(o)') \in Nat
            /\ ConfirmedTotal(PaymentsOf(o)) = ConfirmedTotal(PaymentsOf(o)') + p.amount
            /\ ConfirmedTotal(PaymentsOf(o)') <= order[o].total
            /\ \A x \in Orders \ {o} : PaymentsOf(x)' = PaymentsOf(x)
            /\ order' = [order EXCEPT ![o].payment_status =
                           paymentStatusFor(order[o].total, ConfirmedTotal(PaymentsOf(o)'))]
      BY <1>4, VoidEffect
    <2> DEFINE paid == ConfirmedTotal(PaymentsOf(o)')
    <2>2. /\ paid \in Nat /\ paid <= order[o].total
          /\ paid \in 0 .. ConfirmedTotal(PaymentsOf(o)) - 1
      BY <2>1
    <2>3. ConfirmedTotal(PaymentsOf(o))' = paid
      BY DEF ConfirmedTotal, Confirmed
    <2> HIDE DEF paid
    <2>4. Accounts' = [Accounts EXCEPT ![o] =
                        [@ EXCEPT !.paid = paid,
                                  !.standing = Account!Standing(Accounts[o].total, paid)]]
      BY <2>1, <2>2, <2>3, LedgerAccount DEF paid
    <2>5. Accounts[o].paid = ConfirmedTotal(PaymentsOf(o))
      BY AccountFields
    <2>6. Account!SetPaid(o, paid)
      BY <2>4 DEF Account!SetPaid
    <2>7. Account!Debit(o)
      BY <2>2, <2>5, <2>6 DEF Account!Debit
    <2> QED BY <2>7 DEF Account!Next
  <1>5. CASE \A r \in Requests :
               ~ TransitionStatus(r) /\ ~ Cancel(r) /\ ~ RecordPayment(r) /\ ~ Void(r)
    <2>1. UNCHANGED <<order, payments>>
      BY <1>5 DEF Next, Request, Management, vars, tables, Begin, LockOrder, LockAssignment,
           ReadPayments, ReplayPayment, Rollback, UpdateStaff, ReplaceStaffOutlets, UpdateOutlet, Tick
    <2> QED BY <2>1 DEF Accounts, AccountOf, ConfirmedTotal, Confirmed, PaymentsOf
  <1> QED BY <1>1, <1>2, <1>3, <1>4, <1>5

\* The transactions, interleaved as they may be, do what OrderAccount says: each
\* order advances, is cancelled, credited or debited in one step at a time.
THEOREM LedgerImplementsAccount == Spec => ImplementsAccount
  <1>1. TypeOK /\ ReadsStayCurrent /\ LedgerInv /\ [Next]_vars => [Account!Next]_Accounts
    BY AccountNext
  <1>2. Spec => Account!Init /\ [][Account!Next]_Accounts
    BY <1>1, AccountInit, TypeInit, TypeNext, CurrentInit, CurrentNext, LedgerInit, LedgerNext,
       PTL DEF Spec
  <1> QED BY <1>2 DEF ImplementsAccount, Account!Spec
============================================================================
