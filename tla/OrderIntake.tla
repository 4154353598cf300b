---------------------------- MODULE OrderIntake ----------------------------
(***************************************************************************)
(* Creation of orders: OrderCatalog.Create of internal/service/orders.go,  *)
(* as concurrent READ COMMITTED transactions, while owners and staff       *)
(* rewrite the catalogs, reassign staff and close outlets, and midnight    *)
(* passes.                                                                 *)
(*                                                                         *)
(* A call takes the advisory lock of its Idempotency-Key, then shares the  *)
(* outlet, the assignment and the rows of the catalogs it sells from, then *)
(* takes the invoice counter of the day.  All are held until it ends.      *)
(***************************************************************************)
EXTENDS Integers, Sequences

CONSTANTS
  Requests,   \* requests in progress at the same time, one transaction each
  Outlets,
  Users,      \* users of the business
  Admins,     \* those whose role is ADMIN; the others are LAUNDRY_STAFF
  Keys,       \* Idempotency-Key values
  Customers, Perfumes, Services,
  Names,      \* what can be rewritten of a customer or a perfume
  Offers,     \* what can be rewritten of a service: [unit, price]
  Payloads,   \* decoded request bodies; equal ones have equal request_hash
  DayLength,  \* ticks of the clock in a day of Asia/Jakarta
  MaxTime,    \* bound: the last value of the database clock
  MaxTotal    \* the largest int64, in rupiah

Times == 0 .. MaxTime
DayOf(t) == t \div DayLength
Days == {DayOf(t) : t \in Times}

\* due is NULL or one time.
Payload ==
  [customer : Customers, perfume : Perfumes \cup {"NULL"}, due : SUBSET Times,
   items : Seq([service : Services, milli : Nat \ {0}])]

ASSUME IntakeAssumption ==
  /\ Admins \subseteq Users
  /\ Offers \subseteq [unit : {"kg", "pcs", "m", "m2"}, price : Nat]
  /\ Payloads \subseteq Payload
  /\ \A p \in Payloads : p.items # <<>> /\ \A s, t \in p.due : s = t
  /\ DayLength \in Nat \ {0} /\ MaxTime \in Nat /\ MaxTotal \in Nat
  /\ Customers \cap Perfumes = {}
  /\ Services \cap (Customers \cup Perfumes) = {}

VARIABLES
  orders,    \* tables orders and order_items
  counters,  \* invoice_counters.next_number; 1 where there is no row
  catalog,   \* tables customers, perfumes and services
  assigned,  \* table user_outlets: pairs <<user, outlet>>
  active,    \* users.is_active
  open,      \* outlets with is_active
  clock,     \* the database clock
  tx,        \* the transaction of each request
  acks       \* what successful calls reported to their clients

vars == <<orders, counters, catalog, assigned, active, open, clock, tx, acks>>
books == <<orders, counters, acks>>
shop == <<catalog, assigned, active, open, clock>>
----------------------------------------------------------------------------
(***************************************************************************)
(* Rows, calls and transactions                                            *)
(***************************************************************************)
Goods == Customers \cup Perfumes \cup Services
Contents == Names \cup Offers

Calls == [outlet : Outlets, user : Users, key : Keys, payload : Payloads]
NoCall == [key |-> "none"]

OrderRow ==
  [outlet : Outlets, key : Keys, payload : Payloads, by : Users, received : Times,
   number : Nat \ {0}, snapshot : Seq(Contents), total : 0 .. MaxTotal]

Phases == {"idle", "begun", "keyed", "shared", "scoped", "fresh", "numbered"}
IdleTx == [phase |-> "idle", call |-> NoCall, at |-> 0, snapshot |-> <<>>, number |-> 0]

Tx ==
  [phase : Phases, call : Calls \cup {NoCall}, at : Times, snapshot : Seq(Contents),
   number : Nat]
CatalogRow == [content : Contents, state : {"active", "inactive", "deleted"}]

TypeOK ==
  /\ orders \subseteq OrderRow
  /\ counters \in [Outlets \X Days -> Nat \ {0}]
  /\ catalog \in [Goods -> CatalogRow]
  /\ assigned \subseteq Users \X Outlets
  /\ active \in [Users -> BOOLEAN]
  /\ open \subseteq Outlets
  /\ clock \in Times
  /\ tx \in [Requests -> Tx]
  /\ acks \subseteq [outlet : Outlets, key : Keys, payload : Payloads, order : OrderRow]

----------------------------------------------------------------------------
(***************************************************************************)
(* Locks and prices                                                        *)
(***************************************************************************)
\* The rows of the catalogs in the order Create reads them.
ServicesOf(p) == [i \in DOMAIN p.items |-> p.items[i].service]
RowsRead(p) ==
  <<p.customer>> \o (IF p.perfume = "NULL" THEN <<>> ELSE <<p.perfume>>) \o ServicesOf(p)

\* A call is past a phase it went through.
Past(r, phases) == tx[r].phase \in Phases \ ({"idle", "begun"} \cup phases)

\* A slip: no advisory lock.
KeyHeldForgotten(x, k) == FALSE

KeyHeld(x, k) ==
  \E r \in Requests : Past(r, {}) /\ tx[r].call.outlet = x /\ tx[r].call.key = k
OutletShared(x) == \E r \in Requests : Past(r, {"keyed"}) /\ tx[r].call.outlet = x

\* A slip: GetActiveStaffOrderOutlet without its FOR SHARE.
AssignmentSharedForgotten(u) == FALSE

AssignmentShared(u) ==
  \E r \in Requests : Past(r, {"keyed", "shared"}) /\ tx[r].call.user = u

\* A slip: the counter read first and written later.
CounterHeldForgotten(x, d) == FALSE

CounterHeld(x, d) ==
  \E r \in Requests :
    tx[r].phase = "numbered" /\ tx[r].call.outlet = x /\ DayOf(tx[r].at) = d

\* A slip: the catalogs read without FOR SHARE.
SharedForgotten(g) == FALSE

Shared(g) ==
  \E r \in Requests :
    \E i \in 1 .. Len(tx[r].snapshot) : RowsRead(tx[r].call.payload)[i] = g

\* Half a rupiah rounds up.
LineTotal(milli, price) == (milli * price + 500) \div 1000

TotalOf(p, snapshot) ==
  LET n == Len(p.items)
      priced(i) == snapshot[Len(RowsRead(p)) - n + i].price
      sum[i \in 0 .. n] ==
        IF i = 0 THEN 0 ELSE sum[i - 1] + LineTotal(p.items[i].milli, priced(i))
  IN  sum[n]

\* Pieces come whole.
QuantityFits(p, i, content) ==
  LET j == i - (Len(RowsRead(p)) - Len(p.items))
  IN  j > 0 /\ content.unit = "pcs" => p.items[j].milli % 1000 = 0

\* A slip: the sum is not checked for overflow, only its terms are.
TotalFitsUnchecked(total) == TRUE

TotalFits(total) == total <= MaxTotal

Finish(r) == tx' = [tx EXCEPT ![r] = IdleTx]
Move(r, phase) == tx' = [tx EXCEPT ![r].phase = phase]

Init ==
  /\ orders = {}
  /\ counters = [xd \in Outlets \X Days |-> 1]
  /\ catalog \in [Goods -> [content : Contents, state : {"active"}]]
  /\ \A g \in Goods : catalog[g].content \in Offers <=> g \in Services
  /\ assigned = (Users \ Admins) \X Outlets
  /\ active = [u \in Users |-> TRUE]
  /\ open = Outlets
  /\ clock = 0
  /\ tx = [r \in Requests |-> IdleTx]
  /\ acks = {}
----------------------------------------------------------------------------
(***************************************************************************)
(* Create                                                                  *)
(***************************************************************************)
\* A handler decoded the request and began its transaction: now() and with it
\* CURRENT_DATE are fixed here.  What the middleware knew of the user is old.
Begin(r) ==
  /\ tx[r].phase = "idle"
  /\ \E c \in Calls : tx' = [tx EXCEPT ![r] = [@ EXCEPT !.phase = "begun", !.call = c, !.at = clock]]
  /\ UNCHANGED <<books, shop>>

\* LockOrderIdempotency waits for the other calls under the same key.
LockKey(r) ==
  /\ tx[r].phase = "begun"
  /\ ~ KeyHeld(tx[r].call.outlet, tx[r].call.key)
  /\ Move(r, "keyed")
  /\ UNCHANGED <<books, shop>>

\* GetActiveOrderOutlet.
LockOutlet(r) ==
  /\ tx[r].phase = "keyed"
  /\ tx[r].call.outlet \in open
  /\ Move(r, "shared")
  /\ UNCHANGED <<books, shop>>

Assigned(c) == c.user \in Admins \/ <<c.user, c.outlet>> \in assigned

\* GetActiveStaffOrderOutlet, for staff.
LockAssignment(r) ==
  /\ tx[r].phase = "shared"
  /\ Assigned(tx[r].call)
  /\ Move(r, "scoped")
  /\ UNCHANGED <<books, shop>>

Report(c, o) ==
  acks' = acks \cup {[outlet |-> c.outlet, key |-> c.key, payload |-> c.payload, order |-> o]}

KnownOrders(c) == {o \in orders : o.outlet = c.outlet /\ o.key = c.key}

\* A slip: the reply is sent and the transaction left open.
ReplayLeaking(r) ==
  /\ tx[r].phase = "scoped"
  /\ \E o \in KnownOrders(tx[r].call) :
       o.payload = tx[r].call.payload /\ Report(tx[r].call, o)
  /\ UNCHANGED <<orders, counters, shop, tx>>

\* The key was used before with the same payload.
Replay(r) ==
  /\ tx[r].phase = "scoped"
  /\ \E o \in KnownOrders(tx[r].call) :
       o.payload = tx[r].call.payload /\ Report(tx[r].call, o)
  /\ Finish(r)
  /\ UNCHANGED <<orders, counters, shop>>

\* The key is new to the outlet.
LookUpKey(r) ==
  /\ tx[r].phase = "scoped"
  /\ KnownOrders(tx[r].call) = {}
  /\ Move(r, "fresh")
  /\ UNCHANGED <<books, shop>>

\* The next row of a catalog is locked, found on sale and copied.
NextRow(r) == Len(tx[r].snapshot) + 1
AllRead(r) == Len(tx[r].snapshot) = Len(RowsRead(tx[r].call.payload))

OnSale(r) ==
  LET g == RowsRead(tx[r].call.payload)[NextRow(r)]
  IN  /\ catalog[g].state = "active"
      /\ QuantityFits(tx[r].call.payload, NextRow(r), catalog[g].content)

LockCatalogRow(r) ==
  /\ tx[r].phase = "fresh" /\ ~ AllRead(r)
  /\ OnSale(r)
  /\ LET g == RowsRead(tx[r].call.payload)[NextRow(r)]
     IN  tx' = [tx EXCEPT ![r].snapshot = Append(@, catalog[g].content)]
  /\ UNCHANGED <<books, shop>>

Accepted(r) ==
  /\ TotalFits(TotalOf(tx[r].call.payload, tx[r].snapshot))
  /\ \A t \in tx[r].call.payload.due : t >= tx[r].at

\* AllocateInvoiceNumber waits for the counter of the day its transaction began.
AllocateInvoiceNumber(r) ==
  LET xd == <<tx[r].call.outlet, DayOf(tx[r].at)>>
  IN  /\ tx[r].phase = "fresh" /\ AllRead(r)
      /\ Accepted(r)
      /\ ~ CounterHeld(xd[1], xd[2])
      /\ tx' = [tx EXCEPT ![r] = [@ EXCEPT !.phase = "numbered", !.number = counters[xd]]]
      /\ UNCHANGED <<books, shop>>

\* The order, its items and its first history row are inserted and committed
\* together with the counter; a trigger copies the customer at that moment.
Commit(r) ==
  LET c == tx[r].call
      o == [outlet |-> c.outlet, key |-> c.key, payload |-> c.payload, by |-> c.user,
            received |-> tx[r].at, number |-> tx[r].number,
            snapshot |-> [tx[r].snapshot EXCEPT ![1] = catalog[c.payload.customer].content],
            total |-> TotalOf(c.payload, tx[r].snapshot)]
  IN  /\ tx[r].phase = "numbered"
      /\ orders' = orders \cup {o}
      /\ counters' = [counters EXCEPT ![<<c.outlet, DayOf(tx[r].at)>>] = tx[r].number + 1]
      /\ Report(c, o)
      /\ Finish(r)
      /\ UNCHANGED shop

\* The early returns of Create once its transaction began.
Refused(r) ==
  LET c == tx[r].call
  IN  \/ tx[r].phase = "keyed" /\ c.outlet \notin open
      \/ tx[r].phase = "shared" /\ ~ Assigned(c)
      \/ tx[r].phase = "scoped" /\ \E o \in KnownOrders(c) : o.payload # c.payload
      \/ tx[r].phase = "fresh" /\ ~ AllRead(r) /\ ~ OnSale(r)
      \/ tx[r].phase = "fresh" /\ AllRead(r) /\ ~ Accepted(r)

Refuse(r) ==
  /\ Refused(r)
  /\ Finish(r)
  /\ UNCHANGED <<books, shop>>

\* A cancelled request context, a lost connection or a crash, at any point.
Rollback(r) ==
  /\ tx[r].phase # "idle"
  /\ Finish(r)
  /\ UNCHANGED <<books, shop>>
----------------------------------------------------------------------------
(***************************************************************************)
(* The shop meanwhile: each write is a transaction of one locked row, and  *)
(* of the outlets or the assignments it concerns.                          *)
(***************************************************************************)
Rewrite(g, contents, states) ==
  /\ catalog[g].state # "deleted"
  /\ ~ Shared(g)
  /\ \E c \in contents, s \in states : catalog' = [catalog EXCEPT ![g] = [content |-> c, state |-> s]]
  /\ UNCHANGED <<books, assigned, active, open, clock, tx>>

UpdateService(g) == g \in Services /\ Rewrite(g, Offers, {"active", "inactive"})
UpdatePerfume(g) == g \in Perfumes /\ Rewrite(g, Names, {"active", "inactive"})
UpdateCustomer(g) == g \in Customers /\ Rewrite(g, Names, {"active"})

\* SoftDeleteService, SoftDeletePerfume and DeactivateCustomer: for good.
SoftDelete(g) == Rewrite(g, {catalog[g].content}, {"deleted"})

OwnerOtherThan(u) == \E v \in Admins \ {u} : active[v]

UpdateStaff(u) ==
  /\ OwnerOtherThan(u)
  /\ active' = [active EXCEPT ![u] = ~ @]
  /\ UNCHANGED <<books, catalog, assigned, open, clock, tx>>

ReplaceStaffOutlets(u, outlets) ==
  /\ u \notin Admins /\ OwnerOtherThan(u)
  /\ outlets # {} /\ outlets \subseteq open
  /\ ~ AssignmentShared(u)
  /\ assigned' = {a \in assigned : a[1] # u} \cup ({u} \X outlets)
  /\ UNCHANGED <<books, catalog, active, open, clock, tx>>

UpdateOutlet(x) ==
  /\ \E v \in Admins : active[v]
  /\ ~ OutletShared(x)
  /\ \/ x \notin open /\ open' = open \cup {x}
     \/ /\ x \in open /\ open' = open \ {x}
        /\ \A u \in Users \ Admins : active[u] /\ <<u, x>> \in assigned =>
             \E y \in open \ {x} : <<u, y>> \in assigned
  /\ UNCHANGED <<books, catalog, assigned, active, clock, tx>>

Tick ==
  /\ clock < MaxTime
  /\ clock' = clock + 1
  /\ UNCHANGED <<books, catalog, assigned, active, open, tx>>

Work(r) ==
  \/ LockKey(r) \/ LockOutlet(r) \/ LockAssignment(r) \/ Replay(r) \/ LookUpKey(r)
  \/ LockCatalogRow(r) \/ AllocateInvoiceNumber(r) \/ Commit(r) \/ Refuse(r)

Shop ==
  \/ \E g \in Goods : UpdateService(g) \/ UpdatePerfume(g) \/ UpdateCustomer(g) \/ SoftDelete(g)
  \/ \E u \in Users : UpdateStaff(u)
  \/ \E u \in Users : \E outlets \in SUBSET Outlets : ReplaceStaffOutlets(u, outlets)
  \/ \E x \in Outlets : UpdateOutlet(x)

Next == (\E r \in Requests : Begin(r) \/ Work(r) \/ Rollback(r)) \/ Shop \/ Tick

Spec == Init /\ [][Next]_vars

\* A call goes on: its statements return, and PostgreSQL hands a lock to those
\* that queue for it in the order they came, so nobody waits for one for ever.
FairSpec == Spec /\ \A r \in Requests : SF_vars(Work(r))
----------------------------------------------------------------------------
(***************************************************************************)
(* Properties                                                              *)
(***************************************************************************)
Numbered(x, d) == {o \in orders : o.outlet = x /\ DayOf(o.received) = d}

\* The invoice numbers of an outlet and day are 1, 2, 3 and so on without a gap
\* and none is given twice, whichever calls race and whichever are rolled back
\* after they took one (AllocateInvoiceNumber).
NumbersGapless ==
  \A x \in Outlets, d \in Days :
    /\ {o.number : o \in Numbered(x, d)} = 1 .. counters[<<x, d>>] - 1
    /\ \A a, b \in Numbered(x, d) : a.number = b.number => a = b

\* An Idempotency-Key makes at most one order in its outlet, every success
\* reported under it is that order, and it was made of the payload that was sent
\* (Create, GetOrderByIdempotencyKey).
OneOrderPerKey ==
  /\ \A a, b \in orders : a.outlet = b.outlet /\ a.key = b.key => a = b
  /\ \A a \in acks :
       /\ a.order \in orders
       /\ a.order.outlet = a.outlet /\ a.order.key = a.key /\ a.order.payload = a.payload

\* At the moment an order comes to be, each row it copied from a catalog is still
\* active and still what was copied, its outlet is open and its creator, if
\* staff, is assigned to it: a price, a deletion, a reassignment or a closure
\* that came first is honoured, one that came in between had to wait (Create).
AcceptedAsOffered ==
  [][\A o \in orders' \ orders :
       /\ \A i \in DOMAIN RowsRead(o.payload) :
            catalog[RowsRead(o.payload)[i]] = [content |-> o.snapshot[i], state |-> "active"]
       /\ o.outlet \in open
       /\ o.by \in Admins \/ <<o.by, o.outlet>> \in assigned]_vars

SameKey(r, s) ==
  tx[r].call.outlet = tx[s].call.outlet /\ tx[r].call.key = tx[s].call.key
SameBook(r, s) ==
  tx[r].call.outlet = tx[s].call.outlet /\ DayOf(tx[r].at) = DayOf(tx[s].at)

Current(r) ==
  LET c == tx[r].call
  IN  /\ Past(r, {"keyed"}) => c.outlet \in open
      /\ Past(r, {"keyed", "shared"}) => Assigned(c)
      /\ Past(r, {"keyed", "shared", "scoped"}) => KnownOrders(c) = {}
      /\ tx[r].phase = "numbered" =>
           AllRead(r) /\ tx[r].number = counters[<<c.outlet, DayOf(tx[r].at)>>]
      /\ \A i \in 1 .. Len(tx[r].snapshot) :
           catalog[RowsRead(c.payload)[i]] = [content |-> tx[r].snapshot[i], state |-> "active"]

Alone(r) ==
  \A s \in Requests \ {r} :
    /\ Past(r, {}) /\ Past(s, {}) => ~ SameKey(r, s)
    /\ tx[r].phase = "numbered" /\ tx[s].phase = "numbered" => ~ SameBook(r, s)

\* What a call read is still so until it ends: the outlet and the assignment, that
\* its key is new, each row of the catalogs and the counter; and no two calls hold
\* one key or one counter (Create).  The other properties rest on this one.
ReadsStayCurrent == \A r \in Requests : Current(r) /\ Alone(r)

\* Every call ends: the locks of Create are taken in an order in which no two
\* calls wait for one another, and every path of it ends the transaction.
EveryCallEnds == \A r \in Requests : tx[r].phase # "idle" ~> tx[r].phase = "idle"

\* The detailed intake implements the book of InvoiceBook: the n-th entry of a
\* book is the order that carries the number n.
OrderNumbered(xd, n) == CHOOSE o \in Numbered(xd[1], xd[2]) : o.number = n

Books ==
  [xd \in Outlets \X Days |->
    [n \in 1 .. counters[xd] - 1 |->
      [key |-> OrderNumbered(xd, n).key, payload |-> OrderNumbered(xd, n).payload]]]

Book == INSTANCE InvoiceBook WITH book <- Books

ImplementsBook == Book!Spec
============================================================================
