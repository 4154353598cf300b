------------------------------ MODULE Catalogs ------------------------------
(***************************************************************************)
(* The catalogs of a business: perfumes of internal/service/perfumes.go    *)
(* and services of internal/service/services.go behind their handlers,     *)
(* and the customers of internal/handlers/customers.go.                    *)
(*                                                                         *)
(* Each request is a READ COMMITTED transaction.  It reads the row it      *)
(* changes FOR UPDATE, writes it, which waits for other transactions that  *)
(* hold an entry of the unique index with the same key, and commits it     *)
(* with an audit row.  What it wrote is seen by nobody before that.        *)
(***************************************************************************)
EXTENDS Integers

CONSTANTS
  Requests,    \* requests in progress at the same time, one transaction each
  Perfumes,    \* ids of perfumes,
  Services,    \* of services
  Customers,   \* and of customers that may be created
  Names,       \* names as they are stored, trimmed and not empty
  Lower,       \* lower(name)
  Units,       \* services.unit
  MaxVersion   \* bound: of perfumes.version

VARIABLES
  table,  \* the rows of perfumes, services and customers
  trail,  \* per row, old_values and new_values of the last audit row about it
  tx      \* the transaction of each request

vars == <<table, trail, tx>>
----------------------------------------------------------------------------
(***************************************************************************)
(* Rows and calls                                                          *)
(***************************************************************************)
Entries == Perfumes \cup Services \cup Customers

\* perfumes.version counts their changes; the other tables have no such column.
Row ==
  [state : {"live", "deleted"}, name : Names, unit : Units \cup {"none"},
   active : BOOLEAN, version : 0 .. MaxVersion]
NoRow == [state |-> "absent"]

\* What the responses and the audit rows show of a row.
Content == [state : {"live"}, name : Names, unit : Units \cup {"none"}, active : BOOLEAN]
Deleted == [state |-> "deleted"]
Redacted == [state |-> "redacted"]
Shown == Content \cup {NoRow, Deleted, Redacted}

\* perfumeRequest.input and serviceRequest.input: a new row is active, and an
\* update says whether it is.
PerfumeCalls ==
  {[op |-> op, entry |-> e, name |-> n, unit |-> "none", active |-> a] :
     op \in {"Create", "Update", "Delete"}, e \in Perfumes, n \in Names, a \in BOOLEAN}
ServiceCalls ==
  {[op |-> op, entry |-> e, name |-> n, unit |-> u, active |-> a] :
     op \in {"Create", "Update", "Delete"}, e \in Services, n \in Names, u \in Units,
     a \in BOOLEAN}
CustomerCalls ==
  {[op |-> op, entry |-> e, name |-> n, unit |-> "none", active |-> TRUE] :
     op \in {"Create", "Update", "Delete"}, e \in Customers, n \in Names}
Calls == {c \in PerfumeCalls \cup ServiceCalls \cup CustomerCalls :
            c.op # "Update" => c.active}

NoCall == [op |-> "none"]
IdleTx == [phase |-> "idle", call |-> NoCall, old |-> NoRow, new |-> NoRow]

Tx == [phase : {"idle", "called", "read", "written"}, call : Calls \cup {NoCall},
       old : Row \cup {NoRow}, new : Row \cup {NoRow}]

TypeOK ==
  /\ table \in [Entries -> Row \cup {NoRow}]
  /\ trail \in [Entries -> Shown \X Shown]
  /\ tx \in [Requests -> Tx]
----------------------------------------------------------------------------
(***************************************************************************)
(* Queries                                                                 *)
(***************************************************************************)
IsLive(row) == row.state = "live"

GetPerfumeForUpdate(e) == e \in Perfumes /\ IsLive(table[e])
GetServiceForUpdate(e) == e \in Services /\ IsLive(table[e])
GetCustomerForUpdate(e) == e \in Customers /\ IsLive(table[e])
Found(e) == GetPerfumeForUpdate(e) \/ GetServiceForUpdate(e) \/ GetCustomerForUpdate(e)

NewRow(c, version) ==
  [state |-> "live", name |-> c.name, unit |-> c.unit, active |-> TRUE, version |-> version]
CreatePerfume(c) == NewRow(c, 1)
CreateService(c) == NewRow(c, 0)
CreateCustomer(c) == NewRow(c, 0)

UpdatePerfume(row, c) ==
  [row EXCEPT !.version = @ + 1, !.name = c.name, !.active = c.active]
UpdateService(row, c) ==
  [row EXCEPT !.name = c.name, !.unit = c.unit, !.active = c.active]
UpdateCustomer(row, c) == [row EXCEPT !.name = c.name]

SoftDeletePerfume(row) ==
  [row EXCEPT !.version = @ + 1, !.active = FALSE, !.state = "deleted"]
SoftDeleteService(row) == [row EXCEPT !.active = FALSE, !.state = "deleted"]
DeactivateCustomer(row) == [row EXCEPT !.state = "deleted"]

\* perfumes_business_name_uq and services_business_name_unit_uq; customers have
\* no such index since 000010_customer_phone_nonunique.
Key(e, row) ==
  CASE e \in Perfumes -> <<"perfume", Lower[row.name]>>
    [] e \in Services -> <<"service", Lower[row.name], row.unit>>
    [] e \in Customers -> <<"customer", e>>

Collides(e, row, f, other) == IsLive(other) /\ f # e /\ Key(f, other) = Key(e, row)

\* A slip: rows that other transactions wrote and did not commit are not looked at.
IndexHeldForgotten(r, e, row) == FALSE

\* Another transaction in progress has put the key into the index, or is about to
\* take it out.
IndexHeld(r, e, row) ==
  \E s \in Requests \ {r} :
    /\ tx[s].phase = "written"
    /\ LET f == tx[s].call.entry
       IN  Collides(e, row, f, tx[s].new) \/ Collides(e, row, f, table[f])

Taken(e, row) == \E f \in Entries : Collides(e, row, f, table[f])

\* The row lock of GetPerfumeForUpdate and the like.
RowHeld(e) ==
  \E s \in Requests : tx[s].phase \in {"read", "written"} /\ tx[s].call.entry = e

Finish(r) == tx' = [tx EXCEPT ![r] = IdleTx]

Init ==
  /\ table = [e \in Entries |-> NoRow]
  /\ trail = [e \in Entries |-> <<NoRow, NoRow>>]
  /\ tx = [r \in Requests |-> IdleTx]
----------------------------------------------------------------------------
(***************************************************************************)
(* Requests                                                                *)
(***************************************************************************)
\* A row that is created gets an id of its own from the sequence.
Fresh(e) == table[e] = NoRow /\ \A r \in Requests : tx[r].phase # "idle" => tx[r].call.entry # e

Call(r) ==
  /\ tx[r].phase = "idle"
  /\ \E c \in Calls :
       /\ c.op = "Create" => Fresh(c.entry)
       /\ tx' = [tx EXCEPT ![r] = [@ EXCEPT !.phase = "called", !.call = c]]
  /\ UNCHANGED <<table, trail>>

\* GetPerfumeForUpdate, GetServiceForUpdate or GetCustomerForUpdate.
Read(r) ==
  LET e == tx[r].call.entry
  IN  /\ tx[r].phase = "called" /\ tx[r].call.op # "Create"
      /\ ~ RowHeld(e)
      /\ Found(e) /\ table[e].version < MaxVersion
      /\ tx' = [tx EXCEPT ![r] = [@ EXCEPT !.phase = "read", !.old = table[e]]]
      /\ UNCHANGED <<table, trail>>

\* The statement that writes, when it neither waits for the index nor fails on it.
Writes(r, row) ==
  /\ ~ IndexHeld(r, tx[r].call.entry, row)
  /\ ~ Taken(tx[r].call.entry, row)
  /\ tx' = [tx EXCEPT ![r] = [@ EXCEPT !.phase = "written", !.new = row]]
  /\ UNCHANGED <<table, trail>>

Asks(r, phase, op, ids) ==
  tx[r].phase = phase /\ tx[r].call.op = op /\ tx[r].call.entry \in ids

PerfumeCreate(r) == Asks(r, "called", "Create", Perfumes) /\ Writes(r, CreatePerfume(tx[r].call))
ServiceCreate(r) == Asks(r, "called", "Create", Services) /\ Writes(r, CreateService(tx[r].call))
CustomerCreate(r) ==
  Asks(r, "called", "Create", Customers) /\ Writes(r, CreateCustomer(tx[r].call))

PerfumeUpdate(r) ==
  Asks(r, "read", "Update", Perfumes) /\ Writes(r, UpdatePerfume(tx[r].old, tx[r].call))
ServiceUpdate(r) ==
  Asks(r, "read", "Update", Services) /\ Writes(r, UpdateService(tx[r].old, tx[r].call))
CustomerUpdate(r) ==
  Asks(r, "read", "Update", Customers) /\ Writes(r, UpdateCustomer(tx[r].old, tx[r].call))

\* A deleted row leaves the partial index: there is nothing to wait for.
Deletes(r, row) ==
  /\ tx' = [tx EXCEPT ![r] = [@ EXCEPT !.phase = "written", !.new = row]]
  /\ UNCHANGED <<table, trail>>

PerfumeDelete(r) ==
  Asks(r, "read", "Delete", Perfumes) /\ Deletes(r, SoftDeletePerfume(tx[r].old))
ServiceDelete(r) ==
  Asks(r, "read", "Delete", Services) /\ Deletes(r, SoftDeleteService(tx[r].old))
CustomerDeactivate(r) ==
  Asks(r, "read", "Delete", Customers) /\ Deletes(r, DeactivateCustomer(tx[r].old))

\* perfumeFromRow and serviceFromRow; {"deleted": true} of a deleted row.
FromRow(row) ==
  CASE row.state = "live" ->
         [state |-> "live", name |-> row.name, unit |-> row.unit, active |-> row.active]
    [] row.state = "deleted" -> Deleted
    [] row.state = "absent" -> NoRow

\* What the audit row carries of a row; personal data are redacted.
auditPerfume(content) == content
auditService(content) == content
customerAuditValues(content) == IF content.state = "live" THEN Redacted ELSE content
Told(e, content) ==
  CASE e \in Perfumes -> auditPerfume(content)
    [] e \in Services -> auditService(content)
    [] e \in Customers -> customerAuditValues(content)

\* A slip: the old values of the audit row are read after the change.
WriteAuditAfterwards(e, old, new) ==
  trail' = [trail EXCEPT ![e] = <<Told(e, FromRow(new)), Told(e, FromRow(new))>>]

WriteAudit(e, old, new) ==
  trail' = [trail EXCEPT ![e] = <<Told(e, FromRow(old)), Told(e, FromRow(new))>>]

Commit(r) ==
  LET e == tx[r].call.entry
  IN  /\ tx[r].phase = "written"
      /\ table' = [table EXCEPT ![e] = tx[r].new]
      /\ WriteAudit(e, tx[r].old, tx[r].new)
      /\ Finish(r)

\* The row the call would write next, and its early returns: a row that is not
\* there, and perfumeWriteError or serviceWriteError for a key that is taken.
NextRow(r) ==
  LET c == tx[r].call
      e == c.entry
  IN  CASE c.op = "Create" /\ e \in Perfumes -> CreatePerfume(c)
        [] c.op = "Create" /\ e \in Services -> CreateService(c)
        [] c.op = "Create" /\ e \in Customers -> CreateCustomer(c)
        [] c.op = "Update" /\ e \in Perfumes -> UpdatePerfume(tx[r].old, c)
        [] c.op = "Update" /\ e \in Services -> UpdateService(tx[r].old, c)
        [] c.op = "Update" /\ e \in Customers -> UpdateCustomer(tx[r].old, c)

NotFound(r) ==
  /\ tx[r].phase = "called" /\ tx[r].call.op # "Create"
  /\ ~ RowHeld(tx[r].call.entry) /\ ~ Found(tx[r].call.entry)

WriteError(r) ==
  /\ \/ tx[r].phase = "called" /\ tx[r].call.op = "Create"
     \/ tx[r].phase = "read" /\ tx[r].call.op = "Update"
  /\ ~ IndexHeld(r, tx[r].call.entry, NextRow(r))
  /\ Taken(tx[r].call.entry, NextRow(r))

\* Also a cancelled request context, a deadlock of two index entries, or a crash.
Rollback(r) ==
  /\ tx[r].phase # "idle"
  /\ Finish(r)
  /\ UNCHANGED <<table, trail>>
Refuse(r) == (NotFound(r) \/ WriteError(r)) /\ Rollback(r)

Work(r) ==
  \/ Read(r) \/ Commit(r) \/ Refuse(r)
  \/ PerfumeCreate(r) \/ PerfumeUpdate(r) \/ PerfumeDelete(r)
  \/ ServiceCreate(r) \/ ServiceUpdate(r) \/ ServiceDelete(r)
  \/ CustomerCreate(r) \/ CustomerUpdate(r) \/ CustomerDeactivate(r)

Next == \E r \in Requests : Call(r) \/ Work(r) \/ Rollback(r)

Spec == Init /\ [][Next]_vars
----------------------------------------------------------------------------
(***************************************************************************)
(* Properties                                                              *)
(***************************************************************************)
\* The concurrent requests implement the catalog of LiveCatalog: names are taken
\* and given up atomically, whatever is being renamed or deleted at the same time,
\* and the audit rows tell each change as it happened (perfumes_business_name_uq,
\* GetPerfumeForUpdate and auditPerfume, and their likes for services and customers).
Shelf ==
  INSTANCE LiveCatalog WITH
    Contents <- Content, Absent <- NoRow, Removed <- Deleted,
    shelf <- [e \in Entries |-> FromRow(table[e])], told <- trail

ImplementsCatalog == Shelf!Spec
============================================================================
