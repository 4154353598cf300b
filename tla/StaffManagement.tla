-------------------------- MODULE StaffManagement --------------------------
(***************************************************************************)
(* ManagementHandler of internal/handlers/management.go: the owners of one *)
(* business create, change and assign its staff and its outlets, each      *)
(* request a READ COMMITTED transaction that begins by locking the row of  *)
(* the business, while the platform switches the business off and on.      *)
(*                                                                         *)
(* A request is called with what the middleware knew of its actor, locks   *)
(* the business, finds its actor still an administrator in service, reads  *)
(* and checks the rows it is about, and writes them at its commit with the *)
(* audit row that carries their old and new values.                        *)
(***************************************************************************)
EXTENDS Integers, FiniteSets

CONSTANTS
  Requests,     \* requests in progress at the same time, one transaction each
  Users,        \* accounts that exist or may be created; an account is its email
  Owners,       \* the administrators the business begins with
  Staff,        \* the staff it begins with
  Outlets,      \* outlets that exist or may be created
  First,        \* the outlet it begins with
  Permissions,  \* the catalog of permission codes
  Ops           \* bound: the operations that requests ask for

ASSUME RosterAssumption ==
  /\ Owners \subseteq Users /\ Owners # {}
  /\ Staff \subseteq Users \ Owners
  /\ First \in Outlets

VARIABLES
  role,       \* users.role; NONE where there is no row
  active,     \* users with is_active
  assigned,   \* table user_outlets: pairs <<user, outlet>>
  granted,    \* table user_permissions: pairs <<user, permission>>
  code,       \* outlets.code as a number; 0 where there is no row
  open,       \* outlets with is_active
  allocated,  \* business_outlet_counters.last_allocated
  trading,    \* businesses.is_active
  audited,    \* per subject, new_values of the last audit row about it
  tx          \* the transaction of each request

tables == <<role, active, assigned, granted, code, open>>
vars == <<role, active, assigned, granted, code, open, allocated, trading, audited, tx>>
----------------------------------------------------------------------------
(***************************************************************************)
(* Calls and transactions                                                  *)
(***************************************************************************)
Roles == {"NONE", "ADMIN", "LAUNDRY_STAFF"}

\* One operation each, with what its path and its body may ask for.
StaffCalls ==
  {[op |-> "UpdateStaff", by |-> a, user |-> u, to |-> to] :
     a \in Users, u \in Users, to \in BOOLEAN}
OutletsCalls ==
  {[op |-> op, by |-> a, user |-> u, to |-> to] :
     op \in {"CreateStaff", "ReplaceStaffOutlets"}, a \in Users, u \in Users,
     to \in (SUBSET Outlets) \ {{}}}
PermissionsCalls ==
  {[op |-> "ReplaceStaffPermissions", by |-> a, user |-> u, to |-> to] :
     a \in Users, u \in Users, to \in SUBSET Permissions}
CreateOutletCalls ==
  {[op |-> "CreateOutlet", by |-> a, outlet |-> o, to |-> TRUE] :
     a \in Users, o \in Outlets}
UpdateOutletCalls ==
  {[op |-> "UpdateOutlet", by |-> a, outlet |-> o, to |-> to] :
     a \in Users, o \in Outlets, to \in BOOLEAN}
Calls ==
  StaffCalls \cup OutletsCalls \cup PermissionsCalls \cup CreateOutletCalls
    \cup UpdateOutletCalls

NoCall == [op |-> "none"]
Phases == {"idle", "called", "locked", "owner", "checked"}
IdleTx == [phase |-> "idle", call |-> NoCall, old |-> {}]

\* The rows of one user and of one outlet.
GetStaffForUpdate(u) == role[u] # "NONE"
GetOutletForUpdate(o) == code[o] # 0

\* A slip: the outlets that are closed, too.
ListStaffOutletIDsEver(u) == {o \in Outlets : <<u, o>> \in assigned}

\* Of the outlets a user was given those that are open.
ListStaffOutletIDs(u) == {o \in open : <<u, o>> \in assigned}
ListStaffPermissionCodes(u) == {p \in Permissions : <<u, p>> \in granted}

\* What an audit row is about: a column of a user or of an outlet.
Subjects == ({"isActive", "outletIds", "permissions"} \X Users) \cup ({"code"} \X Outlets)
              \cup ({"open"} \X Outlets)

\* The value of a column, as a set.
ValueOf(s) ==
  CASE s[1] = "isActive" -> active \cap {s[2]}
    [] s[1] = "outletIds" -> ListStaffOutletIDs(s[2])
    [] s[1] = "permissions" -> ListStaffPermissionCodes(s[2])
    [] s[1] = "code" -> {code[s[2]]}
    [] s[1] = "open" -> open \cap {s[2]}

\* The column that a call writes.
SubjectOf(c) ==
  CASE c.op = "UpdateStaff" -> <<"isActive", c.user>>
    [] c.op \in {"CreateStaff", "ReplaceStaffOutlets"} -> <<"outletIds", c.user>>
    [] c.op = "ReplaceStaffPermissions" -> <<"permissions", c.user>>
    [] c.op = "CreateOutlet" -> <<"code", c.outlet>>
    [] c.op = "UpdateOutlet" -> <<"open", c.outlet>>

Values == (SUBSET Users) \cup (SUBSET Outlets) \cup (SUBSET Permissions) \cup (SUBSET Nat)
Tx == [phase : Phases, call : Calls \cup {NoCall}, old : Values]

TypeOK ==
  /\ role \in [Users -> Roles]
  /\ active \subseteq Users
  /\ assigned \subseteq Users \X Outlets
  /\ granted \subseteq Users \X Permissions
  /\ code \in [Outlets -> Nat]
  /\ open \subseteq Outlets
  /\ allocated \in Nat
  /\ trading \in BOOLEAN
  /\ audited \in [Subjects -> Values]
  /\ tx \in [Requests -> Tx]
  /\ active \subseteq {u \in Users : GetStaffForUpdate(u)}
  /\ open \subseteq {o \in Outlets : GetOutletForUpdate(o)}
----------------------------------------------------------------------------
(***************************************************************************)
(* Queries                                                                 *)
(***************************************************************************)
\* A slip: LockActiveBusiness without its FOR UPDATE.
BusinessHeldForgotten == FALSE

BusinessHeld == \E r \in Requests : tx[r].phase \in {"locked", "owner", "checked"}

GetActiveUser(u) == role[u] = "ADMIN" /\ u \in active

OtherActiveAdmins(u) == {v \in Users \ {u} : role[v] = "ADMIN" /\ v \in active}

\* A slip: any other outlet does, a closed one too.
StaffWithoutOtherOutletAnywhere(o) ==
  {u \in active : /\ role[u] = "LAUNDRY_STAFF" /\ <<u, o>> \in assigned
                  /\ ~ \E x \in Outlets \ {o} : <<u, x>> \in assigned}

StaffWithoutOtherOutlet(o) ==
  {u \in active : /\ role[u] = "LAUNDRY_STAFF" /\ <<u, o>> \in assigned
                  /\ ~ \E x \in open \ {o} : <<u, x>> \in assigned}

\* As many rows are found as were asked for.
LockActiveOutlets(outlets) == outlets \cap open
validateOutletIDs(outlets) == LockActiveOutlets(outlets) = outlets

\* What the statements that write leave in their tables.
CreateUser(u) == [role EXCEPT ![u] = "LAUNDRY_STAFF"]
UpdateUser(u, to) == IF to THEN active \cup {u} ELSE active \ {u}
DeleteStaffOutlets(u) == {a \in assigned : a[1] # u}
AddStaffOutlet(u, outlets) == {u} \X outlets
DeleteStaffPermissions(u) == {g \in granted : g[1] # u}
AddStaffPermission(u, permissions) == {u} \X permissions
InsertOutlet(o, n) == [code EXCEPT ![o] = n]
SetOutlet(o, to) == IF to THEN open \cup {o} ELSE open \ {o}

Finish(r) == tx' = [tx EXCEPT ![r] = IdleTx]
Move(r, phase) == tx' = [tx EXCEPT ![r].phase = phase]

\* Onboarding leaves a business with an outlet and its administrators; the staff
\* came later.
Init ==
  /\ role = [u \in Users |->
              IF u \in Owners THEN "ADMIN" ELSE IF u \in Staff THEN "LAUNDRY_STAFF" ELSE "NONE"]
  /\ active = Owners \cup Staff
  /\ assigned = (Owners \cup Staff) \X {First}
  /\ granted = {}
  /\ code = [o \in Outlets |-> IF o = First THEN 1 ELSE 0]
  /\ open = {First}
  /\ allocated = 1
  /\ trading = TRUE
  /\ audited = [s \in Subjects |-> ValueOf(s)]
  /\ tx = [r \in Requests |-> IdleTx]
----------------------------------------------------------------------------
(***************************************************************************)
(* The management requests                                                 *)
(***************************************************************************)
\* Refused before a transaction begins: an administrator who would suspend or
\* reassign or empower himself.
SelfDirected(c) ==
  \/ c.op = "UpdateStaff" /\ c.user = c.by /\ ~ c.to
  \/ c.op \in {"ReplaceStaffOutlets", "ReplaceStaffPermissions"} /\ c.user = c.by

\* The middleware found the actor an administrator in service of an active business.
Call(r) ==
  /\ tx[r].phase = "idle"
  /\ \E c \in {d \in Calls : d.op \in Ops} :
       /\ trading /\ GetActiveUser(c.by)
       /\ ~ SelfDirected(c)
       /\ tx' = [tx EXCEPT ![r] = [@ EXCEPT !.phase = "called", !.call = c]]
  /\ UNCHANGED <<tables, allocated, trading, audited>>

\* lockOwnerContext, its first statement ...
LockActiveBusiness(r) ==
  /\ tx[r].phase = "called"
  /\ ~ BusinessHeld
  /\ trading
  /\ Move(r, "locked")
  /\ UNCHANGED <<tables, allocated, trading, audited>>

\* A slip: what the middleware knew of the actor is trusted.
lockOwnerContextTrusting(r) ==
  /\ tx[r].phase = "locked"
  /\ Move(r, "owner")
  /\ UNCHANGED <<tables, allocated, trading, audited>>

\* ... and its second.
lockOwnerContext(r) ==
  /\ tx[r].phase = "locked"
  /\ GetActiveUser(tx[r].call.by)
  /\ Move(r, "owner")
  /\ UNCHANGED <<tables, allocated, trading, audited>>

\* What each operation checks of the rows it locked.
UpdateStaffAllowed(c) ==
  /\ GetStaffForUpdate(c.user)
  /\ role[c.user] = "ADMIN" /\ c.user \in active /\ ~ c.to => OtherActiveAdmins(c.user) # {}
CreateStaffAllowed(c) == validateOutletIDs(c.to)
ReplaceStaffOutletsAllowed(c) == role[c.user] = "LAUNDRY_STAFF" /\ validateOutletIDs(c.to)
ReplaceStaffPermissionsAllowed(c) == role[c.user] = "LAUNDRY_STAFF"
UpdateOutletAllowed(c) ==
  /\ GetOutletForUpdate(c.outlet)
  /\ c.outlet \in open /\ ~ c.to => StaffWithoutOtherOutlet(c.outlet) = {}

Allowed(c) ==
  CASE c.op = "UpdateStaff" -> UpdateStaffAllowed(c)
    [] c.op = "CreateStaff" -> CreateStaffAllowed(c)
    [] c.op = "ReplaceStaffOutlets" -> ReplaceStaffOutletsAllowed(c)
    [] c.op = "ReplaceStaffPermissions" -> ReplaceStaffPermissionsAllowed(c)
    [] c.op = "CreateOutlet" -> code[c.outlet] = 0
    [] c.op = "UpdateOutlet" -> UpdateOutletAllowed(c)

\* The rows are read FOR UPDATE with their old values, and checked.
Check(r) ==
  /\ tx[r].phase = "owner"
  /\ Allowed(tx[r].call)
  /\ tx' = [tx EXCEPT ![r] =
              [@ EXCEPT !.phase = "checked", !.old = ValueOf(SubjectOf(tx[r].call))]]
  /\ UNCHANGED <<tables, allocated, trading, audited>>

\* The audit row of the same transaction: what was read, and what is asked for.
InsertAuditLog(s, new) == [audited EXCEPT ![s] = new]
writeAudit(r, new) == audited' = InsertAuditLog(SubjectOf(tx[r].call), new)

Only(x, member) == IF member THEN {x} ELSE {}

Commits(r, op) == tx[r].phase = "checked" /\ tx[r].call.op = op

UpdateStaff(r) ==
  /\ Commits(r, "UpdateStaff")
  /\ active' = UpdateUser(tx[r].call.user, tx[r].call.to)
  /\ writeAudit(r, Only(tx[r].call.user, tx[r].call.to))
  /\ Finish(r)
  /\ UNCHANGED <<role, assigned, granted, code, open, allocated, trading>>

\* users_email_uq refuses an account that exists.
CreateStaff(r) ==
  LET c == tx[r].call
  IN  /\ Commits(r, "CreateStaff")
      /\ role[c.user] = "NONE"
      /\ role' = CreateUser(c.user)
      /\ active' = active \cup {c.user}
      /\ assigned' = assigned \cup AddStaffOutlet(c.user, c.to)
      /\ audited' = [audited EXCEPT
                       ![<<"outletIds", c.user>>] = c.to, ![<<"isActive", c.user>>] = {c.user}]
      /\ Finish(r)
      /\ UNCHANGED <<granted, code, open, allocated, trading>>

\* DeleteStaffOutlets, then AddStaffOutlet for each.
ReplaceStaffOutlets(r) ==
  LET c == tx[r].call
  IN  /\ Commits(r, "ReplaceStaffOutlets")
      /\ assigned' = DeleteStaffOutlets(c.user) \cup AddStaffOutlet(c.user, c.to)
      /\ writeAudit(r, c.to)
      /\ Finish(r)
      /\ UNCHANGED <<role, active, granted, code, open, allocated, trading>>

ReplaceStaffPermissions(r) ==
  LET c == tx[r].call
  IN  /\ Commits(r, "ReplaceStaffPermissions")
      /\ granted' = DeleteStaffPermissions(c.user) \cup AddStaffPermission(c.user, c.to)
      /\ writeAudit(r, c.to)
      /\ Finish(r)
      /\ UNCHANGED <<role, active, assigned, code, open, allocated, trading>>

\* A slip: as many as there are open outlets, and one.
AllocateOutletCodeByCounting == Cardinality(open) + 1

AllocateOutletCode == allocated + 1

CreateOutlet(r) ==
  LET o == tx[r].call.outlet
  IN  /\ Commits(r, "CreateOutlet")
      /\ allocated' = AllocateOutletCode
      /\ code' = InsertOutlet(o, AllocateOutletCode)
      /\ open' = open \cup {o}
      /\ audited' = [audited EXCEPT
                       ![<<"code", o>>] = {AllocateOutletCode}, ![<<"open", o>>] = {o}]
      /\ Finish(r)
      /\ UNCHANGED <<role, active, assigned, granted, trading>>

UpdateOutlet(r) ==
  /\ Commits(r, "UpdateOutlet")
  /\ open' = SetOutlet(tx[r].call.outlet, tx[r].call.to)
  /\ writeAudit(r, Only(tx[r].call.outlet, tx[r].call.to))
  /\ Finish(r)
  /\ UNCHANGED <<role, active, assigned, granted, code, allocated, trading>>

\* The early returns.
Refused(r) ==
  LET c == tx[r].call
  IN  \/ tx[r].phase = "called" /\ ~ BusinessHeld /\ ~ trading
      \/ tx[r].phase = "locked" /\ ~ GetActiveUser(c.by)
      \/ tx[r].phase = "owner" /\ ~ Allowed(c)
      \/ Commits(r, "CreateStaff") /\ role[c.user] # "NONE"

Refuse(r) ==
  /\ Refused(r)
  /\ Finish(r)
  /\ UNCHANGED <<tables, allocated, trading, audited>>

\* A cancelled request context, a lost connection, a deadlock or a crash.
Rollback(r) ==
  /\ tx[r].phase # "idle"
  /\ Finish(r)
  /\ UNCHANGED <<tables, allocated, trading, audited>>

\* The platform's Activation of the business, which locks its row too.
Activation ==
  /\ ~ BusinessHeld
  /\ trading' = ~ trading
  /\ UNCHANGED <<tables, allocated, audited, tx>>

Commit(r) ==
  \/ UpdateStaff(r) \/ CreateStaff(r) \/ ReplaceStaffOutlets(r)
  \/ ReplaceStaffPermissions(r) \/ CreateOutlet(r) \/ UpdateOutlet(r)

Work(r) ==
  LockActiveBusiness(r) \/ lockOwnerContext(r) \/ Check(r) \/ Commit(r) \/ Refuse(r)

Next == (\E r \in Requests : Call(r) \/ Work(r) \/ Rollback(r)) \/ Activation

Spec == Init /\ [][Next]_vars
----------------------------------------------------------------------------
(***************************************************************************)
(* Properties                                                              *)
(***************************************************************************)
\* Whatever administrators do to one another at the same time, one of them stays
\* in service (UpdateStaff: "Business-row locking protects the last active ADMIN
\* invariant against concurrent account changes").
OwnerRemains == \E u \in Users : role[u] = "ADMIN" /\ u \in active

Workplaces(u) == {o \in open : <<u, o>> \in assigned}

\* No step takes the last open outlet from a staff member who stays in service,
\* whether it closes an outlet, assigns others or both at once in two requests
\* (UpdateOutlet, ReplaceStaffOutlets, CreateStaff).
NobodyStranded ==
  [][\A u \in active \cap active' :
       role[u] = "LAUNDRY_STAFF" /\ Workplaces(u) # {} => (Workplaces(u))' # {}]_vars

\* What is left to be found of the values that the last audit row about a column gave
\* it: of the outlets of a user, those that have not been closed since.
LastRecorded(s) == IF s[1] = "outletIds" THEN audited[s] \cap open ELSE audited[s]

\* The old values of each audit row are the new values of the one before it about
\* the same column, less the outlets that are closed: no change of the column comes in
\* between (GetStaffForUpdate, ListStaffOutletIDs, writeAudit).
AuditIsChain ==
  [][\A r \in Requests :
       tx[r].phase = "checked" /\ tx'[r].phase = "idle" /\ audited' # audited =>
         tx[r].old = LastRecorded(SubjectOf(tx[r].call))]_vars

\* The violated claim of docs/api.md:26: "An active staff member cannot be left
\* without an active outlet".
ActiveStaffHasOutlet ==
  \A u \in active : role[u] = "LAUNDRY_STAFF" => Workplaces(u) # {}

Holding(r) == tx[r].phase \in {"locked", "owner", "checked"}

\* One transaction manages the business at a time, and what it found still holds
\* when it writes: its actor is in service, its rows are as it read them, and what
\* it checked is so (lockOwnerContext).  The other properties rest on this one.
ReadsStayCurrent ==
  /\ \A r, s \in Requests : Holding(r) /\ Holding(s) => r = s
  /\ \A r \in Requests :
       /\ tx[r].phase \in {"owner", "checked"} => GetActiveUser(tx[r].call.by)
       /\ tx[r].phase = "checked" =>
            Allowed(tx[r].call) /\ tx[r].old = ValueOf(SubjectOf(tx[r].call))

\* The concurrent requests implement the roster of StaffRoster: each commit is one
\* of its steps, made on the authority of an administrator then in service.
Roster == INSTANCE StaffRoster

ImplementsRoster == Roster!Spec
============================================================================
