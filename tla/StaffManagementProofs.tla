----------------------- MODULE StaffManagementProofs -----------------------
(***************************************************************************)
(* Proofs about StaffManagement, for any number of requests, users,        *)
(* outlets and permissions.                                                *)
(*                                                                         *)
(* Who holds the row of the business is alone (ReadsStayCurrent), so that  *)
(* what it read and checked is so when it commits.  Everything else is     *)
(* concluded from that, one commit at a time.                              *)
(***************************************************************************)
EXTENDS StaffManagement, TLAPS

\* A request in progress carries a call that its handler let pass.
CallsMade ==
  \A r \in Requests :
    tx[r].phase # "idle" => tx[r].call \in Calls /\ ~ SelfDirected(tx[r].call)

LEMMA CallFields ==
  ASSUME NEW c \in Calls
  PROVE  /\ c.by \in Users
         /\ c.op \in {"UpdateStaff", "CreateStaff", "ReplaceStaffOutlets",
                      "ReplaceStaffPermissions", "CreateOutlet", "UpdateOutlet"}
         /\ c.op = "UpdateStaff" => c.user \in Users /\ c.to \in BOOLEAN
         /\ c.op \in {"CreateStaff", "ReplaceStaffOutlets"} =>
              c.user \in Users /\ c.to \in SUBSET Outlets /\ c.to # {}
         /\ c.op = "ReplaceStaffPermissions" => c.user \in Users /\ c.to \in SUBSET Permissions
         /\ c.op = "CreateOutlet" => c.outlet \in Outlets
         /\ c.op = "UpdateOutlet" => c.outlet \in Outlets /\ c.to \in BOOLEAN
  <1>1. CASE c \in StaffCalls
    BY <1>1 DEF StaffCalls
  <1>2. CASE c \in OutletsCalls
    BY <1>2 DEF OutletsCalls
  <1>3. CASE c \in PermissionsCalls
    BY <1>3 DEF PermissionsCalls
  <1>4. CASE c \in CreateOutletCalls
    BY <1>4 DEF CreateOutletCalls
  <1>5. CASE c \in UpdateOutletCalls
    BY <1>5 DEF UpdateOutletCalls
  <1> QED BY <1>1, <1>2, <1>3, <1>4, <1>5 DEF Calls

LEMMA IdleTxType == IdleTx \in Tx /\ IdleTx.phase = "idle"
  BY DEF IdleTx, Tx, Phases, Values

\* The column a call writes is one that is audited, and is named after the call.
LEMMA SubjectFacts ==
  ASSUME NEW c \in Calls
  PROVE  /\ SubjectOf(c) \in Subjects
         /\ c.op = "UpdateStaff" => SubjectOf(c) = <<"isActive", c.user>>
         /\ c.op \in {"CreateStaff", "ReplaceStaffOutlets"} => SubjectOf(c) = <<"outletIds", c.user>>
         /\ c.op = "ReplaceStaffPermissions" => SubjectOf(c) = <<"permissions", c.user>>
         /\ c.op = "CreateOutlet" => SubjectOf(c) = <<"code", c.outlet>>
         /\ c.op = "UpdateOutlet" => SubjectOf(c) = <<"open", c.outlet>>
  <1>1. CASE c.op = "UpdateStaff"
    BY <1>1, CallFields DEF SubjectOf, Subjects
  <1>2. CASE c.op \in {"CreateStaff", "ReplaceStaffOutlets"}
    BY <1>2, CallFields DEF SubjectOf, Subjects
  <1>3. CASE c.op = "ReplaceStaffPermissions"
    BY <1>3, CallFields DEF SubjectOf, Subjects
  <1>4. CASE c.op = "CreateOutlet"
    BY <1>4, CallFields DEF SubjectOf, Subjects
  <1>5. CASE c.op = "UpdateOutlet"
    BY <1>5, CallFields DEF SubjectOf, Subjects
  <1> QED BY <1>1, <1>2, <1>3, <1>4, <1>5, CallFields

\* Every audited column, by its name and whose it is.
LEMMA SubjectCases ==
  ASSUME NEW s \in Subjects
  PROVE  \/ \E u \in Users : s = <<"isActive", u>> \/ s = <<"outletIds", u>> \/ s = <<"permissions", u>>
         \/ \E o \in Outlets : s = <<"code", o>> \/ s = <<"open", o>>
  BY DEF Subjects

LEMMA ValueFacts ==
  /\ \A u : ValueOf(<<"isActive", u>>) = active \cap {u}
  /\ \A u : ValueOf(<<"outletIds", u>>) = ListStaffOutletIDs(u)
  /\ \A u : ValueOf(<<"permissions", u>>) = ListStaffPermissionCodes(u)
  /\ \A o : ValueOf(<<"code", o>>) = {code[o]}
  /\ \A o : ValueOf(<<"open", o>>) = open \cap {o}
  BY DEF ValueOf

LEMMA ValueType ==
  ASSUME code \in [Outlets -> Nat], open \subseteq Outlets, NEW s \in Subjects
  PROVE  ValueOf(s) \in Values
  <1>1. ASSUME NEW u \in Users
        PROVE  /\ active \cap {u} \in Values /\ ListStaffOutletIDs(u) \in Values
               /\ ListStaffPermissionCodes(u) \in Values
    <2>1. /\ active \cap {u} \in SUBSET Users
          /\ ListStaffOutletIDs(u) \in SUBSET Outlets
          /\ ListStaffPermissionCodes(u) \in SUBSET Permissions
      BY DEF ListStaffOutletIDs, ListStaffPermissionCodes
    <2> QED BY <2>1 DEF Values
  <1>2. ASSUME NEW o \in Outlets PROVE {code[o]} \in Values /\ open \cap {o} \in Values
    <2>1. code[o] \in Nat OBVIOUS
    <2>2. {code[o]} \in SUBSET Nat /\ open \cap {o} \in SUBSET Outlets BY <2>1
    <2> QED BY <2>2 DEF Values
  <1>3. ASSUME NEW u \in Users, s = <<"isActive", u>> PROVE ValueOf(s) \in Values
    BY <1>1, <1>3, ValueFacts
  <1>4. ASSUME NEW u \in Users, s = <<"outletIds", u>> PROVE ValueOf(s) \in Values
    BY <1>1, <1>4, ValueFacts
  <1>5. ASSUME NEW u \in Users, s = <<"permissions", u>> PROVE ValueOf(s) \in Values
    BY <1>1, <1>5, ValueFacts
  <1>6. ASSUME NEW o \in Outlets, s = <<"code", o>> PROVE ValueOf(s) \in Values
    BY <1>2, <1>6, ValueFacts
  <1>7. ASSUME NEW o \in Outlets, s = <<"open", o>> PROVE ValueOf(s) \in Values
    BY <1>2, <1>7, ValueFacts
  <1> QED BY <1>3, <1>4, <1>5, <1>6, <1>7, SubjectCases
----------------------------------------------------------------------------
(***************************************************************************)
(* Types                                                                   *)
(***************************************************************************)
LEMMA FinishFacts ==
  ASSUME TypeOK, CallsMade, NEW r \in Requests, Finish(r)
  PROVE  /\ tx' \in [Requests -> Tx] /\ CallsMade'
         /\ tx'[r].phase = "idle"
         /\ \A s \in Requests \ {r} : tx'[s] = tx[s]
  <1>1. tx \in [Requests -> Tx] BY DEF TypeOK
  <1>2. tx' \in [Requests -> Tx] /\ \A s \in Requests : tx'[s] = IF s = r THEN IdleTx ELSE tx[s]
    BY <1>1, IdleTxType DEF Finish
  <1> QED BY <1>2, IdleTxType DEF CallsMade

LEMMA MoveFacts ==
  ASSUME TypeOK, CallsMade, NEW r \in Requests, NEW p \in Phases, Move(r, p), tx[r].phase # "idle"
  PROVE  /\ tx' \in [Requests -> Tx] /\ CallsMade'
         /\ tx'[r].phase = p /\ tx'[r].call = tx[r].call
         /\ \A s \in Requests \ {r} : tx'[s] = tx[s]
  <1>1. tx \in [Requests -> Tx] BY DEF TypeOK
  <1>2. tx' \in [Requests -> Tx] BY <1>1 DEF Move, Tx
  <1>3. tx'[r].phase = p /\ tx'[r].call = tx[r].call /\ \A s \in Requests \ {r} : tx'[s] = tx[s]
    BY <1>1 DEF Move, Tx
  <1> QED BY <1>2, <1>3 DEF CallsMade

\* The steps that write no table.
Quiet == UNCHANGED <<tables, allocated, audited>> /\ trading' \in BOOLEAN

LEMMA TypeQuiet ==
  ASSUME TypeOK, Quiet, tx' \in [Requests -> Tx] PROVE TypeOK'
  BY DEF TypeOK, Quiet, tables, GetStaffForUpdate, GetOutletForUpdate

LEMMA CallIsQuiet ==
  ASSUME TypeOK, CallsMade, NEW r \in Requests, Call(r)
  PROVE  /\ TypeOK' /\ CallsMade' /\ Quiet
         /\ tx[r].phase = "idle" /\ tx'[r].phase = "called"
         /\ \A s \in Requests \ {r} : tx'[s] = tx[s]
  <1>1. PICK c \in Calls :
          /\ ~ SelfDirected(c)
          /\ tx' = [tx EXCEPT ![r] = [@ EXCEPT !.phase = "called", !.call = c]]
    BY DEF Call
  <1>2. tx \in [Requests -> Tx] BY DEF TypeOK
  <1>3. tx' \in [Requests -> Tx] BY <1>1, <1>2 DEF Tx, Phases
  <1>4. tx'[r].phase = "called" /\ tx'[r].call = c /\ \A s \in Requests \ {r} : tx'[s] = tx[s]
    BY <1>1, <1>2 DEF Tx
  <1>5. Quiet BY DEF Call, Quiet, TypeOK
  <1> QED BY <1>1, <1>3, <1>4, <1>5, TypeQuiet DEF Call, CallsMade

LEMMA CheckFacts ==
  ASSUME TypeOK, CallsMade, NEW r \in Requests, Check(r)
  PROVE  /\ TypeOK' /\ CallsMade' /\ Quiet
         /\ tx'[r].phase = "checked" /\ tx'[r].call = tx[r].call
         /\ tx'[r].old = ValueOf(SubjectOf(tx[r].call))
         /\ \A s \in Requests \ {r} : tx'[s] = tx[s]
  <1>1. tx \in [Requests -> Tx] BY DEF TypeOK
  <1>2. tx[r].call \in Calls BY DEF Check, CallsMade
  <1>3. ValueOf(SubjectOf(tx[r].call)) \in Values
    BY <1>2, SubjectFacts, ValueType DEF TypeOK
  <1> DEFINE old == ValueOf(SubjectOf(tx[r].call))
  <1>4. tx' = [tx EXCEPT ![r] = [@ EXCEPT !.phase = "checked", !.old = old]] BY DEF Check
  <1> HIDE DEF old
  <1>5. tx' \in [Requests -> Tx] BY <1>1, <1>3, <1>4 DEF Tx, Phases, old
  <1>6. tx'[r].phase = "checked" /\ tx'[r].call = tx[r].call /\ tx'[r].old = old
        /\ \A s \in Requests \ {r} : tx'[s] = tx[s]
    BY <1>1, <1>4 DEF Tx
  <1>7. Quiet BY DEF Check, Quiet, TypeOK
  <1> QED BY <1>5, <1>6, <1>7, TypeQuiet DEF CallsMade, Check, old
----------------------------------------------------------------------------
(***************************************************************************)
(* The holder of the business is alone, and what it found stays so         *)
(***************************************************************************)
\* What ReadsStayCurrent says of one transaction.
Current(r) ==
  /\ tx[r].phase \in {"owner", "checked"} => GetActiveUser(tx[r].call.by)
  /\ tx[r].phase = "checked" =>
       Allowed(tx[r].call) /\ tx[r].old = ValueOf(SubjectOf(tx[r].call))

LEMMA CurrentFacts ==
  ReadsStayCurrent <=>
    /\ \A r, s \in Requests : Holding(r) /\ Holding(s) => r = s
    /\ \A r \in Requests : Current(r)
  BY DEF ReadsStayCurrent, Current

\* Checks and columns do not change while the tables do not.
LEMMA SameAllowed ==
  ASSUME NEW r \in Requests, tx[r].call \in Calls, tx'[r].call = tx[r].call, UNCHANGED tables
  PROVE  Allowed(tx[r].call)' <=> Allowed(tx[r].call)
  <1>1. CASE tx[r].call.op = "UpdateStaff"
    BY <1>1 DEF Allowed, UpdateStaffAllowed, GetStaffForUpdate, OtherActiveAdmins, tables
  <1>2. CASE tx[r].call.op = "CreateStaff"
    BY <1>2 DEF Allowed, CreateStaffAllowed, validateOutletIDs, LockActiveOutlets, tables
  <1>3. CASE tx[r].call.op = "ReplaceStaffOutlets"
    BY <1>3 DEF Allowed, ReplaceStaffOutletsAllowed, validateOutletIDs, LockActiveOutlets, tables
  <1>4. CASE tx[r].call.op = "ReplaceStaffPermissions"
    BY <1>4 DEF Allowed, ReplaceStaffPermissionsAllowed, tables
  <1>5. CASE tx[r].call.op = "CreateOutlet"
    BY <1>5 DEF Allowed, tables
  <1>6. CASE tx[r].call.op = "UpdateOutlet"
    BY <1>6 DEF Allowed, UpdateOutletAllowed, GetOutletForUpdate, StaffWithoutOtherOutlet, tables
  <1> QED BY <1>1, <1>2, <1>3, <1>4, <1>5, <1>6, CallFields

LEMMA SameValue ==
  ASSUME NEW r \in Requests, tx[r].call \in Calls, tx'[r].call = tx[r].call, UNCHANGED tables
  PROVE  ValueOf(SubjectOf(tx[r].call))' = ValueOf(SubjectOf(tx[r].call))
  <1>1. CASE tx[r].call.op = "UpdateStaff"
    BY <1>1 DEF SubjectOf, ValueOf, tables
  <1>2. CASE tx[r].call.op \in {"CreateStaff", "ReplaceStaffOutlets"}
    BY <1>2 DEF SubjectOf, ValueOf, ListStaffOutletIDs, tables
  <1>3. CASE tx[r].call.op = "ReplaceStaffPermissions"
    BY <1>3 DEF SubjectOf, ValueOf, ListStaffPermissionCodes, tables
  <1>4. CASE tx[r].call.op = "CreateOutlet"
    BY <1>4 DEF SubjectOf, ValueOf, tables
  <1>5. CASE tx[r].call.op = "UpdateOutlet"
    BY <1>5 DEF SubjectOf, ValueOf, tables
  <1> QED BY <1>1, <1>2, <1>3, <1>4, <1>5, CallFields

LEMMA StaysCurrent ==
  ASSUME CallsMade, NEW r \in Requests, Current(r), UNCHANGED tables, tx'[r] = tx[r]
  PROVE  Current(r)'
  <1>1. tx[r].phase \in {"owner", "checked"} => GetActiveUser(tx[r].call.by)'
    BY DEF Current, GetActiveUser, tables
  <1>2. tx[r].phase = "checked" =>
          Allowed(tx[r].call)' /\ tx[r].old = ValueOf(SubjectOf(tx[r].call))'
    BY SameAllowed, SameValue DEF Current, CallsMade
  <1> QED BY <1>1, <1>2 DEF Current

\* A step of one request that leaves the tables alone.
LEMMA CurrentMove ==
  ASSUME CallsMade, ReadsStayCurrent, NEW r \in Requests, UNCHANGED tables,
         \A s \in Requests \ {r} : tx'[s] = tx[s],
         Holding(r)' => \A s \in Requests \ {r} : ~ Holding(s),
         Current(r)'
  PROVE  ReadsStayCurrent'
  <1>1. \A s \in Requests \ {r} : Current(s)' /\ (Holding(s)' <=> Holding(s))
    BY CurrentFacts, StaysCurrent DEF Holding
  <1>2. \A q, s \in Requests : Holding(q)' /\ Holding(s)' => q = s
    BY <1>1, CurrentFacts
  <1> QED BY <1>1, <1>2 DEF ReadsStayCurrent, Current

\* The holder ends: nobody holds the business any more.
LEMMA CurrentFinish ==
  ASSUME TypeOK, CallsMade, ReadsStayCurrent, NEW r \in Requests, Holding(r), Finish(r)
  PROVE  ReadsStayCurrent'
  <1>1. \A s \in Requests : ~ Holding(s)'
    BY FinishFacts DEF ReadsStayCurrent, Holding
  <1> QED BY <1>1 DEF ReadsStayCurrent, Holding

LEMMA CurrentNext ==
  ASSUME TypeOK, CallsMade, ReadsStayCurrent, [Next]_vars
  PROVE  ReadsStayCurrent'
  <1>1. ASSUME NEW r \in Requests, Call(r) PROVE ReadsStayCurrent'
    <2>1. ~ Holding(r)' /\ Current(r)'
      BY <1>1, CallIsQuiet DEF Holding, Current
    <2> QED BY <1>1, <2>1, CallIsQuiet, CurrentMove DEF Quiet
  <1>2. ASSUME NEW r \in Requests, LockActiveBusiness(r) PROVE ReadsStayCurrent'
    <2>1. /\ tx'[r].phase = "locked" /\ \A s \in Requests \ {r} : tx'[s] = tx[s]
      BY <1>2, MoveFacts DEF LockActiveBusiness, Phases
    <2>2. Current(r)' /\ \A s \in Requests : ~ Holding(s)
      BY <1>2, <2>1 DEF LockActiveBusiness, BusinessHeld, Holding, Current
    <2> QED BY <1>2, <2>1, <2>2, CurrentMove DEF LockActiveBusiness
  <1>3. ASSUME NEW r \in Requests, lockOwnerContext(r) PROVE ReadsStayCurrent'
    <2>1. /\ tx'[r].phase = "owner" /\ tx'[r].call = tx[r].call
          /\ \A s \in Requests \ {r} : tx'[s] = tx[s]
      BY <1>3, MoveFacts DEF lockOwnerContext, Phases
    <2>2. Current(r)'
      BY <1>3, <2>1 DEF lockOwnerContext, Current, GetActiveUser, tables
    <2>3. \A s \in Requests \ {r} : ~ Holding(s)
      BY <1>3 DEF lockOwnerContext, ReadsStayCurrent, Holding
    <2> QED BY <1>3, <2>1, <2>2, <2>3, CurrentMove DEF lockOwnerContext
  <1>4. ASSUME NEW r \in Requests, Check(r) PROVE ReadsStayCurrent'
    <2>1. /\ tx'[r].phase = "checked" /\ tx'[r].call = tx[r].call
          /\ tx'[r].old = ValueOf(SubjectOf(tx[r].call))
          /\ UNCHANGED tables /\ \A s \in Requests \ {r} : tx'[s] = tx[s]
      BY <1>4, CheckFacts DEF Quiet
    <2>2. GetActiveUser(tx[r].call.by) /\ Allowed(tx[r].call)
      BY <1>4 DEF Check, ReadsStayCurrent
    <2>3. Current(r)'
      <3>1. tx[r].call \in Calls BY <1>4 DEF Check, CallsMade
      <3>2. Allowed(tx[r].call)' BY <2>1, <2>2, <3>1, SameAllowed
      <3>3. tx'[r].old = ValueOf(SubjectOf(tx[r].call))' BY <2>1, <3>1, SameValue
      <3>4. GetActiveUser(tx[r].call.by)' BY <2>1, <2>2 DEF GetActiveUser, tables
      <3> QED BY <3>2, <3>3, <3>4 DEF Current
    <2>4. \A s \in Requests \ {r} : ~ Holding(s)
      BY <1>4 DEF Check, ReadsStayCurrent, Holding
    <2> QED BY <2>1, <2>3, <2>4, CurrentMove
  <1>5. ASSUME NEW r \in Requests, Commit(r) PROVE ReadsStayCurrent'
    <2>1. Holding(r) /\ Finish(r)
      BY <1>5 DEF Commit, Commits, Holding, UpdateStaff, CreateStaff, ReplaceStaffOutlets,
                  ReplaceStaffPermissions, CreateOutlet, UpdateOutlet
    <2> QED BY <2>1, CurrentFinish
  <1>6. ASSUME NEW r \in Requests, Refuse(r) \/ Rollback(r) PROVE ReadsStayCurrent'
    <2>1. Finish(r) /\ UNCHANGED tables
      BY <1>6 DEF Refuse, Rollback
    <2>2. ~ Holding(r)' /\ Current(r)' /\ \A s \in Requests \ {r} : tx'[s] = tx[s]
      BY <2>1, FinishFacts DEF Holding, Current
    <2> QED BY <2>1, <2>2, CurrentMove
  <1>7. CASE Activation \/ UNCHANGED vars
    <2>1. UNCHANGED <<tables, tx>>
      BY <1>7 DEF Activation, vars, tables
    <2>2. \A s \in Requests : Current(s)' /\ (Holding(s)' <=> Holding(s))
      BY <2>1, CurrentFacts, StaysCurrent DEF Holding
    <2> QED BY <2>2, CurrentFacts DEF ReadsStayCurrent, Current
  <1> QED BY <1>1, <1>2, <1>3, <1>4, <1>5, <1>6, <1>7 DEF Next, Work
----------------------------------------------------------------------------
(***************************************************************************)
(* The commits                                                             *)
(***************************************************************************)
\* What every commit may count on.
LEMMA CommitFacts ==
  ASSUME TypeOK, CallsMade, ReadsStayCurrent, NEW r \in Requests, Commit(r)
  PROVE  /\ tx[r].phase = "checked" /\ Holding(r) /\ Finish(r)
         /\ tx[r].call \in Calls /\ ~ SelfDirected(tx[r].call)
         /\ GetActiveUser(tx[r].call.by) /\ Allowed(tx[r].call)
         /\ tx[r].old = ValueOf(SubjectOf(tx[r].call))
         /\ tx' \in [Requests -> Tx] /\ CallsMade'
  <1>1. tx[r].phase = "checked" /\ Finish(r)
    BY DEF Commit, Commits, UpdateStaff, CreateStaff, ReplaceStaffOutlets,
           ReplaceStaffPermissions, CreateOutlet, UpdateOutlet
  <1> QED BY <1>1, FinishFacts DEF CallsMade, ReadsStayCurrent, Holding

\* What each of them writes, in terms of the rows it is about.
LEMMA UpdateStaffFacts ==
  ASSUME TypeOK, CallsMade, ReadsStayCurrent, NEW r \in Requests, UpdateStaff(r)
  PROVE  \E u \in Users, to \in BOOLEAN :
           /\ tx[r].call.op = "UpdateStaff" /\ tx[r].call.user = u /\ tx[r].call.to = to
           /\ role[u] # "NONE"
           /\ role[u] = "ADMIN" /\ u \in active /\ ~ to => OtherActiveAdmins(u) # {}
           /\ active' = UpdateUser(u, to)
           /\ audited' = [audited EXCEPT ![<<"isActive", u>>] = Only(u, to)]
           /\ UNCHANGED <<role, assigned, granted, code, open, allocated, trading>>
  <1> DEFINE c == tx[r].call
  <1>1. c \in Calls /\ c.op = "UpdateStaff" /\ Allowed(c)
    BY CommitFacts DEF Commit, UpdateStaff, Commits
  <1>2. c.user \in Users /\ c.to \in BOOLEAN /\ SubjectOf(c) = <<"isActive", c.user>>
    BY <1>1, CallFields, SubjectFacts
  <1>3. UpdateStaffAllowed(c)
    BY <1>1 DEF Allowed
  <1> QED BY <1>1, <1>2, <1>3
          DEF UpdateStaff, UpdateStaffAllowed, GetStaffForUpdate, writeAudit, InsertAuditLog

LEMMA CreateStaffFacts ==
  ASSUME TypeOK, CallsMade, ReadsStayCurrent, NEW r \in Requests, CreateStaff(r)
  PROVE  \E u \in Users, to \in SUBSET Outlets :
           /\ tx[r].call.op = "CreateStaff" /\ tx[r].call.user = u /\ tx[r].call.to = to
           /\ role[u] = "NONE" /\ to # {} /\ to \subseteq open
           /\ role' = [role EXCEPT ![u] = "LAUNDRY_STAFF"]
           /\ active' = active \cup {u}
           /\ assigned' = assigned \cup ({u} \X to)
           /\ audited' = [audited EXCEPT ![<<"outletIds", u>>] = to, ![<<"isActive", u>>] = {u}]
           /\ UNCHANGED <<granted, code, open, allocated, trading>>
  <1> DEFINE c == tx[r].call
  <1>1. c \in Calls /\ c.op = "CreateStaff" /\ Allowed(c)
    BY CommitFacts DEF Commit, CreateStaff, Commits
  <1>2. c.user \in Users /\ c.to \in SUBSET Outlets /\ c.to # {}
    BY <1>1, CallFields
  <1>3. c.to \subseteq open
    BY <1>1 DEF Allowed, CreateStaffAllowed, validateOutletIDs, LockActiveOutlets
  <1> QED BY <1>1, <1>2, <1>3 DEF CreateStaff, CreateUser, AddStaffOutlet

LEMMA ReplaceStaffOutletsFacts ==
  ASSUME TypeOK, CallsMade, ReadsStayCurrent, NEW r \in Requests, ReplaceStaffOutlets(r)
  PROVE  \E u \in Users, to \in SUBSET Outlets :
           /\ tx[r].call.op = "ReplaceStaffOutlets" /\ tx[r].call.user = u /\ tx[r].call.to = to
           /\ u # tx[r].call.by
           /\ role[u] = "LAUNDRY_STAFF" /\ to # {} /\ to \subseteq open
           /\ assigned' = {a \in assigned : a[1] # u} \cup ({u} \X to)
           /\ audited' = [audited EXCEPT ![<<"outletIds", u>>] = to]
           /\ UNCHANGED <<role, active, granted, code, open, allocated, trading>>
  <1> DEFINE c == tx[r].call
  <1>1. c \in Calls /\ c.op = "ReplaceStaffOutlets" /\ Allowed(c) /\ ~ SelfDirected(c)
    BY CommitFacts DEF Commit, ReplaceStaffOutlets, Commits
  <1>2. /\ c.user \in Users /\ c.to \in SUBSET Outlets /\ c.to # {}
        /\ SubjectOf(c) = <<"outletIds", c.user>>
    BY <1>1, CallFields, SubjectFacts
  <1>3. role[c.user] = "LAUNDRY_STAFF" /\ c.to \subseteq open
    BY <1>1 DEF Allowed, ReplaceStaffOutletsAllowed, validateOutletIDs, LockActiveOutlets
  <1>4. c.user # c.by
    BY <1>1 DEF SelfDirected
  <1> QED BY <1>1, <1>2, <1>3, <1>4
          DEF ReplaceStaffOutlets, DeleteStaffOutlets, AddStaffOutlet, writeAudit, InsertAuditLog

LEMMA ReplaceStaffPermissionsFacts ==
  ASSUME TypeOK, CallsMade, ReadsStayCurrent, NEW r \in Requests, ReplaceStaffPermissions(r)
  PROVE  \E u \in Users, to \in SUBSET Permissions :
           /\ tx[r].call.op = "ReplaceStaffPermissions"
           /\ tx[r].call.user = u /\ tx[r].call.to = to
           /\ u # tx[r].call.by /\ role[u] = "LAUNDRY_STAFF"
           /\ granted' = {g \in granted : g[1] # u} \cup ({u} \X to)
           /\ audited' = [audited EXCEPT ![<<"permissions", u>>] = to]
           /\ UNCHANGED <<role, active, assigned, code, open, allocated, trading>>
  <1> DEFINE c == tx[r].call
  <1>1. c \in Calls /\ c.op = "ReplaceStaffPermissions" /\ Allowed(c) /\ ~ SelfDirected(c)
    BY CommitFacts DEF Commit, ReplaceStaffPermissions, Commits
  <1>2. /\ c.user \in Users /\ c.to \in SUBSET Permissions
        /\ SubjectOf(c) = <<"permissions", c.user>>
    BY <1>1, CallFields, SubjectFacts
  <1>3. role[c.user] = "LAUNDRY_STAFF" /\ c.user # c.by
    BY <1>1 DEF Allowed, ReplaceStaffPermissionsAllowed, SelfDirected
  <1> QED BY <1>1, <1>2, <1>3
          DEF ReplaceStaffPermissions, DeleteStaffPermissions, AddStaffPermission, writeAudit,
              InsertAuditLog

LEMMA CreateOutletFacts ==
  ASSUME TypeOK, CallsMade, ReadsStayCurrent, NEW r \in Requests, CreateOutlet(r)
  PROVE  \E o \in Outlets :
           /\ tx[r].call.op = "CreateOutlet" /\ tx[r].call.outlet = o
           /\ code[o] = 0
           /\ allocated' = allocated + 1
           /\ code' = [code EXCEPT ![o] = allocated + 1]
           /\ open' = open \cup {o}
           /\ audited' = [audited EXCEPT ![<<"code", o>>] = {allocated + 1}, ![<<"open", o>>] = {o}]
           /\ UNCHANGED <<role, active, assigned, granted, trading>>
  <1> DEFINE c == tx[r].call
  <1>1. c \in Calls /\ c.op = "CreateOutlet" /\ Allowed(c)
    BY CommitFacts DEF Commit, CreateOutlet, Commits
  <1>2. c.outlet \in Outlets
    BY <1>1, CallFields
  <1>3. code[c.outlet] = 0
    BY <1>1 DEF Allowed
  <1> QED BY <1>1, <1>2, <1>3 DEF CreateOutlet, InsertOutlet, AllocateOutletCode

LEMMA UpdateOutletFacts ==
  ASSUME TypeOK, CallsMade, ReadsStayCurrent, NEW r \in Requests, UpdateOutlet(r)
  PROVE  \E o \in Outlets, to \in BOOLEAN :
           /\ tx[r].call.op = "UpdateOutlet" /\ tx[r].call.outlet = o /\ tx[r].call.to = to
           /\ code[o] # 0
           /\ o \in open /\ ~ to => StaffWithoutOtherOutlet(o) = {}
           /\ open' = SetOutlet(o, to)
           /\ audited' = [audited EXCEPT ![<<"open", o>>] = Only(o, to)]
           /\ UNCHANGED <<role, active, assigned, granted, code, allocated, trading>>
  <1> DEFINE c == tx[r].call
  <1>1. c \in Calls /\ c.op = "UpdateOutlet" /\ Allowed(c)
    BY CommitFacts DEF Commit, UpdateOutlet, Commits
  <1>2. c.outlet \in Outlets /\ c.to \in BOOLEAN /\ SubjectOf(c) = <<"open", c.outlet>>
    BY <1>1, CallFields, SubjectFacts
  <1>3. UpdateOutletAllowed(c)
    BY <1>1 DEF Allowed
  <1> QED BY <1>1, <1>2, <1>3
          DEF UpdateOutlet, UpdateOutletAllowed, GetOutletForUpdate, writeAudit, InsertAuditLog
----------------------------------------------------------------------------
\* Of an UPDATE of one or of two audit rows.
LEMMA ValuesHold ==
  /\ \A x \in SUBSET Users : x \in Values
  /\ \A x \in SUBSET Outlets : x \in Values
  /\ \A x \in SUBSET Permissions : x \in Values
  /\ \A x \in SUBSET Nat : x \in Values
  BY DEF Values

LEMMA SubjectsHold ==
  /\ \A u \in Users : <<"isActive", u>> \in Subjects /\ <<"outletIds", u>> \in Subjects
                      /\ <<"permissions", u>> \in Subjects
  /\ \A o \in Outlets : <<"code", o>> \in Subjects /\ <<"open", o>> \in Subjects
  BY DEF Subjects

LEMMA TypeCommit ==
  ASSUME TypeOK, CallsMade, ReadsStayCurrent, NEW r \in Requests, Commit(r)
  PROVE  TypeOK'
  <1>tx. tx' \in [Requests -> Tx]
    BY CommitFacts
  <1>aud. audited \in [Subjects -> Values] BY DEF TypeOK
  <1>1. CASE UpdateStaff(r)
    <2>1. PICK u \in Users, to \in BOOLEAN :
            /\ role[u] # "NONE"
            /\ active' = UpdateUser(u, to)
            /\ audited' = [audited EXCEPT ![<<"isActive", u>>] = Only(u, to)]
            /\ UNCHANGED <<role, assigned, granted, code, open, allocated, trading>>
      BY <1>1, UpdateStaffFacts
    <2>2. Only(u, to) \in Values
      BY ValuesHold DEF Only
    <2>3. audited' \in [Subjects -> Values]
      BY <1>aud, <2>1, <2>2
    <2>4. active' \subseteq active \cup {u}
      BY <2>1 DEF UpdateUser
    <2> QED BY <1>tx, <2>1, <2>3, <2>4 DEF TypeOK, GetStaffForUpdate, GetOutletForUpdate
  <1>2. CASE CreateStaff(r)
    <2>1. PICK u \in Users, to \in SUBSET Outlets :
            /\ role' = [role EXCEPT ![u] = "LAUNDRY_STAFF"]
            /\ active' = active \cup {u}
            /\ assigned' = assigned \cup ({u} \X to)
            /\ audited' = [audited EXCEPT ![<<"outletIds", u>>] = to, ![<<"isActive", u>>] = {u}]
            /\ UNCHANGED <<granted, code, open, allocated, trading>>
      BY <1>2, CreateStaffFacts
    <2>2. to \in Values /\ {u} \in Values
      BY ValuesHold
    <2>3. audited' \in [Subjects -> Values]
      BY <1>aud, <2>1, <2>2
    <2>4. role' \in [Users -> Roles]
      BY <2>1 DEF TypeOK, Roles
    <2>5. active' \subseteq {v \in Users : role'[v] # "NONE"}
      BY <2>1 DEF TypeOK, GetStaffForUpdate
    <2>6. assigned' \subseteq Users \X Outlets
      BY <2>1 DEF TypeOK
    <2> QED BY <1>tx, <2>1, <2>3, <2>4, <2>5, <2>6 DEF TypeOK, GetStaffForUpdate, GetOutletForUpdate
  <1>3. CASE ReplaceStaffOutlets(r)
    <2>1. PICK u \in Users, to \in SUBSET Outlets :
            /\ assigned' = {a \in assigned : a[1] # u} \cup ({u} \X to)
            /\ audited' = [audited EXCEPT ![<<"outletIds", u>>] = to]
            /\ UNCHANGED <<role, active, granted, code, open, allocated, trading>>
      BY <1>3, ReplaceStaffOutletsFacts, ZenonT(30)
    <2>2. audited' \in [Subjects -> Values]
      BY <1>aud, <2>1, ValuesHold
    <2>3. assigned' \subseteq Users \X Outlets
      BY <2>1 DEF TypeOK
    <2> QED BY <1>tx, <2>1, <2>2, <2>3 DEF TypeOK, GetStaffForUpdate, GetOutletForUpdate
  <1>4. CASE ReplaceStaffPermissions(r)
    <2>1. PICK u \in Users, to \in SUBSET Permissions :
            /\ granted' = {g \in granted : g[1] # u} \cup ({u} \X to)
            /\ audited' = [audited EXCEPT ![<<"permissions", u>>] = to]
            /\ UNCHANGED <<role, active, assigned, code, open, allocated, trading>>
      BY <1>4, ReplaceStaffPermissionsFacts
    <2>2. audited' \in [Subjects -> Values]
      BY <1>aud, <2>1, ValuesHold
    <2>3. granted' \subseteq Users \X Permissions
      BY <2>1 DEF TypeOK
    <2> QED BY <1>tx, <2>1, <2>2, <2>3 DEF TypeOK, GetStaffForUpdate, GetOutletForUpdate
  <1>5. CASE CreateOutlet(r)
    <2>1. PICK o \in Outlets :
            /\ allocated' = allocated + 1
            /\ code' = [code EXCEPT ![o] = allocated + 1]
            /\ open' = open \cup {o}
            /\ audited' = [audited EXCEPT ![<<"code", o>>] = {allocated + 1}, ![<<"open", o>>] = {o}]
            /\ UNCHANGED <<role, active, assigned, granted, trading>>
      BY <1>5, CreateOutletFacts
    <2>2. allocated \in Nat /\ allocated + 1 \in Nat /\ allocated + 1 # 0
      BY DEF TypeOK
    <2>3. {allocated + 1} \in Values /\ {o} \in Values
      BY <2>2, ValuesHold
    <2>4. audited' \in [Subjects -> Values]
      BY <1>aud, <2>1, <2>3
    <2>5. code' \in [Outlets -> Nat]
      BY <2>1, <2>2 DEF TypeOK
    <2>6. open' \subseteq {x \in Outlets : code'[x] # 0}
      BY <2>1, <2>2 DEF TypeOK, GetOutletForUpdate
    <2> QED BY <1>tx, <2>1, <2>2, <2>4, <2>5, <2>6 DEF TypeOK, GetStaffForUpdate, GetOutletForUpdate
  <1>6. CASE UpdateOutlet(r)
    <2>1. PICK o \in Outlets, to \in BOOLEAN :
            /\ code[o] # 0
            /\ open' = SetOutlet(o, to)
            /\ audited' = [audited EXCEPT ![<<"open", o>>] = Only(o, to)]
            /\ UNCHANGED <<role, active, assigned, granted, code, allocated, trading>>
      BY <1>6, UpdateOutletFacts
    <2>2. Only(o, to) \in Values
      BY ValuesHold DEF Only
    <2>3. audited' \in [Subjects -> Values]
      BY <1>aud, <2>1, <2>2
    <2>4. open' \subseteq open \cup {o}
      BY <2>1 DEF SetOutlet
    <2> QED BY <1>tx, <2>1, <2>3, <2>4 DEF TypeOK, GetStaffForUpdate, GetOutletForUpdate
  <1> QED BY <1>1, <1>2, <1>3, <1>4, <1>5, <1>6 DEF Commit

LEMMA TypeInit == Init => TypeOK /\ CallsMade /\ ReadsStayCurrent
  <1> SUFFICES ASSUME Init PROVE TypeOK /\ CallsMade /\ ReadsStayCurrent
    OBVIOUS
  <1>1. tx = [r \in Requests |-> IdleTx]
    BY DEF Init
  <1>2. tx \in [Requests -> Tx] /\ \A r \in Requests : tx[r].phase = "idle"
    BY <1>1, IdleTxType
  <1>3. role \in [Users -> Roles] /\ active \subseteq {u \in Users : role[u] # "NONE"}
    BY RosterAssumption DEF Init, Roles
  <1>4. code \in [Outlets -> Nat] /\ open \subseteq {o \in Outlets : code[o] # 0}
    BY RosterAssumption DEF Init
  <1>5. /\ assigned \subseteq Users \X Outlets /\ granted \subseteq Users \X Permissions
        /\ allocated \in Nat /\ trading \in BOOLEAN
    BY RosterAssumption DEF Init
  <1>6. \A s \in Subjects : ValueOf(s) \in Values
    BY <1>4, ValueType
  <1>7. audited \in [Subjects -> Values]
    BY <1>6 DEF Init
  <1> QED BY <1>2, <1>3, <1>4, <1>5, <1>7
          DEF TypeOK, CallsMade, ReadsStayCurrent, Holding, GetStaffForUpdate, GetOutletForUpdate

LEMMA TypeNext ==
  TypeOK /\ CallsMade /\ ReadsStayCurrent /\ [Next]_vars => TypeOK' /\ CallsMade'
  <1> SUFFICES ASSUME TypeOK, CallsMade, ReadsStayCurrent, [Next]_vars
               PROVE  TypeOK' /\ CallsMade'
    OBVIOUS
  <1>1. ASSUME NEW r \in Requests, Call(r) PROVE TypeOK' /\ CallsMade'
    BY <1>1, CallIsQuiet
  <1>2. ASSUME NEW r \in Requests, LockActiveBusiness(r) \/ lockOwnerContext(r)
        PROVE  TypeOK' /\ CallsMade'
    <2>1. tx' \in [Requests -> Tx] /\ CallsMade' /\ Quiet
      BY <1>2, MoveFacts DEF LockActiveBusiness, lockOwnerContext, Phases, Quiet, TypeOK
    <2> QED BY <2>1, TypeQuiet
  <1>3. ASSUME NEW r \in Requests, Check(r) PROVE TypeOK' /\ CallsMade'
    BY <1>3, CheckFacts
  <1>4. ASSUME NEW r \in Requests, Commit(r) PROVE TypeOK' /\ CallsMade'
    BY <1>4, TypeCommit, CommitFacts
  <1>5. ASSUME NEW r \in Requests, Refuse(r) \/ Rollback(r) PROVE TypeOK' /\ CallsMade'
    <2>1. tx' \in [Requests -> Tx] /\ CallsMade' /\ Quiet
      BY <1>5, FinishFacts DEF Refuse, Rollback, Quiet, TypeOK
    <2> QED BY <2>1, TypeQuiet
  <1>6. CASE Activation \/ UNCHANGED vars
    <2>1. Quiet /\ tx' = tx
      BY <1>6 DEF Activation, vars, tables, Quiet, TypeOK
    <2> QED BY <2>1, TypeQuiet DEF TypeOK, CallsMade
  <1> QED BY <1>1, <1>2, <1>3, <1>4, <1>5, <1>6 DEF Next, Work

\* Every row of every table and every transaction has its type, and an account or
\* an outlet in service exists.
THEOREM TypeCorrect == Spec => []TypeOK
  BY TypeInit, TypeNext, CurrentNext, PTL DEF Spec

\* Whoever writes holds the business alone, and what it read and checked is so.
THEOREM HolderIsCurrent == Spec => []ReadsStayCurrent
  BY TypeInit, TypeNext, CurrentNext, PTL DEF Spec
----------------------------------------------------------------------------
(***************************************************************************)
(* An administrator remains                                                *)
(***************************************************************************)
LEMMA OwnerInit == Init => OwnerRemains
  BY RosterAssumption DEF Init, OwnerRemains

LEMMA OwnerCommit ==
  ASSUME TypeOK, CallsMade, ReadsStayCurrent, NEW r \in Requests, Commit(r), OwnerRemains
  PROVE  OwnerRemains'
  <1>1. CASE UpdateStaff(r)
    <2>1. PICK u \in Users, to \in BOOLEAN :
            /\ role[u] = "ADMIN" /\ u \in active /\ ~ to => OtherActiveAdmins(u) # {}
            /\ active' = UpdateUser(u, to) /\ role' = role
      BY <1>1, UpdateStaffFacts
    <2>2. CASE role[u] = "ADMIN" /\ u \in active /\ ~ to
      BY <2>1, <2>2 DEF OtherActiveAdmins, UpdateUser, OwnerRemains
    <2>3. CASE ~ (role[u] = "ADMIN" /\ u \in active /\ ~ to)
      <3>1. PICK v \in Users : role[v] = "ADMIN" /\ v \in active
        BY DEF OwnerRemains
      <3>2. v \in active'
        BY <2>1, <2>3, <3>1 DEF UpdateUser
      <3> QED BY <2>1, <3>1, <3>2 DEF OwnerRemains
    <2> QED BY <2>2, <2>3
  <1>2. CASE CreateStaff(r)
    <2>1. PICK u \in Users, to \in SUBSET Outlets :
            /\ role[u] = "NONE" /\ role' = [role EXCEPT ![u] = "LAUNDRY_STAFF"]
            /\ active' = active \cup {u}
      BY <1>2, CreateStaffFacts
    <2>2. PICK v \in Users : role[v] = "ADMIN" /\ v \in active
      BY DEF OwnerRemains
    <2>3. role'[v] = "ADMIN" /\ v \in active'
      BY <2>1, <2>2 DEF TypeOK
    <2> QED BY <2>3 DEF OwnerRemains
  <1>3. CASE \/ ReplaceStaffOutlets(r) \/ ReplaceStaffPermissions(r)
             \/ CreateOutlet(r) \/ UpdateOutlet(r)
    <2>1. UNCHANGED <<role, active>>
      BY <1>3 DEF ReplaceStaffOutlets, ReplaceStaffPermissions, CreateOutlet, UpdateOutlet
    <2> QED BY <2>1 DEF OwnerRemains
  <1> QED BY <1>1, <1>2, <1>3 DEF Commit

\* Every step but a commit leaves the tables alone.
LEMMA OnlyCommitsWrite ==
  ASSUME [Next]_vars
  PROVE  \/ UNCHANGED <<tables, allocated, audited>>
         \/ \E r \in Requests : Commit(r)
  <1>1. ASSUME NEW r \in Requests, Call(r) \/ Work(r) \/ Rollback(r)
        PROVE  UNCHANGED <<tables, allocated, audited>> \/ Commit(r)
    BY <1>1 DEF Call, Work, LockActiveBusiness, lockOwnerContext, Check, Refuse, Rollback
  <1>2. CASE Activation \/ UNCHANGED vars
    BY <1>2 DEF Activation, vars, tables
  <1> QED BY <1>1, <1>2 DEF Next

LEMMA OwnerNext ==
  ASSUME TypeOK, CallsMade, ReadsStayCurrent, OwnerRemains, [Next]_vars
  PROVE  OwnerRemains'
  <1>1. CASE UNCHANGED tables
    BY <1>1 DEF tables, OwnerRemains
  <1> QED BY <1>1, OnlyCommitsWrite, OwnerCommit

\* However the administrators suspend one another, one of them stays in service.
THEOREM AnOwnerRemains == Spec => []OwnerRemains
  BY TypeInit, TypeNext, CurrentNext, OwnerInit, OwnerNext, PTL DEF Spec
----------------------------------------------------------------------------
(***************************************************************************)
(* Nobody is stranded                                                      *)
(***************************************************************************)
LEMMA CommitStrandsNobody ==
  ASSUME TypeOK, CallsMade, ReadsStayCurrent, NEW r \in Requests, Commit(r),
         NEW v \in active \cap active', role[v] = "LAUNDRY_STAFF", Workplaces(v) # {}
  PROVE  (Workplaces(v))' # {}
  <1>v. v \in Users BY DEF TypeOK
  <1>x. PICK x \in open : <<v, x>> \in assigned BY DEF Workplaces
  <1>1. CASE UpdateStaff(r) \/ ReplaceStaffPermissions(r)
    <2>1. UNCHANGED <<open, assigned>>
      BY <1>1 DEF UpdateStaff, ReplaceStaffPermissions
    <2> QED BY <1>x, <2>1 DEF Workplaces
  <1>2. CASE CreateStaff(r) \/ CreateOutlet(r)
    <2>1. open \subseteq open' /\ assigned \subseteq assigned'
      BY <1>2 DEF CreateStaff, CreateOutlet
    <2> QED BY <1>x, <2>1 DEF Workplaces
  <1>3. CASE ReplaceStaffOutlets(r)
    <2>1. PICK u \in Users, to \in SUBSET Outlets :
            /\ to # {} /\ to \subseteq open /\ open' = open
            /\ assigned' = {a \in assigned : a[1] # u} \cup ({u} \X to)
      BY <1>3, ReplaceStaffOutletsFacts, ZenonT(30)
    <2>2. CASE u = v
      <3>1. PICK y \in to : <<v, y>> \in assigned'
        BY <2>1, <2>2
      <3> QED BY <2>1, <3>1 DEF Workplaces
    <2>3. CASE u # v
      <3>1. <<v, x>> \in assigned'
        BY <1>x, <2>1, <2>3
      <3> QED BY <1>x, <2>1, <3>1 DEF Workplaces
    <2> QED BY <2>2, <2>3
  <1>4. CASE UpdateOutlet(r)
    <2>1. PICK o \in Outlets, to \in BOOLEAN :
            /\ o \in open /\ ~ to => StaffWithoutOtherOutlet(o) = {}
            /\ open' = SetOutlet(o, to) /\ assigned' = assigned
      BY <1>4, UpdateOutletFacts
    <2>2. CASE x \in open'
      BY <1>x, <2>1, <2>2 DEF Workplaces
    <2>3. CASE x \notin open'
      <3>1. x = o /\ ~ to
        BY <1>x, <2>1, <2>3 DEF SetOutlet
      <3>2. v \notin StaffWithoutOtherOutlet(o)
        BY <1>x, <2>1, <3>1
      <3>3. PICK y \in open \ {o} : <<v, y>> \in assigned
        BY <1>x, <3>1, <3>2 DEF StaffWithoutOtherOutlet
      <3>4. y \in open'
        BY <2>1, <3>1, <3>3 DEF SetOutlet
      <3> QED BY <2>1, <3>3, <3>4 DEF Workplaces
    <2> QED BY <2>2, <2>3
  <1> QED BY <1>1, <1>2, <1>3, <1>4 DEF Commit

LEMMA StrandedNext ==
  ASSUME TypeOK, CallsMade, ReadsStayCurrent, [Next]_vars
  PROVE  [\A u \in active \cap active' :
            role[u] = "LAUNDRY_STAFF" /\ Workplaces(u) # {} => (Workplaces(u))' # {}]_vars
  <1>1. CASE UNCHANGED tables
    BY <1>1 DEF tables, Workplaces
  <1> QED BY <1>1, OnlyCommitsWrite, CommitStrandsNobody

\* No request takes the last open outlet from a staff member who stays in service,
\* however it meets the others.
THEOREM NobodyIsStranded == Spec => NobodyStranded
  BY TypeInit, TypeNext, CurrentNext, StrandedNext, PTL DEF Spec, NobodyStranded
----------------------------------------------------------------------------
(***************************************************************************)
(* The audit tells what is in the tables                                   *)
(***************************************************************************)
\* Who has no account has no outlet.
EmployedHold == \A u \in Users, o \in Outlets : <<u, o>> \in assigned => role[u] # "NONE"

\* The outlets a user was given, closed or not.
Given(u) == {o \in Outlets : <<u, o>> \in assigned}

\* The last audit row about a column says what the column holds.
AuditAgrees ==
  /\ \A u \in Users : /\ audited[<<"isActive", u>>] = active \cap {u}
                      /\ audited[<<"outletIds", u>>] = Given(u)
                      /\ audited[<<"permissions", u>>] = ListStaffPermissionCodes(u)
  /\ \A o \in Outlets : /\ audited[<<"code", o>>] = {code[o]}
                        /\ audited[<<"open", o>>] = open \cap {o}

AuditInv == EmployedHold /\ AuditAgrees

LEMMA AuditInit == Init => AuditInv
  <1> SUFFICES ASSUME Init PROVE AuditInv
    OBVIOUS
  <1>1. EmployedHold
    BY RosterAssumption DEF Init, EmployedHold
  <1>2. \A s \in Subjects : audited[s] = ValueOf(s)
    BY DEF Init
  <1>3. \A u \in Users : ListStaffOutletIDs(u) = Given(u)
    BY RosterAssumption DEF Init, ListStaffOutletIDs, Given
  <1>4. AuditAgrees
    BY <1>2, <1>3, SubjectsHold, ValueFacts DEF AuditAgrees
  <1> QED BY <1>1, <1>4 DEF AuditInv

LEMMA EmployedCommit ==
  ASSUME TypeOK, CallsMade, ReadsStayCurrent, NEW r \in Requests, Commit(r), EmployedHold
  PROVE  EmployedHold'
  <1>1. CASE CreateStaff(r)
    <2>1. PICK u \in Users, to \in SUBSET Outlets :
            /\ role' = [role EXCEPT ![u] = "LAUNDRY_STAFF"]
            /\ assigned' = assigned \cup ({u} \X to)
      BY <1>1, CreateStaffFacts
    <2>2. role'[u] # "NONE" /\ \A v \in Users \ {u} : role'[v] = role[v]
      BY <2>1 DEF TypeOK
    <2> QED BY <2>1, <2>2 DEF EmployedHold
  <1>2. CASE ReplaceStaffOutlets(r)
    <2>1. PICK u \in Users, to \in SUBSET Outlets :
            /\ role[u] = "LAUNDRY_STAFF" /\ role' = role
            /\ assigned' = {a \in assigned : a[1] # u} \cup ({u} \X to)
      BY <1>2, ReplaceStaffOutletsFacts, ZenonT(30)
    <2> QED BY <2>1 DEF EmployedHold
  <1>3. CASE \/ UpdateStaff(r) \/ ReplaceStaffPermissions(r)
             \/ CreateOutlet(r) \/ UpdateOutlet(r)
    <2>1. UNCHANGED <<role, assigned>>
      BY <1>3 DEF UpdateStaff, ReplaceStaffPermissions, CreateOutlet, UpdateOutlet
    <2> QED BY <2>1 DEF EmployedHold
  <1> QED BY <1>1, <1>2, <1>3 DEF Commit

LEMMA AuditCommit ==
  ASSUME TypeOK, CallsMade, ReadsStayCurrent, NEW r \in Requests, Commit(r), AuditInv
  PROVE  AuditAgrees'
  <1>aud. audited \in [Subjects -> Values] BY DEF TypeOK
  <1>agr. AuditAgrees BY DEF AuditInv
  <1>1. CASE UpdateStaff(r)
    <2>1. PICK u \in Users, to \in BOOLEAN :
            /\ active' = UpdateUser(u, to)
            /\ audited' = [audited EXCEPT ![<<"isActive", u>>] = Only(u, to)]
            /\ UNCHANGED <<role, assigned, granted, code, open>>
      BY <1>1, UpdateStaffFacts
    <2>2. audited'[<<"isActive", u>>] = active' \cap {u}
      BY <1>aud, <2>1, SubjectsHold DEF UpdateUser, Only
    <2>3. \A v \in Users \ {u} : active' \cap {v} = active \cap {v}
      BY <2>1 DEF UpdateUser
    <2>4. \A s \in Subjects : s # <<"isActive", u>> => audited'[s] = audited[s]
      BY <1>aud, <2>1
    <2> QED BY <1>agr, <2>1, <2>2, <2>3, <2>4, SubjectsHold
            DEF AuditAgrees, Given, ListStaffPermissionCodes
  <1>2. CASE CreateStaff(r)
    <2>1. PICK u \in Users, to \in SUBSET Outlets :
            /\ role[u] = "NONE"
            /\ active' = active \cup {u}
            /\ assigned' = assigned \cup ({u} \X to)
            /\ audited' = [audited EXCEPT ![<<"outletIds", u>>] = to, ![<<"isActive", u>>] = {u}]
            /\ UNCHANGED <<granted, code, open>>
      BY <1>2, CreateStaffFacts
    <2>2. /\ audited'[<<"isActive", u>>] = {u} /\ audited'[<<"outletIds", u>>] = to
          /\ \A s \in Subjects :
               s # <<"isActive", u>> /\ s # <<"outletIds", u>> => audited'[s] = audited[s]
      BY <1>aud, <2>1, SubjectsHold
    <2>3. active' \cap {u} = {u} /\ Given(u)' = to
      BY <2>1 DEF Given, AuditInv, EmployedHold
    <2>4. ASSUME NEW v \in Users \ {u}
          PROVE  active' \cap {v} = active \cap {v} /\ Given(v)' = Given(v)
      <3>1. \A x \in Outlets : <<v, x>> \in assigned' <=> <<v, x>> \in assigned
        BY <2>1
      <3>2. Given(v)' = Given(v)
        BY <3>1 DEF Given
      <3> QED BY <2>1, <3>2
    <2>5. \A v \in Users : ListStaffPermissionCodes(v)' = ListStaffPermissionCodes(v)
      BY <2>1 DEF ListStaffPermissionCodes
    <2>6. ASSUME NEW v \in Users
          PROVE  /\ audited'[<<"permissions", v>>] = audited[<<"permissions", v>>]
                 /\ v # u => /\ audited'[<<"isActive", v>>] = audited[<<"isActive", v>>]
                             /\ audited'[<<"outletIds", v>>] = audited[<<"outletIds", v>>]
      BY <2>2, SubjectsHold
    <2>7. ASSUME NEW o \in Outlets
          PROVE  /\ audited'[<<"code", o>>] = audited[<<"code", o>>]
                 /\ audited'[<<"open", o>>] = audited[<<"open", o>>]
      BY <2>2, SubjectsHold
    <2>8. UNCHANGED <<code, open>>
      BY <2>1
    <2> QED BY <1>agr, <2>2, <2>3, <2>4, <2>5, <2>6, <2>7, <2>8 DEF AuditAgrees
  <1>3. CASE ReplaceStaffOutlets(r)
    <2>1. PICK u \in Users, to \in SUBSET Outlets :
            /\ assigned' = {a \in assigned : a[1] # u} \cup ({u} \X to)
            /\ audited' = [audited EXCEPT ![<<"outletIds", u>>] = to]
            /\ UNCHANGED <<role, active, granted, code, open>>
      BY <1>3, ReplaceStaffOutletsFacts, ZenonT(30)
    <2>2. /\ audited'[<<"outletIds", u>>] = to
          /\ \A s \in Subjects : s # <<"outletIds", u>> => audited'[s] = audited[s]
      BY <1>aud, <2>1, SubjectsHold
    <2>3. Given(u)' = to
      BY <2>1 DEF Given
    <2>4. \A v \in Users \ {u} : Given(v)' = Given(v)
      BY <2>1 DEF Given
    <2> QED BY <1>agr, <2>1, <2>2, <2>3, <2>4, SubjectsHold
            DEF AuditAgrees, ListStaffPermissionCodes
  <1>4. CASE ReplaceStaffPermissions(r)
    <2>1. PICK u \in Users, to \in SUBSET Permissions :
            /\ granted' = {g \in granted : g[1] # u} \cup ({u} \X to)
            /\ audited' = [audited EXCEPT ![<<"permissions", u>>] = to]
            /\ UNCHANGED <<role, active, assigned, code, open>>
      BY <1>4, ReplaceStaffPermissionsFacts
    <2>2. /\ audited'[<<"permissions", u>>] = to
          /\ \A s \in Subjects : s # <<"permissions", u>> => audited'[s] = audited[s]
      BY <1>aud, <2>1, SubjectsHold
    <2>3. ListStaffPermissionCodes(u)' = to
      BY <2>1 DEF ListStaffPermissionCodes
    <2>4. \A v \in Users \ {u} : ListStaffPermissionCodes(v)' = ListStaffPermissionCodes(v)
      BY <2>1 DEF ListStaffPermissionCodes
    <2> QED BY <1>agr, <2>1, <2>2, <2>3, <2>4, SubjectsHold DEF AuditAgrees, Given
  <1>5. CASE CreateOutlet(r)
    <2>1. PICK o \in Outlets :
            /\ code' = [code EXCEPT ![o] = allocated + 1]
            /\ open' = open \cup {o}
            /\ audited' = [audited EXCEPT ![<<"code", o>>] = {allocated + 1}, ![<<"open", o>>] = {o}]
            /\ UNCHANGED <<role, active, assigned, granted>>
      BY <1>5, CreateOutletFacts
    <2>2. /\ audited'[<<"code", o>>] = {allocated + 1} /\ audited'[<<"open", o>>] = {o}
          /\ \A s \in Subjects :
               s # <<"code", o>> /\ s # <<"open", o>> => audited'[s] = audited[s]
      BY <1>aud, <2>1, SubjectsHold
    <2>3. code'[o] = allocated + 1 /\ open' \cap {o} = {o}
      BY <2>1 DEF TypeOK
    <2>4. \A x \in Outlets \ {o} : code'[x] = code[x] /\ open' \cap {x} = open \cap {x}
      BY <2>1 DEF TypeOK
    <2>5. ASSUME NEW v \in Users
          PROVE  /\ audited'[<<"isActive", v>>] = audited[<<"isActive", v>>]
                 /\ audited'[<<"outletIds", v>>] = audited[<<"outletIds", v>>]
                 /\ audited'[<<"permissions", v>>] = audited[<<"permissions", v>>]
      BY <2>2, SubjectsHold
    <2>6. ASSUME NEW x \in Outlets \ {o}
          PROVE  /\ audited'[<<"code", x>>] = audited[<<"code", x>>]
                 /\ audited'[<<"open", x>>] = audited[<<"open", x>>]
      BY <2>2, SubjectsHold
    <2>7. \A v \in Users : /\ Given(v)' = Given(v)
                           /\ ListStaffPermissionCodes(v)' = ListStaffPermissionCodes(v)
                           /\ active' \cap {v} = active \cap {v}
      BY <2>1 DEF Given, ListStaffPermissionCodes
    <2> QED BY <1>agr, <2>2, <2>3, <2>4, <2>5, <2>6, <2>7 DEF AuditAgrees
  <1>6. CASE UpdateOutlet(r)
    <2>1. PICK o \in Outlets, to \in BOOLEAN :
            /\ open' = SetOutlet(o, to)
            /\ audited' = [audited EXCEPT ![<<"open", o>>] = Only(o, to)]
            /\ UNCHANGED <<role, active, assigned, granted, code>>
      BY <1>6, UpdateOutletFacts
    <2>2. audited'[<<"open", o>>] = open' \cap {o}
      BY <1>aud, <2>1, SubjectsHold DEF SetOutlet, Only
    <2>3. \A x \in Outlets \ {o} : open' \cap {x} = open \cap {x}
      BY <2>1 DEF SetOutlet
    <2>4. \A s \in Subjects : s # <<"open", o>> => audited'[s] = audited[s]
      BY <1>aud, <2>1
    <2> QED BY <1>agr, <2>1, <2>2, <2>3, <2>4, SubjectsHold
            DEF AuditAgrees, Given, ListStaffPermissionCodes
  <1> QED BY <1>1, <1>2, <1>3, <1>4, <1>5, <1>6 DEF Commit

LEMMA AuditNext ==
  ASSUME TypeOK, CallsMade, ReadsStayCurrent, AuditInv, [Next]_vars
  PROVE  AuditInv'
  <1>1. CASE UNCHANGED <<tables, allocated, audited>>
    BY <1>1 DEF tables, AuditInv, EmployedHold, AuditAgrees, Given,
                ListStaffPermissionCodes
  <1> QED BY <1>1, OnlyCommitsWrite, EmployedCommit, AuditCommit DEF AuditInv

\* What a request finds of a column is what is left of what the last audit row about it says.
LEMMA AuditTells ==
  ASSUME TypeOK, AuditInv, NEW s \in Subjects
  PROVE  ValueOf(s) = LastRecorded(s)
  <1> USE DEF AuditInv, AuditAgrees, LastRecorded
  <1>1. ASSUME NEW u \in Users, s = <<"isActive", u>> PROVE ValueOf(s) = LastRecorded(s)
    BY <1>1, ValueFacts
  <1>2. ASSUME NEW u \in Users, s = <<"outletIds", u>> PROVE ValueOf(s) = LastRecorded(s)
    <2>1. ListStaffOutletIDs(u) = Given(u) \cap open
      BY DEF TypeOK, ListStaffOutletIDs, Given
    <2>2. s[1] = "outletIds" /\ audited[s] = Given(u)
      BY <1>2
    <2> QED BY <1>2, <2>1, <2>2, ValueFacts
  <1>3. ASSUME NEW u \in Users, s = <<"permissions", u>> PROVE ValueOf(s) = LastRecorded(s)
    BY <1>3, ValueFacts
  <1>4. ASSUME NEW o \in Outlets, s = <<"code", o>> PROVE ValueOf(s) = LastRecorded(s)
    BY <1>4, ValueFacts
  <1>5. ASSUME NEW o \in Outlets, s = <<"open", o>> PROVE ValueOf(s) = LastRecorded(s)
    BY <1>5, ValueFacts
  <1> QED BY <1>1, <1>2, <1>3, <1>4, <1>5, SubjectCases

LEMMA ReadIsAudited ==
  ASSUME TypeOK, CallsMade, ReadsStayCurrent, AuditInv, NEW r \in Requests, tx[r].phase = "checked"
  PROVE  tx[r].old = LastRecorded(SubjectOf(tx[r].call))
  <1>1. tx[r].call \in Calls /\ tx[r].old = ValueOf(SubjectOf(tx[r].call))
    BY DEF CallsMade, ReadsStayCurrent
  <1> QED BY <1>1, SubjectFacts, AuditTells

\* No change slips in between what an audit row says was there and what the one
\* before it left: of the outlets of a user it leaves out those closed since, and
\* nothing else.
THEOREM AuditHasNoGap == Spec => AuditIsChain
  <1>1. TypeOK /\ CallsMade /\ ReadsStayCurrent /\ AuditInv =>
          [\A r \in Requests :
             tx[r].phase = "checked" /\ tx'[r].phase = "idle" /\ audited' # audited =>
               tx[r].old = LastRecorded(SubjectOf(tx[r].call))]_vars
    BY ReadIsAudited
  <1> QED BY <1>1, TypeInit, TypeNext, CurrentNext, AuditInit, AuditNext, PTL DEF Spec, AuditIsChain
----------------------------------------------------------------------------
(***************************************************************************)
(* Outlet codes, and the roster that the requests implement                *)
(***************************************************************************)
\* The counter is the last code there is.
CodesInv ==
  /\ \E x \in Outlets : code[x] = allocated
  /\ \A x \in Outlets : code[x] <= allocated

LEMMA CodesInit == Init => CodesInv
  BY RosterAssumption DEF Init, CodesInv

LEMMA CodesNext ==
  ASSUME TypeOK, CallsMade, ReadsStayCurrent, CodesInv, [Next]_vars
  PROVE  CodesInv'
  <1>1. CASE UNCHANGED <<tables, allocated, audited>>
    BY <1>1 DEF tables, CodesInv
  <1>2. ASSUME NEW r \in Requests, CreateOutlet(r) PROVE CodesInv'
    <2>1. PICK o \in Outlets :
            code[o] = 0 /\ allocated' = allocated + 1 /\ code' = [code EXCEPT ![o] = allocated + 1]
      BY <1>2, CreateOutletFacts
    <2>2. allocated \in Nat /\ code \in [Outlets -> Nat]
      BY DEF TypeOK
    <2>3. code'[o] = allocated' /\ \A x \in Outlets : code'[x] <= allocated'
      BY <2>1, <2>2 DEF CodesInv
    <2> QED BY <2>3 DEF CodesInv
  <1>3. ASSUME NEW r \in Requests, Commit(r), ~ CreateOutlet(r) PROVE CodesInv'
    <2>1. UNCHANGED <<code, allocated>>
      BY <1>3 DEF Commit, UpdateStaff, CreateStaff, ReplaceStaffOutlets, ReplaceStaffPermissions,
                  UpdateOutlet
    <2> QED BY <2>1 DEF CodesInv
  <1> QED BY <1>1, <1>2, <1>3, OnlyCommitsWrite

LEMMA RosterInit == Init => Roster!Init
  <1> SUFFICES ASSUME Init PROVE Roster!Init
    OBVIOUS
  <1>1. role \in [Users -> {"NONE", "ADMIN", "LAUNDRY_STAFF"}] /\ \E u \in Users : role[u] = "ADMIN"
    BY RosterAssumption DEF Init
  <1>2. active = {u \in Users : role[u] # "NONE"}
    BY RosterAssumption DEF Init
  <1>3. assigned \subseteq Users \X Outlets /\ granted = {}
    BY RosterAssumption DEF Init
  <1>4. code \in [Outlets -> {0, 1}] /\ open = {o \in Outlets : code[o] = 1}
        /\ \E o \in Outlets : open = {o}
    BY RosterAssumption DEF Init
  <1> QED BY <1>1, <1>2, <1>3, <1>4 DEF Roster!Init

\* Each commit is a step of the roster, made by the administrator who called.
LEMMA CommitIsManagement ==
  ASSUME TypeOK, CallsMade, ReadsStayCurrent, CodesInv, NEW r \in Requests, Commit(r)
  PROVE  Roster!Management(tx[r].call.by)
  <1> DEFINE by == tx[r].call.by
  <1>0. tx[r].call \in Calls /\ ~ SelfDirected(tx[r].call) /\ by \in Users /\ role[by] = "ADMIN"
    BY CommitFacts, CallFields DEF GetActiveUser
  <1>1. CASE UpdateStaff(r)
    <2>1. PICK u \in Users, to \in BOOLEAN :
            /\ tx[r].call.op = "UpdateStaff" /\ tx[r].call.user = u /\ tx[r].call.to = to
            /\ role[u] # "NONE" /\ active' = UpdateUser(u, to)
            /\ UNCHANGED <<role, assigned, granted, code, open>>
      BY <1>1, UpdateStaffFacts
    <2>2. CASE to
      <3>1. Roster!Resume(u)
        BY <2>1, <2>2 DEF Roster!Resume, UpdateUser
      <3> QED BY <3>1 DEF Roster!Management
    <2>3. CASE ~ to
      <3>1. u # by
        BY <1>0, <2>1, <2>3 DEF SelfDirected
      <3>2. Roster!Suspend(u)
        BY <2>1, <2>3 DEF Roster!Suspend, UpdateUser
      <3> QED BY <3>1, <3>2 DEF Roster!Management
    <2> QED BY <2>2, <2>3
  <1>2. CASE CreateStaff(r)
    <2>1. PICK u \in Users, to \in SUBSET Outlets :
            /\ role[u] = "NONE" /\ to # {} /\ to \subseteq open
            /\ role' = [role EXCEPT ![u] = "LAUNDRY_STAFF"]
            /\ active' = active \cup {u}
            /\ assigned' = assigned \cup ({u} \X to)
            /\ UNCHANGED <<granted, code, open>>
      BY <1>2, CreateStaffFacts
    <2>2. Roster!Hire(u, to)
      BY <2>1 DEF Roster!Hire
    <2>3. u # by
      BY <1>0, <2>1
    <2> QED BY <2>2, <2>3 DEF Roster!Management
  <1>3. CASE ReplaceStaffOutlets(r)
    <2>1. PICK u \in Users, to \in SUBSET Outlets :
            /\ u # by /\ role[u] = "LAUNDRY_STAFF" /\ to # {} /\ to \subseteq open
            /\ assigned' = {a \in assigned : a[1] # u} \cup ({u} \X to)
            /\ UNCHANGED <<role, active, granted, code, open>>
      BY <1>3, ReplaceStaffOutletsFacts, ZenonT(30)
    <2>2. Roster!Reassign(u, to)
      BY <2>1 DEF Roster!Reassign
    <2> QED BY <2>1, <2>2 DEF Roster!Management
  <1>4. CASE ReplaceStaffPermissions(r)
    <2>1. PICK u \in Users, to \in SUBSET Permissions :
            /\ u # by /\ role[u] = "LAUNDRY_STAFF"
            /\ granted' = {g \in granted : g[1] # u} \cup ({u} \X to)
            /\ UNCHANGED <<role, active, assigned, code, open>>
      BY <1>4, ReplaceStaffPermissionsFacts
    <2>2. Roster!Empower(u, to)
      BY <2>1 DEF Roster!Empower
    <2> QED BY <2>1, <2>2 DEF Roster!Management
  <1>5. CASE CreateOutlet(r)
    <2>1. PICK o \in Outlets :
            /\ code[o] = 0 /\ code' = [code EXCEPT ![o] = allocated + 1]
            /\ open' = open \cup {o}
            /\ UNCHANGED <<role, active, assigned, granted>>
      BY <1>5, CreateOutletFacts
    <2>2. allocated + 1 \in {code[x] + 1 : x \in Outlets} /\ \A x \in Outlets : code[x] < allocated + 1
      <3>1. PICK x \in Outlets : code[x] = allocated
        BY DEF CodesInv
      <3>2. allocated \in Nat /\ \A y \in Outlets : code[y] \in Nat /\ code[y] <= allocated
        BY DEF CodesInv, TypeOK
      <3> QED BY <3>1, <3>2
    <2>3. Roster!Establish(o)
      BY <2>1, <2>2 DEF Roster!Establish
    <2> QED BY <2>3 DEF Roster!Management
  <1>6. CASE UpdateOutlet(r)
    <2>1. PICK o \in Outlets, to \in BOOLEAN :
            /\ code[o] # 0 /\ open' = SetOutlet(o, to)
            /\ UNCHANGED <<role, active, assigned, granted, code>>
      BY <1>6, UpdateOutletFacts
    <2>2. Roster!Trade(o, to)
      BY <2>1 DEF Roster!Trade, SetOutlet
    <2> QED BY <2>2 DEF Roster!Management
  <1> QED BY <1>1, <1>2, <1>3, <1>4, <1>5, <1>6 DEF Commit

LEMMA RosterNext ==
  ASSUME TypeOK, CallsMade, ReadsStayCurrent, CodesInv, [Next]_vars
  PROVE  [Roster!Next]_(Roster!tables)
  <1>1. CASE UNCHANGED tables
    BY <1>1 DEF tables, Roster!tables
  <1>2. ASSUME NEW r \in Requests, Commit(r) PROVE Roster!Next
    <2>1. tx[r].call.by \in Users /\ Roster!Serving(tx[r].call.by)
      BY <1>2, CommitFacts, CallFields DEF GetActiveUser, Roster!Serving
    <2>2. Roster!Management(tx[r].call.by)
      BY <1>2, CommitIsManagement
    <2>3. Roster!StrandsNobody
      BY <1>2, CommitStrandsNobody DEF Roster!StrandsNobody, Roster!Workplaces, Workplaces
    <2> QED BY <2>1, <2>2, <2>3 DEF Roster!Next
  <1> QED BY <1>1, <1>2, OnlyCommitsWrite

\* The requests, interleaved as they may be, do what StaffRoster says: one change
\* at a time, each on the authority of an administrator then in service.
THEOREM RequestsImplementRoster == Spec => ImplementsRoster
  BY TypeInit, TypeNext, CurrentNext, CodesInit, CodesNext, RosterInit, RosterNext, PTL
     DEF Spec, ImplementsRoster, Roster!Spec
=============================================================================
