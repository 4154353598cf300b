----------------------------- MODULE Onboarding -----------------------------
(***************************************************************************)
(* How a business comes to be: Register of an owner in public, and         *)
(* Provision by the platform, both through createTenant; and CreateStaff,  *)
(* which takes emails from the same index.  Each is one READ COMMITTED     *)
(* transaction.  A row carries the request whose transaction wrote it      *)
(* until that commits: nobody else sees it, but users_email_uq makes other *)
(* inserts of its email wait.                                              *)
(***************************************************************************)
EXTENDS Integers, FiniteSets

CONSTANTS
  Requests,      \* transactions in progress at the same time
  Emails,        \* emails as they are sent
  Lower,         \* normalizeProvisionInput: trimmed and lower case
  MaxBusinesses  \* bound on the ids of businesses

VARIABLES
  business,    \* [id, by]
  counter,     \* business_outlet_counters.last_allocated
  outlet,      \* [business, code, by]
  user,        \* [business, email, role, by]
  assignment,  \* user_outlets: [business, email, code, by]
  family,      \* session_families with their first token: [business, email, by]
  trail,       \* audit_logs: [business, action, by]
  nextId,      \* sequence of the ids of businesses
  tx           \* the transaction of each request

tables == <<business, counter, outlet, user, assignment, family, trail, nextId>>
vars == <<tables, tx>>

Done == "nobody"
Ids == 1 .. MaxBusinesses

\* No request is called like the mark of what is committed.
ASSUME OnboardingAssumption == Done \notin Requests /\ MaxBusinesses \in Nat

NoCall == [op |-> "none"]
Calls ==
  {[op |-> o, email |-> e] : o \in {"REGISTER", "PROVISION"}, e \in Emails}
  \cup {[op |-> "HIRE", email |-> e, business |-> b] : e \in Emails, b \in Ids}
Idle == [phase |-> "idle", call |-> NoCall, id |-> 0]
Committed(table) == {row \in table : row.by = Done}
----------------------------------------------------------------------------
(***************************************************************************)
(* Statements                                                              *)
(***************************************************************************)
PlatformCreateBusiness(r) == business' = business \cup {[id |-> nextId, by |-> r]} /\ nextId' = nextId + 1

\* INSERT ... ON CONFLICT DO UPDATE ... RETURNING.
AllocateOutletCode(b) == counter' = [counter EXCEPT ![b] = @ + 1]
CreateOutlet(r, b) == outlet' = outlet \cup {[business |-> b, code |-> counter'[b], by |-> r]}

\* A slip: what others are about to commit is not waited for.
EmailHeldForgotten(r, email) == FALSE

EmailHeld(r, email) == \E u \in user : u.email = Lower[email] /\ u.by \notin {r, Done}
EmailTaken(email) == \E u \in Committed(user) : u.email = Lower[email]

InsertUser(r, role) ==
  user' = user \cup {[business |-> tx[r].id, email |-> Lower[tx[r].call.email], role |-> role, by |-> r]}
PlatformCreateFirstAdmin(r) == InsertUser(r, "ADMIN")

AddStaffOutlet(r) ==
  assignment' = assignment \cup
    {[business |-> tx[r].id, email |-> Lower[tx[r].call.email], code |-> 1, by |-> r]}

\* CreateSessionFamily and CreateRefreshToken.
CreateSession(r) ==
  family' = family \cup {[business |-> tx[r].id, email |-> Lower[tx[r].call.email], by |-> r]}
\* platformBusinessAudit writes the same to the stream of the platform, too.
InsertAuditLog(r, actions) ==
  trail' = trail \cup {[business |-> tx[r].id, action |-> a, by |-> r] : a \in actions}

\* What others see of the rows of r from its commit on, and what is left after its rollback.
Seen(table, r) == {IF row.by = r THEN [row EXCEPT !.by = Done] ELSE row : row \in table}
Undone(table, r) == {row \in table : row.by # r}

Finish(r) == tx' = [tx EXCEPT ![r] = Idle]
Move(r, phase) == tx' = [tx EXCEPT ![r].phase = phase]

Init ==
  /\ business = {} /\ outlet = {} /\ user = {} /\ assignment = {} /\ family = {} /\ trail = {}
  /\ counter = [b \in Ids |-> 0]
  /\ nextId = 1
  /\ tx = [r \in Requests |-> Idle]
----------------------------------------------------------------------------
(***************************************************************************)
(* Requests                                                                *)
(***************************************************************************)
\* Staff are hired by an administrator of the business.
Call(r) ==
  /\ tx[r].phase = "idle"
  /\ \E c \in Calls :
       /\ c.op = "HIRE" => [id |-> c.business, by |-> Done] \in business
       /\ tx' = [tx EXCEPT ![r] = [phase |-> "called", call |-> c,
                                   id |-> IF c.op = "HIRE" THEN c.business ELSE 0]]
  /\ UNCHANGED tables

\* createTenant up to the outlet.
createTenant(r) ==
  /\ tx[r].phase = "called" /\ tx[r].call.op # "HIRE"
  /\ nextId <= MaxBusinesses
  /\ PlatformCreateBusiness(r)
  /\ AllocateOutletCode(nextId)
  /\ CreateOutlet(r, nextId)
  /\ tx' = [tx EXCEPT ![r] = [@ EXCEPT !.phase = "outlet", !.id = nextId]]
  /\ UNCHANGED <<user, assignment, family, trail>>

\* createTenant from the administrator on; the insert waits for users_email_uq.
FirstAdmin(r) ==
  /\ tx[r].phase = "outlet"
  /\ ~ EmailHeld(r, tx[r].call.email) /\ ~ EmailTaken(tx[r].call.email)
  /\ PlatformCreateFirstAdmin(r)
  /\ AddStaffOutlet(r)
  /\ Move(r, "tenant")
  /\ UNCHANGED <<business, counter, outlet, family, trail, nextId>>

CreateStaff(r) ==
  /\ tx[r].phase = "called" /\ tx[r].call.op = "HIRE"
  /\ ~ EmailHeld(r, tx[r].call.email) /\ ~ EmailTaken(tx[r].call.email)
  /\ InsertUser(r, "LAUNDRY_STAFF")
  /\ AddStaffOutlet(r)
  /\ InsertAuditLog(r, {"STAFF_CREATED"})
  /\ Move(r, "done")
  /\ UNCHANGED <<business, counter, outlet, family, nextId>>

\* The rest of Register: the owner is logged in, and both are audited.
Register(r) ==
  /\ tx[r].phase = "tenant" /\ tx[r].call.op = "REGISTER"
  /\ CreateSession(r)
  /\ InsertAuditLog(r, {"OWNER_REGISTERED", "AUTH_SESSION_CREATED"})
  /\ Move(r, "done")
  /\ UNCHANGED <<business, counter, outlet, user, assignment, nextId>>

\* The rest of Provision.
Provision(r) ==
  /\ tx[r].phase = "tenant" /\ tx[r].call.op = "PROVISION"
  /\ InsertAuditLog(r, {"BUSINESS_PROVISIONED"})
  /\ Move(r, "done")
  /\ UNCHANGED <<business, counter, outlet, user, assignment, family, nextId>>

\* The client may not hear of it and call again.
Commit(r) ==
  /\ tx[r].phase = "done"
  /\ business' = Seen(business, r) /\ outlet' = Seen(outlet, r) /\ user' = Seen(user, r)
  /\ assignment' = Seen(assignment, r) /\ family' = Seen(family, r) /\ trail' = Seen(trail, r)
  /\ Finish(r)
  /\ UNCHANGED <<counter, nextId>>

\* The 10 seconds are over, the client is gone, a statement fails, or the process stops.
Rollback(r) ==
  /\ tx[r].phase # "idle"
  /\ business' = Undone(business, r) /\ outlet' = Undone(outlet, r) /\ user' = Undone(user, r)
  /\ assignment' = Undone(assignment, r) /\ family' = Undone(family, r) /\ trail' = Undone(trail, r)
  /\ counter' = [b \in Ids |-> IF [id |-> b, by |-> r] \in business THEN 0 ELSE counter[b]]
  /\ Finish(r)
  /\ UNCHANGED nextId

\* ErrOwnerEmailUnavailable, ErrAdminEmailUnavailable or a conflict.
Unavailable(r) ==
  /\ \/ tx[r].phase = "outlet"
     \/ tx[r].phase = "called" /\ tx[r].call.op = "HIRE"
  /\ EmailTaken(tx[r].call.email)
  /\ Rollback(r)

Next ==
  \E r \in Requests :
    \/ Call(r) \/ createTenant(r) \/ FirstAdmin(r) \/ CreateStaff(r) \/ Register(r) \/ Provision(r)
    \/ Commit(r) \/ Unavailable(r) \/ Rollback(r)

Spec == Init /\ [][Next]_vars
----------------------------------------------------------------------------
(***************************************************************************)
(* Properties                                                              *)
(***************************************************************************)
Of(table, b) == {row \in Committed(table) : row.business = b}
Told(b) == {t.action : t \in Of(trail, b)} \ {"STAFF_CREATED"}

\* A business is there as a whole or not at all: the outlet with the first code and no
\* other, one administrator, assigned to it, and the rows that say how it came to be; a
\* registered owner has a session, and nobody else has one (createTenant, Register, Provision).
Whole(b) ==
  \E owner \in Of(user, b) :
    /\ {u \in Of(user, b) : u.role = "ADMIN"} = {owner}
    /\ Of(outlet, b) = {[business |-> b, code |-> 1, by |-> Done]}
    /\ \E a \in Of(assignment, b) : a.email = owner.email /\ a.code = 1
    /\ \/ /\ Told(b) = {"OWNER_REGISTERED", "AUTH_SESSION_CREATED"}
          /\ {f.email : f \in Of(family, b)} = {owner.email}
       \/ Told(b) = {"BUSINESS_PROVISIONED"} /\ Of(family, b) = {}

\* Tenants are whole, nothing belongs to a business that is not there, and an email logs
\* one account in, of whatever business (users_email_uq, Login looks emails up globally).
TenantsWhole ==
  /\ \A b \in Committed(business) : Whole(b.id)
  /\ \A row \in Committed(outlet) \cup Committed(user) \cup Committed(assignment)
                \cup Committed(family) \cup Committed(trail) :
       [id |-> row.business, by |-> Done] \in business
  /\ \A u, v \in Committed(user) : u.email = v.email => u = v
============================================================================
