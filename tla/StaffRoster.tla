---------------------------- MODULE StaffRoster ----------------------------
(***************************************************************************)
(* What the management of a business promises, without transactions and    *)
(* locks: an administrator who is in service hires, suspends, reassigns    *)
(* and empowers the staff and opens and closes outlets, each in one step   *)
(* that leaves an administrator in service and strands nobody.             *)
(***************************************************************************)
EXTENDS Integers

CONSTANTS Users, Outlets, Permissions

VARIABLES
  role,      \* per user: NONE before the account exists
  active,    \* users in service
  assigned,  \* pairs <<user, outlet>>
  granted,   \* pairs <<user, permission>>
  code,      \* per outlet: its code, 0 before the outlet exists
  open       \* outlets in service

tables == <<role, active, assigned, granted, code, open>>

Serving(by) == role[by] = "ADMIN" /\ by \in active
Workplaces(u) == {o \in open : <<u, o>> \in assigned}

\* Nobody who stays in service is left without an open outlet by the step.
StrandsNobody ==
  \A u \in active \cap active' :
    role[u] = "LAUNDRY_STAFF" /\ Workplaces(u) # {} => (Workplaces(u))' # {}

Hire(u, outlets) ==
  /\ role[u] = "NONE"
  /\ outlets # {} /\ outlets \subseteq open
  /\ role' = [role EXCEPT ![u] = "LAUNDRY_STAFF"]
  /\ active' = active \cup {u}
  /\ assigned' = assigned \cup ({u} \X outlets)
  /\ UNCHANGED <<granted, code, open>>

Reassign(u, outlets) ==
  /\ role[u] = "LAUNDRY_STAFF"
  /\ outlets # {} /\ outlets \subseteq open
  /\ assigned' = {a \in assigned : a[1] # u} \cup ({u} \X outlets)
  /\ UNCHANGED <<role, active, granted, code, open>>

Empower(u, permissions) ==
  /\ role[u] = "LAUNDRY_STAFF"
  /\ granted' = {g \in granted : g[1] # u} \cup ({u} \X permissions)
  /\ UNCHANGED <<role, active, assigned, code, open>>

Resume(u) ==
  /\ role[u] # "NONE"
  /\ active' = active \cup {u}
  /\ UNCHANGED <<role, assigned, granted, code, open>>

Suspend(u) ==
  /\ role[u] # "NONE"
  /\ active' = active \ {u}
  /\ UNCHANGED <<role, assigned, granted, code, open>>

\* The next outlet takes the number after the last.
Establish(o) ==
  /\ code[o] = 0
  /\ \E n \in {code[x] + 1 : x \in Outlets} :
       /\ \A x \in Outlets : code[x] < n
       /\ code' = [code EXCEPT ![o] = n]
  /\ open' = open \cup {o}
  /\ UNCHANGED <<role, active, assigned, granted>>

Trade(o, to) ==
  /\ code[o] # 0
  /\ open' = IF to THEN open \cup {o} ELSE open \ {o}
  /\ UNCHANGED <<role, active, assigned, granted, code>>

Management(by) ==
  \/ \E u \in Users \ {by}, outlets \in SUBSET Outlets : Hire(u, outlets) \/ Reassign(u, outlets)
  \/ \E u \in Users \ {by}, permissions \in SUBSET Permissions : Empower(u, permissions)
  \/ \E u \in Users : Resume(u)
  \/ \E u \in Users \ {by} : Suspend(u)
  \/ \E o \in Outlets : Establish(o) \/ (\E to \in BOOLEAN : Trade(o, to))

Init ==
  /\ role \in [Users -> {"NONE", "ADMIN", "LAUNDRY_STAFF"}]
  /\ active = {u \in Users : role[u] # "NONE"} /\ (\E u \in Users : role[u] = "ADMIN")
  /\ assigned \subseteq Users \X Outlets
  /\ granted = {}
  /\ code \in [Outlets -> {0, 1}] /\ open = {o \in Outlets : code[o] = 1}
  /\ \E o \in Outlets : open = {o}

Next == \E by \in Users : Serving(by) /\ Management(by) /\ StrandsNobody

Spec == Init /\ [][Next]_tables
============================================================================
