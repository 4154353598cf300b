-------------------------- MODULE ReceiptTemplates --------------------------
(***************************************************************************)
(* The templates of ReceiptsHandler, internal/handlers/receipts.go, for    *)
(* one outlet.  A request that changes them locks the outlet, reads the    *)
(* template, decides what will be the default, clears the old default,     *)
(* writes and audits, in one READ COMMITTED transaction.                   *)
(*                                                                         *)
(* The row of the outlet is locked, the acting user and the assignment are *)
(* not: they are as the statement that waited for the outlet saw them when *)
(* it began.  Nothing that a transaction wrote is seen before its commit,  *)
(* so that its statements after the decision are one step.                 *)
(***************************************************************************)
EXTENDS Integers, FiniteSetsExt

CONSTANTS
  Requests,   \* requests in progress at the same time, one transaction each
  Templates,  \* ids of receipt_templates that may be created, integers above 0
  Names,      \* names as they are stored
  Lower       \* lower(name)

VARIABLES
  template,  \* table receipt_templates
  trail,     \* the last audit row: entity_id, old_values and new_values
  open,      \* outlets.is_active
  serving,   \* the acting user is active, and an administrator or assigned
  tx         \* the transaction of each request

vars == <<template, trail, open, serving, tx>>
----------------------------------------------------------------------------
NoRow == [state |-> "absent", isDefault |-> FALSE]
Row == [state : {"live", "deleted"}, name : Names, isDefault : BOOLEAN]

\* receiptTemplateInput: isDefault may be left out of a creation only.
CreateCalls ==
  {[op |-> "CREATE", template |-> t, name |-> n, isDefault |-> d] :
     t \in Templates, n \in Names, d \in {"true", "false", "null"}}
UpdateCalls ==
  {[op |-> "UPDATE", template |-> t, name |-> n, isDefault |-> d] :
     t \in Templates, n \in Names, d \in {"true", "false"}}
DeleteCalls == {[op |-> "DELETE", template |-> t] : t \in Templates}
Calls == CreateCalls \cup UpdateCalls \cup DeleteCalls

NoCall == [op |-> "none"]
IdleTx == [phase |-> "idle", call |-> NoCall, old |-> NoRow, def |-> FALSE]

\* mapTemplateAudit
Told(row) == IF row.state = "live" THEN <<row.name, row.isDefault>> ELSE <<row.state, FALSE>>
----------------------------------------------------------------------------
(***************************************************************************)
(* Queries                                                                 *)
(***************************************************************************)
LiveTemplates == {t \in Templates : template[t].state = "live"}

GetAuthorizedReceiptOutlet == open /\ serving

\* FOR UPDATE OF outlet.
Holds(r) == tx[r].phase \in {"locked", "decided"}

\* A slip: the row of the outlet is read without FOR UPDATE.
LockReceiptTemplateOutletUnlocked == open

\* When the lock is granted the row of the outlet is looked at once more.
LockReceiptTemplateOutlet == open /\ \A r \in Requests : ~ Holds(r)

GetReceiptTemplateForUpdate(t) == t \in LiveTemplates

HasActiveDefaultReceiptTemplate == \E t \in LiveTemplates : template[t].isDefault

ClearActiveDefaultReceiptTemplates ==
  [t \in Templates |-> [template[t] EXCEPT !.isDefault = FALSE]]

CreateReceiptTemplate(table, c, def) ==
  [table EXCEPT ![c.template] = [state |-> "live", name |-> c.name, isDefault |-> def]]
UpdateReceiptTemplate(table, c, def) ==
  [table EXCEPT ![c.template].name = c.name, ![c.template].isDefault = def]

SoftDeleteReceiptTemplate(t) ==
  [template EXCEPT ![t].state = "deleted", ![t].isDefault = FALSE]

\* A slip: the template being deleted is not left out.
SetNextReceiptTemplateDefaultAny(table, t) == [table EXCEPT ![Min(LiveTemplates)].isDefault = TRUE]

\* ORDER BY id LIMIT 1, of those that are left.
SetNextReceiptTemplateDefault(table, t) ==
  LET candidates == LiveTemplates \ {t}
  IN  IF candidates = {} THEN table ELSE [table EXCEPT ![Min(candidates)].isDefault = TRUE]

\* receipt_templates_outlet_name_uq; the outlet's lock keeps others out of the index.
NameTaken(c) == \E t \in LiveTemplates \ {c.template} : Lower[template[t].name] = Lower[c.name]

InsertReceiptTemplateAuditLog(t, old, new) == trail' = <<t, old, new>>

Finish(r) == tx' = [tx EXCEPT ![r] = IdleTx]
Move(r, phase) == tx' = [tx EXCEPT ![r].phase = phase]

Init ==
  /\ template = [t \in Templates |-> NoRow]
  /\ trail = <<>>
  /\ open = TRUE /\ serving = TRUE
  /\ tx = [r \in Requests |-> IdleTx]
----------------------------------------------------------------------------
(***************************************************************************)
(* Requests                                                                *)
(***************************************************************************)
\* CreateTemplate, UpdateTemplate and DeleteTemplate; a row that is created gets an
\* id of its own from the sequence.
Call(r) ==
  /\ tx[r].phase = "idle"
  /\ \E c \in Calls :
       /\ c.op = "CREATE" =>
            template[c.template] = NoRow /\ \A s \in Requests :
              tx[s].call.op = "CREATE" => tx[s].call.template # c.template
       /\ tx' = [tx EXCEPT ![r] = [@ EXCEPT !.phase = "called", !.call = c]]
  /\ UNCHANGED <<template, trail, open, serving>>

\* The first statement takes its snapshot, with user and assignment, ...
Begin(r) ==
  /\ tx[r].phase = "called"
  /\ GetAuthorizedReceiptOutlet
  /\ Move(r, "waiting")
  /\ UNCHANGED <<template, trail, open, serving>>

\* ... and waits for the outlet.
Lock(r) ==
  /\ tx[r].phase = "waiting"
  /\ LockReceiptTemplateOutlet
  /\ Move(r, "locked")
  /\ UNCHANGED <<template, trail, open, serving>>

\* A slip: what is left out is taken for no.
WillBeDefaultOnlyIfAsked(c) == c.op # "DELETE" /\ c.isDefault = "true"

WillBeDefault(c) ==
  /\ c.op # "DELETE"
  /\ IF c.isDefault = "null" THEN ~ HasActiveDefaultReceiptTemplate ELSE c.isDefault = "true"

\* The old row and the default are read under the lock.
Decide(r) ==
  LET c == tx[r].call
  IN  /\ tx[r].phase = "locked"
      /\ c.op # "CREATE" => GetReceiptTemplateForUpdate(c.template)
      /\ tx' = [tx EXCEPT ![r] = [@ EXCEPT !.phase = "decided", !.old = template[c.template],
                                           !.def = WillBeDefault(c)]]
      /\ UNCHANGED <<template, trail, open, serving>>

\* The rest of mutateTemplate, up to its commit.
mutateTemplate(r, action) ==
  LET c == tx[r].call
      cleared == IF tx[r].def THEN ClearActiveDefaultReceiptTemplates ELSE template
  IN  /\ tx[r].phase = "decided" /\ c.op = action
      /\ ~ NameTaken(c)
      /\ template' = IF action = "CREATE" THEN CreateReceiptTemplate(cleared, c, tx[r].def)
                     ELSE UpdateReceiptTemplate(cleared, c, tx[r].def)
      /\ InsertReceiptTemplateAuditLog(c.template, Told(tx[r].old), <<c.name, tx[r].def>>)
      /\ Finish(r)
      /\ UNCHANGED <<open, serving>>

CreateTemplate(r) == mutateTemplate(r, "CREATE")
UpdateTemplate(r) == mutateTemplate(r, "UPDATE")

\* The rest of DeleteTemplate: a default that goes leaves a successor.
DeleteTemplate(r) ==
  LET t == tx[r].call.template
      deleted == SoftDeleteReceiptTemplate(t)
  IN  /\ tx[r].phase = "decided" /\ tx[r].call.op = "DELETE"
      /\ template' = IF tx[r].old.isDefault THEN SetNextReceiptTemplateDefault(deleted, t)
                     ELSE deleted
      /\ InsertReceiptTemplateAuditLog(t, Told(tx[r].old), <<"deleted", FALSE>>)
      /\ Finish(r)
      /\ UNCHANGED <<open, serving>>

\* receiptTemplateError: an outlet or a template out of reach, or TEMPLATE_CONFLICT.
receiptTemplateError(r) ==
  LET c == tx[r].call
  IN  \/ tx[r].phase = "called" /\ ~ GetAuthorizedReceiptOutlet
      \/ tx[r].phase = "waiting" /\ ~ open
      \/ tx[r].phase = "locked" /\ c.op # "CREATE" /\ ~ GetReceiptTemplateForUpdate(c.template)
      \/ tx[r].phase = "decided" /\ c.op # "DELETE" /\ NameTaken(c)

\* Also a cancelled request context, a deadlock or a crash.
Rollback(r) ==
  /\ tx[r].phase # "idle"
  /\ Finish(r)
  /\ UNCHANGED <<template, trail, open, serving>>
Refuse(r) == receiptTemplateError(r) /\ Rollback(r)

\* UpdateOutlet of StaffManagement waits for the outlet; the changes of staff do not.
UpdateOutlet ==
  /\ \A r \in Requests : ~ Holds(r)
  /\ open' = ~ open
  /\ UNCHANGED <<template, trail, serving, tx>>
Staffing == serving' = ~ serving /\ UNCHANGED <<template, trail, open, tx>>

Work(r) ==
  \/ Begin(r) \/ Lock(r) \/ Decide(r) \/ Refuse(r)
  \/ CreateTemplate(r) \/ UpdateTemplate(r) \/ DeleteTemplate(r)

Next ==
  \/ \E r \in Requests : Call(r) \/ Work(r) \/ Rollback(r)
  \/ UpdateOutlet \/ Staffing

Spec == Init /\ [][Next]_vars
----------------------------------------------------------------------------
(***************************************************************************)
(* Properties                                                              *)
(***************************************************************************)
\* The templates that the query of a receipt joins with its order: it reads one row.
GetAuthorizedReceiptOrder == {t \in LiveTemplates : template[t].isDefault}

Default ==
  LET joined == GetAuthorizedReceiptOrder
  IN  IF joined = {} THEN 0 ELSE IF Cardinality(joined) = 1 THEN Min(joined) ELSE -1

\* The requests implement DefaultTemplate: each takes effect at once between its
\* call and its end, while the outlet is open; "mutations are serialized per outlet
\* ... At most one active template can be default; the first template becomes
\* default automatically when no default exists" (mutateTemplate, DeleteTemplate).
Promise ==
  INSTANCE DefaultTemplate WITH
    None <- NoCall,
    name <- [t \in Templates |-> Told(template[t])[1]],
    default <- Default, told <- trail,
    call <- [r \in Requests |-> tx[r].call]

ImplementsDefault == Promise!Spec
============================================================================
