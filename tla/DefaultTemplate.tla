-------------------------- MODULE DefaultTemplate --------------------------
(***************************************************************************)
(* What the receipt templates of an outlet promise, without transactions   *)
(* or locks: each request takes effect at once, or not at all, between its *)
(* call and its end.  Live templates have names of their own, at most one  *)
(* is the default, the first one becomes it unless its author declines,    *)
(* and when the default is deleted the oldest one left takes its place.    *)
(***************************************************************************)
EXTENDS Integers, FiniteSetsExt

CONSTANTS
  Requests, Calls, None,
  Templates,   \* ids, in the order of creation
  Lower        \* what two names must not have in common

VARIABLES
  name,     \* per template its name, "absent" or "deleted"
  default,  \* the default template, or 0
  told,     \* the last change: of which template, what it replaced, and by what
  open,     \* whether the outlet is open
  call      \* what each request asks for, or None

shelf == <<name, default, told>>

Live == {t \in Templates : name[t] \notin {"absent", "deleted"}}

Shown(t) == <<name[t], default = t>>

Change(t, newName, newDefault) ==
  /\ name' = [name EXCEPT ![t] = newName]
  /\ default' = newDefault
  /\ told' = <<t, Shown(t), <<newName, newDefault = t>> >>

\* The default after a request that asks for it, declines it, or leaves it open.
Settled(c) ==
  CASE c.isDefault = "true" -> c.template
    [] c.isDefault = "false" -> IF default = c.template THEN 0 ELSE default
    [] c.isDefault = "null" -> IF default = 0 THEN c.template ELSE default

Write(c) ==
  /\ \A t \in Live \ {c.template} : Lower[name[t]] # Lower[c.name]
  /\ Change(c.template, c.name, Settled(c))

Oldest(S) == IF S = {} THEN 0 ELSE Min(S)

Delete(t) == Change(t, "deleted", IF default = t THEN Oldest(Live \ {t}) ELSE default)

Effect(c) ==
  /\ open
  /\ \/ c.op = "CREATE" /\ name[c.template] = "absent" /\ Write(c)
     \/ c.op = "UPDATE" /\ c.template \in Live /\ Write(c)
     \/ c.op = "DELETE" /\ c.template \in Live /\ Delete(c.template)

Ask(r) ==
  /\ call[r] = None /\ call'[r] \in Calls
  /\ call' = [call EXCEPT ![r] = call'[r]]
  /\ UNCHANGED <<shelf, open>>

End(r) ==
  /\ call[r] # None
  /\ call' = [call EXCEPT ![r] = None]
  /\ Effect(call[r]) \/ UNCHANGED shelf
  /\ UNCHANGED open

Trade == open' \in BOOLEAN /\ UNCHANGED <<shelf, call>>

Init ==
  /\ name = [t \in Templates |-> "absent"]
  /\ default = 0
  /\ told = <<>>
  /\ open = TRUE
  /\ call = [r \in Requests |-> None]

Next == Trade \/ \E r \in Requests : Ask(r) \/ End(r)

Spec == Init /\ [][Next]_<<shelf, open, call>>
============================================================================
