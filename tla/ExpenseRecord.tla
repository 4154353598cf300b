--------------------------- MODULE ExpenseRecord ---------------------------
(***************************************************************************)
(* What the expenses of a business promise, without transactions or locks: *)
(* an expense is entered once for an outlet and amended, each time by a    *)
(* user in service who answers for the outlet, while the outlet is open,   *)
(* under a category in use; an amendment replaces exactly the record that  *)
(* its author had read, and the last audit row tells what replaced what,   *)
(* also of a category that is amended.                                     *)
(***************************************************************************)
EXTENDS Integers

CONSTANTS Users, Admins, Outlets, Expenses, Categories, Amounts, Unused

VARIABLES
  record,    \* per expense: outlet, category and amount, or Nothing
  read,      \* per user and expense, the record as the user last read it
  told,      \* per expense and category, the values of the last audit row about it
  heading,   \* per category its name and whether it is active, or Unused
  active, assigned, open

vars == <<record, read, told, heading, active, assigned, open>>

inUse == {k \in Categories : heading[k].active}

Nothing == [amount |-> 0]

Answers(u, x) ==
  u \in active /\ x \in open /\ (u \in Admins \/ <<u, x>> \in assigned)

\* A record of the outlet, under a category in use, takes the place of what was
\* there, and of nothing else.
Write(e, outlet) ==
  /\ record'[e] # Nothing
  /\ record'[e].outlet = outlet /\ record'[e].category \in inUse /\ record'[e].amount \in Amounts
  /\ record' = [record EXCEPT ![e] = record'[e]]
  /\ told' = [told EXCEPT ![e] = <<record[e], record'[e]>>]
  /\ UNCHANGED <<read, heading, active, assigned, open>>

Enter(u, e) ==
  /\ record[e] = Nothing
  /\ \E x \in Outlets : Answers(u, x) /\ Write(e, x)

Amend(u, e) ==
  /\ record[e] # Nothing
  /\ read[u][e] = record[e]
  /\ Answers(u, record[e].outlet)
  /\ Write(e, record[e].outlet)

\* Whoever reads an expense answers for its outlet.
Read(u, e) ==
  /\ record[e] # Nothing
  /\ record[e].outlet \in open /\ (u \in Admins \/ <<u, record[e].outlet>> \in assigned)
  /\ read' = [read EXCEPT ![u][e] = record[e]]
  /\ UNCHANGED <<record, told, heading, active, assigned, open>>

\* A category is entered, or amended, once at a time.
Classify(k) ==
  /\ heading'[k] # Unused
  /\ heading' = [heading EXCEPT ![k] = heading'[k]]
  /\ told' = [told EXCEPT ![k] = <<heading[k], heading'[k]>>]
  /\ UNCHANGED <<record, read, active, assigned, open>>

Staffing ==
  /\ active' \subseteq Users /\ assigned' \subseteq Users \X Outlets
  /\ open' \subseteq Outlets
  /\ UNCHANGED <<record, read, told, heading>>

Init ==
  /\ record = [e \in Expenses |-> Nothing]
  /\ read = [u \in Users |-> [e \in Expenses |-> Nothing]]
  /\ told = [e \in Expenses \cup Categories |->
               IF e \in Expenses THEN <<Nothing, Nothing>> ELSE <<Unused, Unused>>]
  /\ heading = [k \in Categories |-> Unused]

Next ==
  \/ \E u \in Users, e \in Expenses : Enter(u, e) \/ Amend(u, e) \/ Read(u, e)
  \/ \E k \in Categories : Classify(k)
  \/ Staffing

Spec == Init /\ [][Next]_vars
============================================================================
