---------------------------- MODULE LiveCatalog ----------------------------
(***************************************************************************)
(* What a catalog of the owner promises, without transactions, locks or    *)
(* indexes: entries are added, changed and removed in single steps, no two *)
(* live entries have the same key, what was removed never comes back, and  *)
(* the last audit row about an entry tells its last change, as far as its  *)
(* values may be told.                                                     *)
(***************************************************************************)
CONSTANTS
  Entries, Contents,
  Absent, Removed,  \* what there is instead of a content before and after
  Key(_, _),        \* the key of an entry with a content
  Told(_, _)        \* what an audit row tells of it

VARIABLES
  shelf,  \* per entry its content, Absent or Removed
  told    \* per entry what its last change replaced, and by what

Live(e) == shelf[e] \in Contents

\* The entry gets a content whose key no other live entry has.
Write(e) ==
  /\ shelf'[e] \in Contents
  /\ \A f \in Entries \ {e} : Live(f) => Key(f, shelf[f]) # Key(e, shelf'[e])

\* Nothing else changes, and the audit row tells it.
Only(e) ==
  /\ shelf' = [shelf EXCEPT ![e] = shelf'[e]]
  /\ told' = [told EXCEPT ![e] = <<Told(e, shelf[e]), Told(e, shelf'[e])>>]

Init ==
  /\ shelf = [e \in Entries |-> Absent]
  /\ told = [e \in Entries |-> <<Absent, Absent>>]

Add(e) == shelf[e] = Absent /\ Write(e) /\ Only(e)
Change(e) == Live(e) /\ Write(e) /\ Only(e)
Remove(e) == Live(e) /\ shelf'[e] = Removed /\ Only(e)

Next == \E e \in Entries : Add(e) \/ Change(e) \/ Remove(e)

Spec == Init /\ [][Next]_<<shelf, told>>
============================================================================
