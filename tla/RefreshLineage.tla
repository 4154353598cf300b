--------------------------- MODULE RefreshLineage ---------------------------
(***************************************************************************)
(* What rotating refresh tokens promise, without transactions and locks: a *)
(* family opens with one unused token, replaces it by the next each time   *)
(* it is used, and once revoked never changes again.                       *)
(***************************************************************************)
EXTENDS Integers

CONSTANT Families

VARIABLE lineage  \* per family: its state and its tokens that were not used

Blank == [state |-> "none", unused |-> {}]

Open(f) ==
  /\ lineage[f] = Blank
  /\ lineage' = [lineage EXCEPT ![f] = [state |-> "live", unused |-> {1}]]

Rotate(f) ==
  /\ lineage[f].state = "live"
  /\ \E n \in lineage[f].unused : lineage' = [lineage EXCEPT ![f].unused = (@ \ {n}) \cup {n + 1}]

\* A family is revoked alone, or with all the others of a business.
Revoke(families) ==
  /\ families # {} /\ \A f \in families : lineage[f].state = "live"
  /\ lineage' = [f \in Families |->
                  IF f \in families THEN [lineage[f] EXCEPT !.state = "revoked"] ELSE lineage[f]]

Init == lineage = [f \in Families |-> Blank]

Next ==
  \/ \E f \in Families : Open(f) \/ Rotate(f)
  \/ \E families \in SUBSET Families : Revoke(families)

Spec == Init /\ [][Next]_lineage
============================================================================
