---------------------------- MODULE OrderHistory ----------------------------
(***************************************************************************)
(* What OrderCatalog.StatusHistory shows of the rows that OrderLedger      *)
(* keeps: they are read in the order of (changed_at, id), and changed_at   *)
(* is the now() of the transaction that wrote the row, fixed when it began *)
(* and not when it was granted the order row.                              *)
(***************************************************************************)
EXTENDS OrderLedger
LOCAL INSTANCE SequencesExt

\* ListOrderStatusHistory: ORDER BY changed_at, id.
StatusHistory(o) ==
  LET h == history[o]
      Before(i, j) == h[i].at < h[j].at \/ (h[i].at = h[j].at /\ i < j)
      ids == SetToSortSeq(DOMAIN h, Before)
  IN  [i \in DOMAIN ids |-> h[ids[i]]]

\* The listing is the path the order took, first event first: what the API
\* documentation calls chronological (StatusHistory).
ListedInOrder == \A o \in Orders : IsPath(StatusHistory(o))
============================================================================
