--------------------------- MODULE MCOrderLedger ---------------------------
(***************************************************************************)
(* Small instances of OrderLedger and OrderHistory for TLC.                *)
(***************************************************************************)
EXTENDS OrderHistory, TLC

CONSTANTS r1, r2, o1, o2, adm, staff, x1, x2, k1, k2

OneOutlet == [o \in Orders |-> x1]
OutletEach == [o \in Orders |-> IF o = o1 THEN x1 ELSE x2]

RequestSymmetry == Permutations({r1, r2})
RequestAndKeySymmetry == Permutations({r1, r2}) \cup Permutations({k1, k2})
============================================================================
