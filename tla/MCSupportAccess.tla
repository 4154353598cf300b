-------------------------- MODULE MCSupportAccess --------------------------
(***************************************************************************)
(* A small instance of SupportAccess for TLC.                              *)
(***************************************************************************)
EXTENDS SupportAccess, TLC

CONSTANTS r1, r2, c1, c2, f1, f2, t1, t2

RequestSymmetry == Permutations({r1, r2}) \cup Permutations({f1, f2})
============================================================================
