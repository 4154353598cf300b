------------------------- MODULE MCStaffManagement -------------------------
(***************************************************************************)
(* Small instances of StaffManagement for TLC.                             *)
(***************************************************************************)
EXTENDS StaffManagement, TLC

CONSTANTS r1, r2, ann, bob, sam, tia, x1, x2, x3, p1, p2

RequestSymmetry == Permutations({r1, r2})
============================================================================
