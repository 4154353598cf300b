-------------------------- MODULE MCTenantSessions --------------------------
(***************************************************************************)
(* Small instances of TenantSessions for TLC.                              *)
(***************************************************************************)
EXTENDS TenantSessions, TLC

CONSTANTS r1, r2, ann, sam, f1, f2, here, nowhere

RequestSymmetry == Permutations({r1, r2})
============================================================================
