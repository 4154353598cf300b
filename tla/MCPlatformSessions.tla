------------------------- MODULE MCPlatformSessions -------------------------
(***************************************************************************)
(* A small instance of PlatformSessions for TLC.                           *)
(***************************************************************************)
EXTENDS PlatformSessions, TLC

CONSTANTS r1, r2, f1, f2

Symmetry == Permutations({r1, r2}) \cup Permutations({f1, f2})
============================================================================
