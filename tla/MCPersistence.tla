--------------------------- MODULE MCPersistence ---------------------------
(***************************************************************************)
(* Instances of Persistence for TLC: two entities, so that a half-applied  *)
(* write of one would show beside the other.                               *)
(***************************************************************************)
EXTENDS Persistence

CONSTANTS k1, k2, a
=============================================================================
