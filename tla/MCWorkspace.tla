---------------------------- MODULE MCWorkspace ----------------------------
(***************************************************************************)
(* An instance of Scopes for TLC: two projects, two callers, two roots     *)
(* that are directories before any project claims them.                   *)
(***************************************************************************)
EXTENDS Scopes, TLC

CONSTANTS p1, p2, n1, n2, r1, r2, c1, c2, starter

Symmetry ==
  Permutations(Projects) \cup Permutations(Names) \cup Permutations(Roots) \cup Permutations(Callers)
=============================================================================
