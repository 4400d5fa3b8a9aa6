---------------------------- MODULE MCDiscussion ----------------------------
(***************************************************************************)
(* An instance of Discussion for TLC: two items, three comments and two    *)
(* editors.                                                                *)
(***************************************************************************)
EXTENDS Discussion, TLC

CONSTANTS i1, i2, m1, m2, m3, e1, e2, t1, t2

Symmetry ==
  Permutations(Items) \cup Permutations(Comments) \cup Permutations(Editors) \cup Permutations(Texts)
=============================================================================
