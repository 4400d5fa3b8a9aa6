------------------------------ MODULE MCOrder ------------------------------
(***************************************************************************)
(* Order on small instances.                                               *)
(*                                                                         *)
(* The passing run has a four-letter alphabet, so that ranks run out of    *)
(* room after a few drags.  The runs with the code's own 26 letters start  *)
(* where six creations and three deletions leave a project: the first six  *)
(* appended ranks are n, t, w, y, z and zn, and the items at n, t and w    *)
(* are gone.                                                               *)
(***************************************************************************)
EXTENDS Order, TLC

CONSTANTS i1, i2, i3

Symmetry == Permutations(Items)

y == 24
z == 25
n == 13

LateInit == rank = (i1 :> <<y>>) @@ (i2 :> <<z>>) @@ (i3 :> <<z, n>>)

LateSpec == LateInit /\ [][OrderNext]_rank
=============================================================================
