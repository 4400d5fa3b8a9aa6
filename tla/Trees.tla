------------------------------- MODULE Trees -------------------------------
(***************************************************************************)
(* Parent links and the walks over them.  A forest is a function `up` from *)
(* each node to the node above it; a value outside its domain is a root's  *)
(* "no parent".                                                            *)
(*                                                                         *)
(* The store walks: up with ancestorsOf, a loop that stops when it revisits*)
(* an item, and down with unresolvedBelow, a recursion over childrenOf     *)
(* (src/services/api/internal/tracker/store/enforce.go).  What either walk *)
(* visits is the least set closed under the links it follows, which is how *)
(* they are defined here: no recursion, so the theorems can use them.      *)
(***************************************************************************)

\* Following a link never leaves S.
UpClosed(up, S) == \A j \in S : up[j] \in DOMAIN up => up[j] \in S

\* ancestorsOf: what the walk up from i visits, i itself included.
AncestorsOf(up, i) ==
  {j \in DOMAIN up :
     /\ i \in DOMAIN up
     /\ \A S \in SUBSET DOMAIN up : i \in S /\ UpClosed(up, S) => j \in S}

\* What lies beneath i, at any depth: the items whose walk up from their
\* parent meets i.
Below(up, i) ==
  {j \in DOMAIN up : up[j] \in DOMAIN up /\ i \in AncestorsOf(up, up[j])}

Acyclic(up) ==
  \A i \in DOMAIN up : up[i] \in DOMAIN up => i \notin AncestorsOf(up, up[i])
=============================================================================
