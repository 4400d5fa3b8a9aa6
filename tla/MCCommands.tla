----------------------------- MODULE MCCommands -----------------------------
(***************************************************************************)
(* An instance of Commands for TLC: one client and two commands, over two  *)
(* sockets, one of them possibly sent twice.  "a" and "a.json/b" compete   *)
(* for a path; a removal meets a write; a creation meets an edit, another  *)
(* creation, and a second call for what it was to create.                  *)
(***************************************************************************)
EXTENDS Commands, TLC

CONSTANTS p, q, a, ab, d, s1, s2

Keyed  == [keyed |-> TRUE, by |-> "other", wish |-> 1]
TheSet == [kind |-> "set", key |-> a, doc |-> d]
TheOtherSet == [TheSet EXCEPT !.key = ab]
TheDelete   == [kind |-> "delete", key |-> a]
TheCreate   == [kind |-> "create"]
TheUpdate   == [kind |-> "update", expected |-> 1]

\* Two commands for two wishes, of a client that keeps its keys.
Pairs ==
  {<< TheOtherSet @@ Keyed, TheDelete @@ Keyed >>, << TheSet @@ Keyed, TheDelete @@ Keyed >>,
   << TheCreate @@ Keyed, TheUpdate @@ Keyed >>, << TheCreate @@ Keyed, TheCreate @@ Keyed >>,
   << TheOtherSet @@ Keyed, TheSet @@ [Keyed EXCEPT !.keyed = FALSE] >>}

Plan(first, second) == (p :> first) @@ (q :> second)

\* Two calls of a page for one wish.
Twice == LET call == TheCreate @@ [Keyed EXCEPT !.by = "page"] IN Plan(call, call)

ThePlans == {Plan(pair[1], [pair[2] EXCEPT !.wish = 2]) : pair \in Pairs} \cup {Twice}

OnePath == {<< a, ab >>}

Symmetry == Permutations(Sockets)
=============================================================================
