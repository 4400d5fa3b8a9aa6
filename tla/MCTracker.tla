----------------------------- MODULE MCTracker -----------------------------
(***************************************************************************)
(* Instances of Tracker for TLC.                                           *)
(***************************************************************************)
EXTENDS Tracker, TLC

CONSTANTS i1, i2, i3, task, bug, todo, done, size, v

Symmetry == Permutations(Items)

NoFields == [f \in {} |-> Keep]

\* A two-status workflow in the manner of StarterTaskType: back and forth.
Plain ==
  [status  |-> todo :> "backlog" @@ done :> "done",
   initial |-> todo,
   moves   |-> << todo, done >> :> {} @@ << done, todo >> :> {},
   field   |-> NoFields]

\* The same workflow with the resolved category on the other status.
Recategorised == [Plain EXCEPT !.status = todo :> "canceled" @@ done :> "active"]

\* Items are born resolved.
Record == [Plain EXCEPT !.initial = done, !.moves = << done, todo >> :> {}]

Size(required, default) == [accepts |-> {v}, required |-> required, default |-> default]

Sized      == [Plain EXCEPT !.field = size :> Size(FALSE, NotHeld)]
Required   == [Plain EXCEPT !.field = size :> Size(TRUE, v)]
\* Closing needs the field.
Estimated  == [Sized EXCEPT !.moves = << todo, done >> :> {size} @@ << done, todo >> :> {}]
\* Definitions Validate refuses.
Rootless   == [Plain EXCEPT !.status = done :> "done"]
Unfit      == [Plain EXCEPT !.field = size :> [accepts |-> {}, required |-> FALSE, default |-> v]]

AllCatalog    == (task :> {Plain, Estimated, Required, Rootless, Unfit}) @@ (bug :> {Record})
RecatCatalog  == task :> {Plain, Recategorised}
=============================================================================
