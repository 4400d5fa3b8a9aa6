----------------------------- MODULE MCListing -----------------------------
(***************************************************************************)
(* An instance of Listing for TLC: three items, one under another, and two *)
(* comments written in the same instant, one event already lost, read row  *)
(* by row.                                                                 *)
(***************************************************************************)
EXTENDS Listing, TLC

Task == [task |-> [todo |-> "backlog", done |-> "done"]]

Todo == [task |-> "todo"]

Edits ==
  [status : {"todo", "done"}] \cup [parent : {2, Nobody}] \cup {[title |-> 2], [size |-> 1]}

It(status, parent, title, rank) ==
  [type |-> "task", status |-> status, parent |-> parent, title |-> title, size |-> NotHeld,
   rank |-> rank, created |-> 0, updated |-> 0]

Said(n, i, kind) == [seq |-> n, item |-> i, kind |-> kind, changes |-> Untouched]

Board ==
  [items    |-> << It("todo", Nobody, 1, 1), It("todo", 1, 1, 2), Unborn >>,
   comments |-> << [item |-> 2, created |-> 0], [item |-> 2, created |-> 0], Unborn >>,
   now      |-> 0,
   feed     |-> << Said(1, 1, "item_created"), Said(2, 2, "item_created"),
                   Said(3, 2, "comment_added"), Said(5, 2, "comment_added") >>,
   seq      |-> 5]

\* Each criterion and each sort once, and two queries that are refused.
Asked ==
  {[of |-> "items", by |-> "created", desc |-> FALSE],
   [of |-> "items", by |-> "updated", desc |-> TRUE, types |-> {"task"}, roots |-> TRUE],
   [of |-> "items", by |-> "title", desc |-> TRUE, statuses |-> {"todo"}, updatedSince |-> 0],
   [of |-> "items", by |-> "rank", desc |-> FALSE, parent |-> 1, fields |-> [size |-> 1]],
   [of |-> "items", by |-> "updated", desc |-> FALSE, subtree |-> 1, categories |-> {"backlog"}],
   [of |-> "items", by |-> "size", desc |-> FALSE],
   [of |-> "items", by |-> "rank", desc |-> FALSE, categories |-> {"open"}],
   [of |-> "comments", item |-> 2],
   [of |-> "events"],
   [of |-> "events", item |-> 2, kinds |-> {"comment_added", "status_changed"}]}
=============================================================================
