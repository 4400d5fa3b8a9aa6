-------------------------------- MODULE Feed --------------------------------
(***************************************************************************)
(* The activity feed: what each change of the store says of itself         *)
(* (src/services/api/internal/tracker/store/event.go; tracker/event.go).   *)
(*                                                                         *)
(* An append to the file of the feed can fail; the change stands and the   *)
(* event is swallowed.  How that happens, and restarts, are in Persistence:*)
(* here an event is either recorded or lost.  Identifiers, times and actors*)
(* of events are left out.                                                 *)
(***************************************************************************)
EXTENDS Integers, Sequences

CONSTANTS
  Items,     \* item identifiers
  Parts,     \* what of an item is content: title, body, custom fields
  MaxSeq,    \* bound of the model: events minted
  MaxLost    \* bound of the model: events swallowed

ASSUME FeedAssumption == MaxSeq \in Nat /\ MaxLost \in Nat

VARIABLES
  feed,      \* the events recorded, in the order they were appended
  seq,       \* the number of the last event minted
  untold     \* the items of which some event was swallowed

log == << feed, seq, untold >>

FeedInit == feed = << >> /\ seq = 0 /\ untold = {}

\* The ways in which some of n events are recorded: positions, in order.
Kept(n) ==
  {kept \in UNION {[1..m -> 1..n] : m \in 0..n} : \A a, b \in DOMAIN kept : a < b => kept[a] < kept[b]}

(***************************************************************************)
(* emit.  `news` are the events of one operation in their order; `kept`    *)
(* is what of them reaches the file, and the rest is lost.                 *)
(***************************************************************************)
Emit(news) ==
  /\ seq + Len(news) <= MaxSeq
  /\ \E kept \in Kept(Len(news)) :
       LET lost == DOMAIN news \ {kept[a] : a \in DOMAIN kept}
       IN  /\ lost = {} \/ seq - Len(feed) < MaxLost
           /\ feed' = feed \o [a \in DOMAIN kept |->
                [item |-> news[kept[a]].item, kind |-> news[kept[a]].kind,
                 changes |-> news[kept[a]].changes, seq |-> seq + kept[a]]]
           /\ untold' = untold \cup {news[n].item : n \in lost}
  /\ seq' = seq + Len(news)

Untouched == [k \in {} |-> {}]

\* An event without changes.
Event(i, kind) == << [item |-> i, kind |-> kind, changes |-> Untouched] >>

\* The changes from before to after of the keys in K: what differs, with both
\* values.
Diff(before, after, K) ==
  [k \in {k \in K : before[k] # after[k]} |-> [from |-> before[k], to |-> after[k]]]

Changed(i, kind, changes) ==
  IF DOMAIN changes = {} THEN << >> ELSE << [item |-> i, kind |-> kind, changes |-> changes] >>

\* A fault for the checks: one event at most, the first that applies.
FaultyEmitChanges(i, before, after) ==
  LET status == Changed(i, "status_changed", Diff(before, after, {"status"}))
      parent == Changed(i, "parent_changed", Diff(before, after, {"parent"}))
  IN  CASE status # << >> -> status
        [] parent # << >> -> parent
        [] OTHER -> Changed(i, "item_updated", Diff(before, after, Parts))

\* emitChanges: a status and a parent are told by events of their own.
EmitChanges(i, before, after) ==
  Changed(i, "status_changed", Diff(before, after, {"status"}))
    \o Changed(i, "parent_changed", Diff(before, after, {"parent"}))
    \o Changed(i, "item_updated", Diff(before, after, Parts))

=============================================================================
