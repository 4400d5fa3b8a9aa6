------------------------------- MODULE Order -------------------------------
(***************************************************************************)
(* The order of a project's items: every item holds a rank, creation       *)
(* appends, and a drag re-ranks one item between two neighbours            *)
(* (src/services/api/internal/tracker/store: item.go, reorder.go).         *)
(*                                                                         *)
(* Each operation runs under the store's one write lock, so it is a single *)
(* step here.  Nothing but the rank of an item matters to its place.       *)
(***************************************************************************)
EXTENDS Ranks, FiniteSets

CONSTANTS
  Items,    \* item identifiers
  Nobody,   \* the nil neighbour of a Reorder
  MaxLen    \* bound of the model: ranks longer than this are not explored

ASSUME ItemsAssumption == IsFiniteSet(Items) /\ Nobody \notin Items

VARIABLE rank   \* the rank each item holds; NoRank for an item not stored

Stored == {i \in Items : rank[i] # NoRank}

\* rankOf: a nil neighbour is an open end.
RankOf(i) == IF i = Nobody THEN Open ELSE rank[i]

----------------------------------------------------------------------------
\* A fault for the checks: lastRank compares the wrong way round.
FaultyLastRank ==
  LET held == {rank[i] : i \in Stored}
  IN  IF held = {} THEN Open ELSE CHOOSE r \in held : \A q \in held : ~Less(q, r)

\* lastRank: the greatest rank held, or the empty one in an empty project.
LastRank ==
  LET held == {rank[i] : i \in Stored} \cup {Open}
  IN  CHOOSE r \in held : \A q \in held : ~Less(r, q)

\* A fault for the checks: the two neighbours swapped on their way to Between.
FaultyDropRank(after, before) == Between(RankOf(before), RankOf(after))

DropRank(after, before) == Between(RankOf(after), RankOf(before))

----------------------------------------------------------------------------
OrderInit == rank = [i \in Items |-> NoRank]

CreateItem(i) ==
  /\ i \notin Stored
  /\ Len(Between(LastRank, Open)) <= MaxLen
  /\ rank' = [rank EXCEPT ![i] = Between(LastRank, Open)]

\* The neighbours are whichever two the caller names, the item itself
\* included; Between refuses those it finds out of order.
Reorder(i, after, before) ==
  /\ i \in Stored
  /\ {after, before} \subseteq Stored \cup {Nobody}
  /\ DropRank(after, before) # NoRank
  /\ Len(DropRank(after, before)) <= MaxLen
  /\ rank' = [rank EXCEPT ![i] = DropRank(after, before)]

DeleteItem(i) ==
  /\ i \in Stored
  /\ rank' = [rank EXCEPT ![i] = NoRank]

OrderNext ==
  \/ \E i \in Items : CreateItem(i)
  \/ \E i \in Items, after, before \in Items \cup {Nobody} : Reorder(i, after, before)
  \/ \E i \in Items : DeleteItem(i)

OrderSpec == OrderInit /\ [][OrderNext]_rank

----------------------------------------------------------------------------
(***************************************************************************)
(* Every rank held is a non-empty string over the alphabet: no operation   *)
(* stores the empty rank, which Between reads as an open end.              *)
(***************************************************************************)
OrderTypeOK == rank \in [Items -> (Ranks \ {Open}) \cup {NoRank}]

(***************************************************************************)
(* A new item sorts after every item already there, whatever sequence of   *)
(* creations, drags and deletions came before it (CreateItem, item.go).    *)
(***************************************************************************)
CreateGoesLast ==
  [][\A i \in Items : i \notin Stored /\ i \in Stored' =>
       \A j \in Stored : Less(rank[j], rank'[i])]_rank

\* Whether item i has landed where the caller of Reorder named.
Lands(i, after, before) ==
  /\ after \in Stored => Less(rank[after], rank'[i])
  /\ before \in Stored => Less(rank'[i], rank[before])

(***************************************************************************)
(* A drag lands strictly between the neighbours it names whenever their    *)
(* ranks leave room where they first differ and the upper one is a rank    *)
(* Validate accepts (Reorder, reorder.go).                                 *)
(***************************************************************************)
RoomyDropLands ==
  [][\A i \in Items, after, before \in Items \cup {Nobody} :
       /\ Reorder(i, after, before)
       /\ Roomy(RankOf(after), RankOf(before))
       /\ before = Nobody \/ ValidRank(rank[before])
       => Lands(i, after, before)]_rank

\* A drag as the board sends it: between two items with nothing between them
\* but, perhaps, the item that moves.
Neighbours(i, after, before) ==
  /\ i \notin {after, before}
  /\ \A j \in Stored \ {i, after, before} :
       ~Less(rank[after], rank[j]) \/ ~Less(rank[j], rank[before])

(***************************************************************************)
(* What rank.go says of Between without the proviso: it "mints a rank that *)
(* sorts after prev and before next".  So a drag between two neighbours,   *)
(* once accepted, lands between them.                                      *)
(***************************************************************************)
DropLands ==
  [][\A i, after, before \in Items :
       Reorder(i, after, before) /\ Neighbours(i, after, before)
         => Lands(i, after, before)]_rank
=============================================================================
