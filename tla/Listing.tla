------------------------------ MODULE Listing ------------------------------
(***************************************************************************)
(* Reading what the tracker stores, page after page, while it is written:  *)
(* FindItems with its criteria and sort, the comments of an item, and the  *)
(* activity feed (src/services/api/internal/tracker/store: find.go,        *)
(* page.go, tree.go, comment.go, event.go; tracker/query.go and            *)
(* trackerhttp/query.go).                                                  *)
(*                                                                         *)
(* Every page is a read of its own: the rows are selected and sorted anew, *)
(* out of maps whose order is random, and the cursor is applied to them.   *)
(* Between two pages anybody writes.  What the schema and the versions     *)
(* allow a writer is in Tracker; here any write that keeps the tree a tree *)
(* is made.  An identifier is a number, as all that is asked of one is how *)
(* it compares; so are titles, ranks and times.                            *)
(***************************************************************************)
EXTENDS Feed, Pages, Trees, SequencesExt, FiniteSetsExt

CONSTANTS
  Category,   \* the schema: Category[type][status]
  Initial,    \* and the status an item of a type is created with
  Titles,     \* what an item may be called
  Patches,    \* what an update may be asked to change
  NotHeld,    \* the custom field of an item without a value
  Ranks,      \* the places an item can be put
  Comments,   \* comment identifiers
  Nobody,     \* the nil parent
  Found,      \* what is stored when the reader comes
  Queries,    \* what a reader may ask for
  MaxWrites   \* bound of the model: writes while the reader reads

Statuses(type) == DOMAIN Category[type]
Categories     == {"backlog", "active", "blocked", "done", "canceled"}
Unresolved     == Categories \ {"done", "canceled"}
SortKeys       == {"created", "updated", "title", "rank"}

VARIABLES
  items, comments,
  now,        \* the clock
  writes,     \* counts the writes
  query,      \* what the reader asks for
  since,      \* of the feed: the number it resumed from
  cursor,     \* the page it asks for next
  done,       \* whether it has had the last page
  seen,       \* the rows it was given, in order
  handled,    \* of the feed: every number it was ever given
  stayed,     \* rows that are in the listing ever since the reading began
  lower,      \* those that came to have fewer rows ahead
  higher      \* those that came to have more

store  == << items, comments, now, writes, log >>
reader == << query, since, cursor, done, seen, handled >>
places == << stayed, lower, higher >>
vars   == << store, reader, places >>

\* What stands for an identifier not yet minted, and for one that was deleted.
Unborn == [absent |-> "unborn"]
Gone   == [absent |-> "deleted"]

Live(x) == x \notin {Unborn, Gone}

\* What every item holds, next to the custom fields of its type.
Columns == {"type", "status", "parent", "title", "rank", "created", "updated"}

\* An item as the store holds it among others, its, at a time: of a type and a
\* status it knows, beneath what is there, not written in the future.
Fits(it, its, time) ==
  /\ Columns \subseteq DOMAIN it
  /\ it.type \in DOMAIN Category /\ it.status \in Statuses(it.type)
  /\ it.parent = Nobody \/ (it.parent \in Items /\ Live(its[it.parent]))
  /\ {it.title, it.rank} \subseteq Int /\ {it.created, it.updated} \subseteq Nat
  /\ it.created <= it.updated /\ it.updated <= time

Consistent(its, said, time) ==
  /\ DOMAIN its = Items /\ DOMAIN said = Comments /\ time \in Nat
  /\ \A i \in Items : Live(its[i]) => Fits(its[i], its, time)
  /\ \A c \in Comments : Live(said[c]) => said[c].created \in 0..time

\* A feed of which the last event minted was the n-th: later events have
\* greater numbers; where one was lost a number is missing.
Numbered(events, n) ==
  /\ n \in Nat /\ events \in Seq(ToSet(events))
  /\ \A a \in DOMAIN events : events[a].seq \in 1..n
  /\ \A a, b \in DOMAIN events : a < b => events[a].seq < events[b].seq

\* Parent pointers of what is there, as the walks of Trees take them.
UpOf(its) == [i \in {i \in Items : Live(its[i])} |-> its[i].parent]

(***************************************************************************)
(* Items and comments are finitely many and known by numbers, a new item   *)
(* has a status of its type, a query is of one of three kinds, an update   *)
(* leaves alone what the store writes itself, and the store the reader     *)
(* comes to is one that was written so.                                    *)
(***************************************************************************)
ASSUME ListingAssumption ==
  /\ IsFiniteSet(Items) /\ IsFiniteSet(Comments) /\ Items \cup Comments \subseteq Nat
  /\ Nobody \notin Items /\ Titles \cup Ranks \subseteq Int
  /\ \A type \in DOMAIN Category : Initial[type] \in Statuses(type)
  /\ \A patch \in Patches :
       /\ DOMAIN patch \cap {"type", "rank", "created", "updated"} = {}
       /\ "title" \in DOMAIN patch => patch.title \in Titles
  /\ \A q \in Queries :
       \/ q.of = "items" /\ q.desc \in BOOLEAN
       \/ q.of = "comments" /\ q.item \in Items
       \/ q.of = "events"
  /\ Consistent(Found.items, Found.comments, Found.now) /\ Acyclic(UpOf(Found.items))
  /\ Numbered(Found.feed, Found.seq)

Stored == {i \in Items : Live(items[i])}

Up == UpOf(items)

----------------------------------------------------------------------------
(* What a query selects *)

\* A fault for the checks: the walk begins above the parent.
FaultyIsBelow(i, root) ==
  /\ i # root /\ Up[i] \in Stored /\ Up[Up[i]] \in Stored
  /\ root \in AncestorsOf(Up, Up[Up[i]])

IsBelow(i, root) == i # root /\ Up[i] \in Stored /\ root \in AncestorsOf(Up, Up[i])

CategoryOf(it) == Category[it.type][it.status]

\* matches: every criterion the query has holds; an item that does not hold a
\* field matches no value of it.
Matches(q, i) ==
  LET it     == items[i]
      Has(c) == c \in DOMAIN q
  IN  /\ Has("types") => it.type \in q.types
      /\ Has("statuses") => it.status \in q.statuses
      /\ Has("categories") => CategoryOf(it) \in q.categories
      /\ Has("roots") => it.parent = Nobody
      /\ Has("parent") => it.parent = q.parent
      /\ Has("updatedSince") => it.updated >= q.updatedSince
      /\ Has("subtree") => IsBelow(i, q.subtree)
      /\ Has("fields") => \A f \in DOMAIN q.fields : it[f] # NotHeld /\ it[f] = q.fields[f]

\* The members of a finite set of numbers, in ascending order.
Ascending(S) ==
  [k \in 1..Cardinality(S) |-> CHOOSE n \in S : Cardinality({m \in S : m < n}) = k - 1]

Selects(q, e) ==
  /\ "item" \in DOMAIN q => e.item = q.item
  /\ "kinds" \in DOMAIN q => e.kind \in q.kinds

\* A fault for the checks: resuming at the number handled, not after it.
FaultySelected(q, from) == {n \in DOMAIN feed : feed[n].seq >= from /\ Selects(q, feed[n])}

Selected(q, from) == {n \in DOMAIN feed : feed[n].seq > from /\ Selects(q, feed[n])}

\* Events: the numbers of those recorded after the one resumed from that the
\* query selects, as the feed has them.
Events(q, from) ==
  LET at == Ascending(Selected(q, from)) IN [k \in DOMAIN at |-> feed[at[k]].seq]

Rows(q) ==
  CASE q.of = "items"    -> {i \in Stored : Matches(q, i)}
    [] q.of = "comments" -> {c \in Comments : Live(comments[c]) /\ comments[c].item = q.item}
    [] q.of = "events"   -> {feed[n].seq : n \in Selected(q, since)}

\* compareBy
Key(q, r) == IF q.of = "items" THEN items[r][q.by] ELSE comments[r].created

\* A fault for the checks: rows that tie stay as the map gave them.
FaultyBefore(q, r, s) ==
  CASE q.of = "events"   -> r < s
    [] q.of = "comments" -> Key(q, r) < Key(q, s)
    [] q.of = "items"    -> IF q.desc THEN Key(q, r) > Key(q, s) ELSE Key(q, r) < Key(q, s)

\* sortItems, and the sort of Comments: the identifier breaks every tie, also
\* of a descending order.
Before(q, r, s) ==
  CASE q.of = "events" -> r < s
    [] Key(q, r) = Key(q, s) -> r < s
    [] OTHER -> (Key(q, r) < Key(q, s)) <=> ~(q.of = "items" /\ q.desc)

\* The orders a stable sort of the rows, taken from a map, can come to; the
\* feed is in order already.
Sorted(q) ==
  IF q.of = "events" THEN {Events(q, since)} ELSE
  {s \in SetToSeqs(Rows(q)) : \A m, n \in DOMAIN s : m < n => ~Before(q, s[n], s[m])}

\* unresolvedBelow walks down: the children, each with what is below it.
Children(i) == {j \in Stored : items[j].parent = i}

Open(i) == IF CategoryOf(items[i]) \in Unresolved THEN 1 ELSE 0

\* What children come to, if each has so many unresolved below it.
OpenAmong(children, below) == MapThenSumSet(LAMBDA j : Open(j) + below[j], children)

UnresolvedDescendants(id) ==
  LET below[i \in Stored] == OpenAmong(Children(i), below) IN below[id]

----------------------------------------------------------------------------
(* The reader *)

\* parseQuery refuses a category or a sort it does not know.
ParseQuery(q) ==
  /\ "categories" \in DOMAIN q => q.categories \subseteq Categories
  /\ q.of = "items" => q.by \in SortKeys

\* Comments needs the item it is asked about.
Answered(q) == q.of = "comments" => Live(items[q.item])

Init ==
  /\ items = Found.items /\ comments = Found.comments /\ now = Found.now /\ writes = 0
  /\ feed = Found.feed /\ seq = Found.seq /\ untold = {}
  /\ query \in {q \in Queries : ParseQuery(q)}
  /\ since = 0 /\ cursor = 0 /\ done = FALSE /\ seen = << >> /\ handled = << >>
  /\ stayed = Rows(query) /\ lower = {} /\ higher = {}

\* FindItems, Comments, Events
ReadPage ==
  /\ ~done /\ Answered(query)
  /\ \E rows \in Sorted(query) :
       LET page == Paginate(rows, cursor)
       IN  /\ seen' = seen \o page.rows
           /\ handled' = IF query.of = "events" THEN handled \o page.rows ELSE handled
           /\ cursor' = page.next /\ done' = (page.next = 0)
  /\ UNCHANGED << store, query, since, places >>

\* An incremental reader of the feed asks for everything after the last number
\* it handled, when it came to the end or before that.
Resume ==
  /\ query.of = "events" /\ handled # << >>
  /\ UNCHANGED << store, query, handled >>
  /\ since' = Last(handled)
  /\ cursor' = 0 /\ done' = FALSE /\ seen' = << >>
  /\ stayed' = Rows(query)' /\ lower' = {} /\ higher' = {}

----------------------------------------------------------------------------
(* The writers *)

Ahead(r) == Cardinality({s \in Rows(query) : Before(query, s, r)})

\* What a write does to the listing the reader is in.
Track ==
  /\ writes' = writes + 1
  /\ UNCHANGED reader
  /\ stayed' = stayed \cap Rows(query)'
  /\ lower'  = lower \cup {r \in stayed' : Ahead(r)' < Ahead(r)}
  /\ higher' = higher \cup {r \in stayed' : Ahead(r)' > Ahead(r)}

\* The clock: two writes may share an instant.
Clock == now' \in {now, now + 1}

Attach(i, parent) ==
  parent = Nobody \/ (parent \in Stored /\ (i \in Stored => parent # i /\ i \notin AncestorsOf(Up, parent)))

CreateItem(i, type, parent, title) ==
  /\ items[i] = Unborn
  /\ Attach(i, parent)
  /\ Clock
  /\ items' = [items EXCEPT ![i] =
       [type |-> type, status |-> Initial[type], parent |-> parent, title |-> title, size |-> NotHeld,
        rank |-> Max({0} \cup {items[j].rank : j \in Stored}) + 1, created |-> now', updated |-> now']]
  /\ Emit(Event(i, "item_created"))
  /\ UNCHANGED comments /\ Track

\* applyPatch, with the time of the update.
Patched(it, patch, time) ==
  [k \in DOMAIN it |-> IF k \in DOMAIN patch THEN patch[k]
                       ELSE IF k = "updated" THEN time ELSE it[k]]

UpdateItem(i, patch) ==
  /\ Live(items[i])
  /\ "status" \in DOMAIN patch => patch.status \in Statuses(items[i].type)
  /\ "parent" \in DOMAIN patch => Attach(i, patch.parent)
  /\ Clock
  /\ items' = [items EXCEPT ![i] = Patched(@, patch, now')]
  /\ Emit(EmitChanges(i, items[i], items'[i]))
  /\ UNCHANGED comments /\ Track

\* Only the rank is written, not the time of the update.
Reorder(i, rank) ==
  /\ Live(items[i])
  /\ items' = [items EXCEPT ![i].rank = rank]
  /\ Emit(Event(i, "item_reordered"))
  /\ UNCHANGED << comments, now >> /\ Track

DeleteItem(i) ==
  /\ Live(items[i]) /\ \A j \in Stored : items[j].parent # i
  /\ items' = [items EXCEPT ![i] = Gone]
  /\ Emit(Event(i, "item_deleted"))
  /\ UNCHANGED << comments, now >> /\ Track

AddComment(c, i) ==
  /\ comments[c] = Unborn /\ Live(items[i])
  /\ Clock
  /\ comments' = [comments EXCEPT ![c] = [item |-> i, created |-> now']]
  /\ Emit(Event(i, "comment_added"))
  /\ UNCHANGED items /\ Track

DeleteComment(c) ==
  /\ Live(comments[c])
  /\ comments' = [comments EXCEPT ![c] = Gone]
  /\ Emit(Event(comments[c].item, "comment_deleted"))
  /\ UNCHANGED << items, now >> /\ Track

\* Any writer, in its one step under the store's lock.
Write ==
  \/ \E i \in Items :
       \/ \E type \in DOMAIN Category, parent \in Items \cup {Nobody}, title \in Titles :
            CreateItem(i, type, parent, title)
       \/ \E patch \in Patches : UpdateItem(i, patch)
  \/ \E i \in Items : DeleteItem(i) \/ \E rank \in Ranks : Reorder(i, rank)
  \/ \E c \in Comments : DeleteComment(c) \/ \E i \in Items : AddComment(c, i)

Next == ReadPage \/ Resume \/ (writes < MaxWrites /\ Write)

Spec == Init /\ [][Next]_vars

----------------------------------------------------------------------------
TypeOK ==
  /\ Consistent(items, comments, now) /\ Numbered(feed, seq)
  /\ cursor \in Nat /\ cursor <= Len(seen)
  /\ stayed \subseteq Items \cup Comments \cup 1..seq
  /\ lower \cup higher \subseteq Items \cup Comments \cup 1..seq

(***************************************************************************)
(* What an offset for a cursor is worth.  A row that is in the listing     *)
(* from the first page to the last is missed only if at some time it came  *)
(* to have fewer rows ahead (something in front of it was deleted, moved   *)
(* back or stopped matching), and is given twice only if it came to have   *)
(* more.  While nobody writes, each row is given once.                     *)
(***************************************************************************)
Given(r) == Cardinality({n \in DOMAIN seen : seen[n] = r})

Steady ==
  \A r \in stayed :
    /\ r \notin higher => Given(r) <= 1
    /\ done /\ r \notin lower => Given(r) >= 1

(***************************************************************************)
(* A reader of the feed that pages and resumes while the store is written  *)
(* handles every recorded event its query selects once, and in order: the  *)
(* feed grows at its end only, so an offset into it does not shift.        *)
(***************************************************************************)
HandledOnce ==
  query.of = "events" /\ handled # << >> =>
    /\ \A m, n \in DOMAIN handled : m < n => handled[m] < handled[n]
    /\ ToSet(handled) =
         {feed[n].seq : n \in {n \in DOMAIN feed : feed[n].seq <= Last(handled) /\ Selects(query, feed[n])}}

(***************************************************************************)
(* Two ways of asking what keeps an item from closing agree: the count     *)
(* UnresolvedDescendants takes walking down from it, which gates its       *)
(* resolution, and the items beneath it that FindItems lists as unresolved *)
(* by walking up from each.                                                *)
(***************************************************************************)
GateAgrees ==
  \A i \in Stored :
    UnresolvedDescendants(i) =
      Cardinality(Rows([of |-> "items", subtree |-> i, categories |-> Unresolved]))
=============================================================================
