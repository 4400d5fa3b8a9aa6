------------------------------ MODULE WebSync ------------------------------
(***************************************************************************)
(* A browser that shows a list and keeps it current without polling        *)
(* (src/services/web/src: realtime/client.ts and membership.ts, hooks/     *)
(* useRealtime.ts, useTracker.ts and useProjects.ts).                      *)
(*                                                                         *)
(* The rooms are joined; when all are, or when the server says resync, the *)
(* list is fetched; from then on it follows the events.  What crosses the  *)
(* socket (frames in order, acknowledgements of joins), the requests in    *)
(* flight, the frames received before React renders and the server's       *)
(* writers interleave freely.                                              *)
(*                                                                         *)
(* A write and its announcement are two steps of the server.  Projects are *)
(* announced after the write, without a lock: announcements wait and pass  *)
(* each other.  A tracker writes and announces under its lock.  Either     *)
(* announcement can be lost: its event was not recorded, the context of    *)
(* the caller is canceled, or the hub is too far behind.                   *)
(*                                                                         *)
(* Two hooks follow one list each: a project event carries the record, a   *)
(* tracker event the identifier only, and the item is fetched; the request *)
(* for a tracker's items is answered with the first page of them.          *)
(***************************************************************************)
EXTENDS Integers, Sequences, FiniteSets

CONSTANTS
  Ids,         \* what the list is of
  Values,      \* what the server may store under one
  Absent,      \* nothing is stored
  Rooms,       \* the rooms the page wants
  Source,      \* the one the events of the list are published to
  None,        \* no event, no request
  Resync,      \* the frame that says fetch again
  PageSize,    \* how many items a tracker lists at once
  MaxChanges, MaxTroubles  \* bounds of the model: writes; drops, losses, resyncs and failures

Kinds  == {"changed", "deleted", "reordered", "other"}

\* What is announced; "late" is the model's, and says that it is not what is
\* stored and that nothing which is will be heard of after it.
Events == [id : Ids, kind : Kinds, value : Values \cup {Absent}, late : BOOLEAN]
Lists  == [Ids -> Values \cup {Absent}]

\* The request for an item, and the answer to it that has not arrived.
Fetches == [id : Ids, got : Values \cup {Absent, None}]

ASSUME WebAssumption ==
  /\ Absent \notin Values /\ Source \in Rooms
  /\ None \notin Values \cup {Absent} \cup Events \cup Lists \cup Fetches
  /\ Resync \notin Events
  /\ PageSize \in Nat \ {0} /\ MaxChanges \in Nat /\ MaxTroubles \in Nat

VARIABLES
  hook,         \* which of the two follows the list
  data,         \* what the server stores
  unsent,       \* writes not announced yet, numbered
  gap,          \* the hub has missed an announcement, and not seen a later one
  changes, troubles,
  sock,         \* how many sockets there have been
  up,           \* whether the last one is open
  asked,        \* joins sent and not yet processed
  joined,       \* the rooms the server has this socket in
  acks,         \* acknowledgements on their way
  wire,         \* frames on their way, events and resyncs
  outstanding,  \* Membership: the joins not acknowledged, with their socket
  bumped,       \* the generation rose since the last render
  latest,       \* events[0]
  fresh,        \* whether it came since the last render
  lists,        \* the requests for the list that will be listened to
  fetch,        \* the request for an item
  shown,        \* the list
  excused       \* what the hooks are known not to keep current, see Current

server == << data, unsent, gap, changes >>
socket == << sock, up, asked, joined, acks, wire >>
page   == << bumped, latest, fresh >>
view   == << lists, fetch, shown, excused >>
vars   == << hook, server, troubles, socket, outstanding, page, view >>

Nothing == [id \in Ids |-> Absent]

Init ==
  /\ hook \in {"projects", "tracker"}
  /\ data = Nothing /\ unsent = {} /\ gap = FALSE /\ changes = 0 /\ troubles = 0
  /\ sock = 0 /\ up = FALSE /\ asked = {} /\ joined = {} /\ acks = {} /\ wire = << >>
  /\ outstanding = {}
  /\ bumped = FALSE /\ latest = None /\ fresh = FALSE
  /\ lists = << >> /\ fetch = None /\ shown = Nothing /\ excused = {}

Trouble == troubles < MaxTroubles /\ troubles' = troubles + 1

----------------------------------------------------------------------------
(* The server *)

\* A tracker's lock is held from a write until its announcement.
Locked == hook = "tracker" /\ unsent # {}

\* Of what the room hears of, comments for one change nothing in the list.
Change(id, kind, value) ==
  /\ changes < MaxChanges /\ changes' = changes + 1
  /\ ~Locked
  /\ \/ kind = "changed" /\ value \in Values \ {data[id]}
     \/ kind = "deleted" /\ data[id] # Absent /\ value = Absent
     \/ kind = "reordered" /\ data[id] # Absent /\ value \in Values \ {data[id]} /\ hook = "tracker"
     \/ kind = "other" /\ value = data[id]
  /\ data' = [data EXCEPT ![id] = value]
  /\ LET event == [id |-> id, kind |-> kind, value |-> value, late |-> FALSE]
     IN  unsent' = unsent \cup {[no |-> changes', event |-> event]}
  /\ UNCHANGED << hook, gap, troubles, socket, outstanding, page, view >>

Stale(e) == e.kind # "other" /\ e.value # data[e.id]

\* Some announcement among these says what is stored under id.
Tell(announcements, id) ==
  \E u \in announcements : u.event.id = id /\ u.event.kind # "other" /\ u.event.value = data[id]

Outdated(e, rest) == Stale(e) /\ ~Tell(rest, e.id)

\* What is announced reaches those in the room; when the hub sees that it has
\* missed something before it, everybody connected is told to resync instead.
Announce(u) ==
  /\ LET e == [u.event EXCEPT !.late = Outdated(u.event, unsent \ {u})]
     IN  wire' = IF gap THEN IF up THEN << Resync >> ELSE wire
                 ELSE IF Source \in joined THEN Append(wire, e) ELSE wire
  /\ unsent' = unsent \ {u} /\ gap' = FALSE
  /\ UNCHANGED << hook, data, changes, troubles, sock, up, asked, joined, acks, outstanding, page, view >>

\* Nobody will hear what is stored under these.
Unheard(u) == {id \in {u.event.id} : Tell({u}, id) /\ ~Tell(unsent \ {u}, id)}

Belated(e, ids) == IF e # Resync /\ e.id \in ids /\ Stale(e) THEN [e EXCEPT !.late = TRUE] ELSE e

\* The event of a tracker could not be recorded, or its publisher's context is
\* canceled; or a full backlog does without it, which shows as a gap later.
Lose(u) ==
  /\ Trouble
  /\ unsent' = unsent \ {u} /\ gap' \in {gap, TRUE}
  /\ wire' = [n \in DOMAIN wire |-> Belated(wire[n], Unheard(u))]
  /\ excused' = excused \cup Unheard(u)
  /\ UNCHANGED << hook, data, changes, sock, up, asked, joined, acks, outstanding, page,
                  lists, fetch, shown >>

\* The connection fell behind: what waits is given up for a resync.
FallBehind ==
  /\ wire # << >> /\ Trouble
  /\ wire' = << Resync >>
  /\ UNCHANGED << hook, server, sock, up, asked, joined, acks, outstanding, page, view >>

ServeJoin(r) ==
  /\ r \in asked
  /\ asked' = asked \ {r} /\ joined' = joined \cup {r} /\ acks' = acks \cup {r}
  /\ UNCHANGED << hook, server, troubles, sock, up, wire, outstanding, page, view >>

----------------------------------------------------------------------------
(* The socket *)

Drop ==
  /\ up /\ Trouble
  /\ up' = FALSE /\ asked' = {} /\ joined' = {} /\ acks' = {} /\ wire' = << >>
  /\ UNCHANGED << hook, server, sock, outstanding, page, view >>

\* A fault for the checks: the joins of the last socket are still awaited.
FaultyReset == outstanding

\* Membership.reset
Reset == {}

\* A socket opens: rejoin declares every room anew.
Rejoin ==
  /\ ~up
  /\ up' = TRUE /\ sock' = sock + 1 /\ asked' = Rooms
  /\ outstanding' = Reset \cup {<< sock', r >> : r \in Rooms}
  /\ UNCHANGED << hook, server, troubles, joined, acks, wire, page, view >>

\* A fault for the checks: of two rooms, the first to be acknowledged means ready.
FaultyAcknowledge(left) == left # {}

\* Membership.acknowledge: the last one means ready.
Acknowledge(left) == left = {}

ReceiveAck(r) ==
  /\ r \in acks
  /\ acks' = acks \ {r}
  /\ outstanding' = outstanding \ {<< sock, r >>}
  /\ bumped' = (bumped \/ Acknowledge(outstanding'))
  /\ UNCHANGED << hook, server, troubles, sock, up, asked, joined, wire, latest, fresh, view >>

ReceiveResync ==
  /\ wire # << >> /\ Head(wire) = Resync
  /\ wire' = Tail(wire) /\ bumped' = TRUE
  /\ UNCHANGED << hook, server, troubles, sock, up, asked, joined, acks, outstanding, latest, fresh, view >>

\* itemOf, reduce: the kinds a hook looks at.
Followed(e) == e.kind \in {"changed", "deleted"}

\* Only the newest event is looked at when the page renders.
ReceiveEvent ==
  /\ wire # << >> /\ Head(wire) # Resync
  /\ wire' = Tail(wire)
  /\ latest' = Head(wire) /\ fresh' = TRUE
  /\ excused' = excused \cup {e.id : e \in {x \in {latest} : fresh /\ Followed(x)}}
                        \cup {e.id : e \in {x \in {latest'} : x.kind = "reordered"}}
  /\ UNCHANGED << hook, server, troubles, sock, up, asked, joined, acks, outstanding, bumped,
                  lists, fetch, shown >>

----------------------------------------------------------------------------
(* The page *)

\* Some answer to a request for the list was made and has not arrived: it will
\* replace what is shown by what was stored then.
Overwriting(requests) == \E n \in DOMAIN requests : requests[n] # None

\* A fault for the checks: the request of the last generation is listened to.
FaultyReload == Append(lists, None)

\* The effect of the generation: the request before it is abandoned.
Reload == << None >>

\* An item in flight when the list is fetched anew, or when another event
\* comes, whatever it is about.
Outrun == {f.id : f \in {fetch} \ {None}}

Render ==
  /\ bumped \/ fresh
  /\ bumped' = FALSE /\ fresh' = FALSE
  /\ lists' = IF bumped THEN Reload ELSE lists
  /\ LET tracked == hook = "tracker"
         before  == IF bumped /\ tracked THEN Nothing ELSE shown
         acts    == fresh /\ Followed(latest)
         gone    == acts /\ latest.kind = "deleted"
     IN  /\ shown' = IF ~acts THEN before
                     ELSE IF gone \/ ~tracked THEN [before EXCEPT ![latest.id] = latest.value]
                     ELSE before
         /\ fetch' = IF ~tracked \/ ~fresh THEN fetch
                     ELSE IF acts /\ ~gone THEN [id |-> latest.id, got |-> None] ELSE None
         /\ excused' = (IF bumped THEN {} ELSE excused)
                         \cup (IF fresh /\ bumped THEN {} ELSE IF fresh \/ bumped THEN Outrun ELSE {})
                         \cup (IF acts /\ (Overwriting(lists') \/ (latest.late /\ lists' = << >>))
                               THEN {latest.id} ELSE {})
  /\ UNCHANGED << hook, server, troubles, socket, outstanding, latest >>

Stored == {id \in Ids : data[id] # Absent}

\* What a request for the list may be answered with: every project; as many
\* items as fit a page, the first to be created.
Listings ==
  IF hook = "projects" THEN {Stored}
  ELSE {first \in SUBSET Stored : \/ first = Stored /\ Cardinality(first) <= PageSize
                                  \/ first # Stored /\ Cardinality(first) = PageSize}

\* The server answers the request for the list with what it stores now; the
\* next page is not asked for.
ServeList(n) ==
  /\ lists[n] = None /\ ~Locked
  /\ \E listed \in Listings :
       /\ lists' = [lists EXCEPT ![n] = [id \in Ids |-> IF id \in listed THEN data[id] ELSE Absent]]
       /\ excused' = excused \cup (Stored \ listed)
  /\ UNCHANGED << hook, server, troubles, socket, outstanding, page, fetch, shown >>

Without(n) == SubSeq(lists, 1, n - 1) \o SubSeq(lists, n + 1, Len(lists))

ReceiveList(n) ==
  /\ lists[n] # None
  /\ shown' = lists[n] /\ lists' = Without(n)
  /\ UNCHANGED << hook, server, troubles, socket, outstanding, page, fetch, excused >>

FailList(n) ==
  /\ Trouble
  /\ lists' = Without(n) /\ excused' = Ids
  /\ UNCHANGED << hook, server, socket, outstanding, page, fetch, shown >>

ServeItem ==
  /\ fetch # None /\ fetch.got = None /\ ~Locked
  /\ fetch' = [fetch EXCEPT !.got = data[fetch.id]]
  /\ UNCHANGED << hook, server, troubles, socket, outstanding, page, lists, shown, excused >>

\* An item that is gone is not an answer.
ReceiveItem ==
  /\ fetch # None /\ fetch.got # None
  /\ shown' = IF fetch.got = Absent THEN shown ELSE [shown EXCEPT ![fetch.id] = fetch.got]
  /\ excused' = IF Overwriting(lists) THEN excused \cup {fetch.id} ELSE excused
  /\ fetch' = None
  /\ UNCHANGED << hook, server, troubles, socket, outstanding, page, lists >>

FailItem ==
  /\ fetch # None /\ Trouble
  /\ excused' = excused \cup {fetch.id}
  /\ fetch' = None
  /\ UNCHANGED << hook, server, socket, outstanding, page, lists, shown >>

----------------------------------------------------------------------------
\* What happens without anybody's doing, until nothing is left to happen.
Settle ==
  \/ \E u \in unsent : Announce(u)
  \/ Rejoin \/ ReceiveResync \/ ReceiveEvent \/ Render
  \/ \E r \in Rooms : ServeJoin(r) \/ ReceiveAck(r)
  \/ \E n \in DOMAIN lists : ServeList(n) \/ ReceiveList(n)
  \/ ServeItem \/ ReceiveItem

Next ==
  \/ Settle
  \/ \E id \in Ids, kind \in Kinds, value \in Values \cup {Absent} : Change(id, kind, value)
  \/ \E u \in unsent : Lose(u)
  \/ FallBehind \/ Drop
  \/ \E n \in DOMAIN lists : FailList(n)
  \/ FailItem

Spec == Init /\ [][Next]_vars

\* A caller goes on after its write, the socket reconnects for as long as the
\* page is open, frames and answers arrive, and a render follows a change of state.
LiveSpec == Spec /\ WF_vars(Settle)

----------------------------------------------------------------------------
TypeOK ==
  /\ data \in Lists /\ shown \in Lists
  /\ (\A u \in unsent : u.event \in Events) /\ gap \in BOOLEAN
  /\ up \in BOOLEAN /\ bumped \in BOOLEAN /\ fresh \in BOOLEAN
  /\ asked \cup joined \cup acks \subseteq Rooms /\ acks \subseteq joined
  /\ outstanding \subseteq (1..sock) \X Rooms
  /\ up => \A r \in asked \cup acks : << sock, r >> \in outstanding
  /\ wire \in Seq(Events \cup {Resync}) /\ latest \in Events \cup {None}
  /\ lists \in Seq(Lists \cup {None}) /\ Len(lists) <= 1
  /\ fetch \in Fetches \cup {None}
  /\ excused \subseteq Ids

Quiet ==
  /\ unsent = {} /\ up /\ outstanding = {} /\ wire = << >>
  /\ ~bumped /\ ~fresh /\ lists = << >> /\ fetch = None

(***************************************************************************)
(* "A consumer refetches what it is showing when this changes, and         *)
(* otherwise waits" (useRealtime.ts).  When everything has arrived, what   *)
(* is shown is what is stored, but for what is excused, and an item gets   *)
(* excused until the next generation in these ways only.  Of the hooks: an *)
(* event was followed by another before the page rendered; an event, of    *)
(* any kind, came while the item of an earlier one was being fetched; the  *)
(* change was applied while an older list was on its way, which then       *)
(* replaces it; a fetch of an item outlived a new generation, and replaces *)
(* what that fetched; a fetch failed; an item was reordered; it was not on *)
(* the first page.  Of the server: its last announcement was lost, or was  *)
(* overtaken by one that was written before it.                            *)
(***************************************************************************)
Current == Quiet => \A id \in Ids \ excused : shown[id] = data[id]

(***************************************************************************)
(* Fetching because of an event never causes another fetch: once nobody    *)
(* writes and nothing breaks, the page comes to rest.                      *)
(***************************************************************************)
ComesToRest == []<>Quiet
=============================================================================
